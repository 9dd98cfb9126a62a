---------------------- MODULE RuntimeSupervisor_proofs ----------------------
(***************************************************************************)
(* Nothing outlives its end: no child, no Run and no wait on its behalf,   *)
(* for any number of Runtimes, operations and faults.  The invariant says  *)
(* what the operation that has the Agent lane may rely on, although        *)
(* preparations and aborts run beside it: while it launches a session      *)
(* there is no Runtime and no abort is pending, in its later steps there   *)
(* is one; a handle is reserved only by the start that has the lane, and   *)
(* is gone when a Run is admitted; and after shutdown nothing is launched. *)
(***************************************************************************)
EXTENDS RuntimeSupervisor, TLAPS

Reasons == {"interactive_selection", "pending_delivery"}
Deferrals == {"input", "activity", "timer"}
ReadySet == {"pending", "cancelled", "ready", "failed"}
SupSet ==
  [runtime : Nat, admitted : BOOLEAN, handle : Nat, failed : BOOLEAN, starting : BOOLEAN,
   passive : BOOLEAN, startingHandle : Nat, prepared : Nat, cancelRequested : BOOLEAN,
   pendingAbort : BOOLEAN, closed : BOOLEAN, ending : BOOLEAN, reasons : SUBSET Reasons,
   attention : Nat, seq : Nat, deferred : SUBSET Deferrals]
Pcs == {"queued", "launching", "initializing", "announcing", "readying", "unready", "failed",
        "discarding", "ending", "keeping"}
OpSet == [kind : Kinds \cup {"classify"}, pc : Pcs, gen : Nat, fence : {"no", "cancelled", "late"}]

\* The fields that number Runtimes and Runs are in range.
SupTypes ==
  /\ sup \in SupSet /\ sup.runtime \in None .. Len(ready) /\ sup.prepared \in None .. Len(ready)
  /\ {sup.handle, sup.startingHandle} \subseteq None .. sup.seq
  /\ ended \subseteq 1 .. sup.seq
LaneTypes ==
  /\ lane \in Seq(OpSet)
  /\ \A i \in DOMAIN lane : lane[i].kind = "classify" => lane[i].gen \in Runtimes
RestTypes ==
  /\ ready \in Seq(ReadySet)
  /\ detached \subseteq Runtimes /\ finalizing \subseteq Runtimes /\ disposed \subseteq Runtimes
  /\ busy \subseteq {"input", "compaction"} /\ wanted \in BOOLEAN /\ stopped \in BOOLEAN
TypeInv == SupTypes /\ LaneTypes /\ RestTypes

\* An operation that waits for its turn, or the classification of a failed preparation.
Waits(op) == op.pc = "queued" \/ (op.kind = "classify" /\ op.pc = "failed")
\* Steps of an operation that is about the Runtime which is bound.
BoundSteps == {"initializing", "announcing", "readying", "unready", "discarding", "ending",
               "keeping"}

\* What an operation may be about to do.
HeadHolds(op) ==
  /\ op.pc \in {"initializing", "announcing", "readying"} => op.kind = "start"
  /\ op.pc \in {"launching", "unready"} => op.kind \in Starts
  /\ op.pc = "launching" => sup.runtime = None /\ ~sup.pendingAbort /\ ~stopped
  /\ op.pc \in BoundSteps => sup.runtime # None

LaneInv ==
  /\ \A i \in DOMAIN lane : i # 1 => Waits(lane[i])
  /\ \A i \in DOMAIN lane : lane[i].kind = "shutdown" => sup.closed
  /\ lane # <<>> => HeadHolds(Head1)

HandleInv ==
  /\ sup.admitted => sup.runtime # None /\ sup.startingHandle = None /\ sup.handle # None
  /\ sup.startingHandle # None =>
       /\ sup.runtime = None
       /\ lane # <<>> /\ Head1.kind = "start" /\ Head1.pc \in {"launching", "failed"}

StoppedInv == stopped => sup.closed /\ sup.runtime = None /\ sup.startingHandle = None

IInv == TypeInv /\ LaneInv /\ HandleInv /\ StoppedInv /\ NoChildIsLeaked /\ EndedIsOver

\* What a step may do to Runs while an abort's receipt is pending.
StartsFenced == sup.pendingAbort /\ sup'.pendingAbort => sup'.seq = sup.seq

-----------------------------------------------------------------------------
(* The lane as a sequence of operations. *)

LEMMA PushFacts ==
  ASSUME NEW S, NEW ops \in Seq(S), NEW op \in S
  PROVE  /\ Append(ops, op) \in Seq(S) /\ Append(ops, op) # <<>>
         /\ DOMAIN Append(ops, op) = 1 .. Len(ops) + 1 /\ DOMAIN ops = 1 .. Len(ops)
         /\ Len(ops) \in Nat /\ Len(Append(ops, op)) = Len(ops) + 1
         /\ \A i \in DOMAIN ops : Append(ops, op)[i] = ops[i]
         /\ Append(ops, op)[Len(ops) + 1] = op
         /\ ops # <<>> => 1 \in DOMAIN ops /\ Append(ops, op)[1] = ops[1]
         /\ ops = <<>> => Len(ops) = 0
  OBVIOUS

LEMMA PopFacts ==
  ASSUME NEW S, NEW ops \in Seq(S), ops # <<>>
  PROVE  /\ Tail(ops) \in Seq(S)
         /\ DOMAIN Tail(ops) = 1 .. Len(ops) - 1 /\ DOMAIN ops = 1 .. Len(ops)
         /\ Len(ops) \in Nat \ {0} /\ 1 \in DOMAIN ops
         /\ \A i \in DOMAIN Tail(ops) : i + 1 \in DOMAIN ops /\ Tail(ops)[i] = ops[i + 1]
         /\ Tail(ops) # <<>> => 1 \in DOMAIN Tail(ops)
  OBVIOUS

\* An operation joins the lane.
LEMMA PushKeeps ==
  ASSUME IInv, NEW op \in OpSet, Waits(op), lane' = Append(lane, op),
         op.kind = "shutdown" => sup'.closed, op.kind = "classify" => op.gen \in Runtimes',
         sup.closed => sup'.closed, Runtimes \subseteq Runtimes'
  PROVE  /\ LaneTypes' /\ lane' # <<>>
         /\ \A i \in DOMAIN lane' : i # 1 => Waits(lane'[i])
         /\ \A i \in DOMAIN lane' : lane'[i].kind = "shutdown" => sup'.closed
         /\ IF lane = <<>> THEN lane'[1] = op ELSE lane'[1] = lane[1]
  <1>1. /\ lane \in Seq(OpSet)
        /\ \A i \in DOMAIN lane : /\ lane[i].kind = "classify" => lane[i].gen \in Runtimes
                                  /\ lane[i].kind = "shutdown" => sup.closed
                                  /\ i # 1 => Waits(lane[i])
    BY DEF IInv, TypeInv, LaneTypes, LaneInv
  <1>2. /\ lane' \in Seq(OpSet) /\ lane' # <<>>
        /\ DOMAIN lane' = 1 .. Len(lane) + 1 /\ DOMAIN lane = 1 .. Len(lane)
        /\ Len(lane) \in Nat
        /\ \A i \in DOMAIN lane : lane'[i] = lane[i]
        /\ lane'[Len(lane) + 1] = op
        /\ lane # <<>> => 1 \in DOMAIN lane /\ lane'[1] = lane[1]
        /\ lane = <<>> => Len(lane) = 0
    BY <1>1, PushFacts
  <1>3. \A i \in DOMAIN lane' : i \in DOMAIN lane \/ lane'[i] = op
    BY <1>2
  <1>4. LaneTypes'
    BY <1>1, <1>2, <1>3 DEF LaneTypes
  <1>5. \A i \in DOMAIN lane' : i # 1 => Waits(lane'[i])
    BY <1>1, <1>2, <1>3
  <1>6. \A i \in DOMAIN lane' : lane'[i].kind = "shutdown" => sup'.closed
    BY <1>1, <1>2, <1>3
  <1>7. IF lane = <<>> THEN lane'[1] = op ELSE lane'[1] = lane[1]
    BY <1>2
  <1> QED BY <1>2, <1>4, <1>5, <1>6, <1>7

\* The operation that has the lane leaves it to the next.
LEMMA PopKeeps ==
  ASSUME IInv, lane # <<>>, lane' = Tail(lane),
         sup.closed => sup'.closed, Runtimes \subseteq Runtimes'
  PROVE  /\ LaneTypes'
         /\ \A i \in DOMAIN lane' : Waits(lane'[i])
         /\ \A i \in DOMAIN lane' : lane'[i].kind = "shutdown" => sup'.closed
         /\ lane' # <<>> => 1 \in DOMAIN lane'
  <1>1. /\ lane \in Seq(OpSet)
        /\ \A i \in DOMAIN lane : /\ lane[i].kind = "classify" => lane[i].gen \in Runtimes
                                  /\ lane[i].kind = "shutdown" => sup.closed
                                  /\ i # 1 => Waits(lane[i])
    BY DEF IInv, TypeInv, LaneTypes, LaneInv
  <1>2. /\ lane' \in Seq(OpSet)
        /\ DOMAIN lane' = 1 .. Len(lane) - 1 /\ Len(lane) \in Nat \ {0}
        /\ \A i \in DOMAIN lane' : i + 1 \in DOMAIN lane /\ lane'[i] = lane[i + 1]
        /\ lane' # <<>> => 1 \in DOMAIN lane'
    BY <1>1, PopFacts
  <1>3. \A i \in DOMAIN lane' : i + 1 # 1
    BY <1>2
  <1>4. LaneTypes'
    BY <1>1, <1>2 DEF LaneTypes
  <1> QED BY <1>1, <1>2, <1>3, <1>4

\* The operation that has the lane goes on.
LEMMA GoKeeps ==
  ASSUME IInv, lane # <<>>, NEW pc \in Pcs, NEW gen \in Nat,
         \/ lane' = [lane EXCEPT ![1].pc = pc] /\ gen = Head1.gen
         \/ lane' = [lane EXCEPT ![1].pc = pc, ![1].gen = gen] /\ Head1.kind # "classify",
         sup.closed => sup'.closed, Runtimes \subseteq Runtimes'
  PROVE  /\ LaneTypes' /\ lane' # <<>> /\ lane'[1].pc = pc /\ lane'[1].kind = lane[1].kind
         /\ \A i \in DOMAIN lane' : i # 1 => Waits(lane'[i])
         /\ \A i \in DOMAIN lane' : lane'[i].kind = "shutdown" => sup'.closed
  <1>1. /\ lane \in Seq(OpSet) /\ 1 \in DOMAIN lane /\ lane[1] \in OpSet
        /\ DOMAIN lane = 1 .. Len(lane) /\ Len(lane) \in Nat
        /\ \A i \in DOMAIN lane : /\ lane[i].kind = "classify" => lane[i].gen \in Runtimes
                                  /\ lane[i].kind = "shutdown" => sup.closed
                                  /\ i # 1 => Waits(lane[i])
    BY PopFacts DEF IInv, TypeInv, LaneTypes, LaneInv
  <1>2. PICK op : op = [lane[1] EXCEPT !.pc = pc, !.gen = gen]
    OBVIOUS
  <1>3. /\ op \in OpSet /\ op.pc = pc /\ op.kind = lane[1].kind
        /\ op.kind = "classify" => op.gen = lane[1].gen
    <2>1. op \in OpSet /\ op.pc = pc /\ op.kind = lane[1].kind /\ op.gen = gen
      BY <1>1, <1>2 DEF OpSet
    <2> QED BY <2>1 DEF Head1
  <1>4. lane' = [lane EXCEPT ![1] = op]
    <2>1. CASE lane' = [lane EXCEPT ![1].pc = pc] /\ gen = Head1.gen
      <3>1. [lane[1] EXCEPT !.pc = pc] = op
        BY <1>1, <1>2, <2>1 DEF OpSet, Head1
      <3> QED BY <2>1, <3>1
    <2>2. CASE lane' = [lane EXCEPT ![1].pc = pc, ![1].gen = gen]
      BY <1>2, <2>2
    <2> QED BY <2>1, <2>2
  <1>5. /\ lane' \in Seq(OpSet) /\ lane' # <<>> /\ lane'[1] = op /\ DOMAIN lane' = DOMAIN lane
        /\ \A i \in DOMAIN lane : i # 1 => lane'[i] = lane[i]
    BY <1>1, <1>3, <1>4
  <1>6. LaneTypes'
    BY <1>1, <1>3, <1>5 DEF LaneTypes
  <1> QED BY <1>1, <1>3, <1>5, <1>6

-----------------------------------------------------------------------------
(* What the methods do to the fields. *)

LEMMA ClearFacts ==
  ASSUME NEW s \in SupSet, NEW keeps \in BOOLEAN
  PROVE  LET c == ClearRunScopedState(s, keeps)
         IN /\ c \in SupSet /\ c.prepared = None /\ c.attention = None
            /\ c.runtime = s.runtime /\ c.admitted = s.admitted /\ c.handle = s.handle
            /\ c.startingHandle = s.startingHandle /\ c.seq = s.seq
            /\ c.closed = s.closed /\ c.pendingAbort = s.pendingAbort
  BY DEF ClearRunScopedState, SupSet, Reasons, None

LEMMA SettleFacts ==
  ASSUME NEW s \in SupSet
  PROVE  LET c == StartupSettles(s)
         IN /\ c \in SupSet /\ c.prepared = s.prepared /\ c.attention = s.attention
            /\ c.runtime = s.runtime /\ c.admitted = s.admitted /\ c.handle = s.handle
            /\ c.startingHandle = None /\ c.seq = s.seq
            /\ c.closed = s.closed /\ c.pendingAbort = s.pendingAbort
  BY DEF StartupSettles, SupSet, None

LEMMA UnbindFacts ==
  ASSUME NEW s \in SupSet
  PROVE  LET c == Unbind(s)
         IN /\ c \in SupSet /\ c.prepared = s.prepared /\ c.attention = s.attention
            /\ c.runtime = None /\ c.admitted = FALSE /\ c.handle = None
            /\ c.startingHandle = s.startingHandle /\ c.seq = s.seq
            /\ c.closed = s.closed /\ c.pendingAbort = s.pendingAbort
  BY DEF Unbind, SupSet, None, Deferrals

LEMMA RetainFacts ==
  ASSUME NEW s \in SupSet
  PROVE  LET c == Retain(s)
         IN /\ c \in SupSet /\ c.prepared = s.prepared /\ c.attention = s.attention
            /\ c.runtime = s.runtime /\ c.admitted = FALSE /\ c.handle = s.handle
            /\ c.startingHandle = s.startingHandle /\ c.seq = s.seq
            /\ c.closed = s.closed /\ c.pendingAbort = s.pendingAbort
  BY DEF Retain, SupSet

LEMMA BindFacts ==
  ASSUME NEW s \in SupSet, NEW g \in Nat
  PROVE  LET c == BindRuntime(s, g)
         IN /\ c \in SupSet /\ c.prepared = s.prepared /\ c.attention = s.attention
            /\ c.runtime = g /\ c.admitted = FALSE /\ c.handle = None
            /\ c.startingHandle = s.startingHandle /\ c.seq = s.seq
            /\ c.closed = s.closed /\ c.pendingAbort = s.pendingAbort
  BY DEF BindRuntime, SupSet, None, Deferrals

\* A Run is admitted with the handle that was reserved for it, or with a new one.
LEMMA AdmitFacts ==
  ASSUME NEW s \in SupSet
  PROVE  LET c == MarkPreparedRunAdmitted(s)
         IN /\ c \in SupSet /\ c.prepared = s.prepared /\ c.attention = s.attention
            /\ c.runtime = s.runtime /\ c.admitted = TRUE /\ c.startingHandle = None
            /\ IF s.startingHandle # None THEN c.handle = s.startingHandle /\ c.seq = s.seq
                                          ELSE c.handle = s.seq + 1 /\ c.seq = s.seq + 1
            /\ c.closed = s.closed /\ c.pendingAbort = s.pendingAbort
  <1>1. PICK h \in Nat, q \in Nat :
          /\ h = IF s.startingHandle # None THEN s.startingHandle ELSE s.seq + 1
          /\ q = IF s.startingHandle # None THEN s.seq ELSE s.seq + 1
    BY DEF SupSet
  <1>2. PICK d \in SUBSET Deferrals : d = s.deferred \ {"timer", "activity"}
    BY DEF SupSet
  <1>3. MarkPreparedRunAdmitted(s) =
          [s EXCEPT !.handle = h, !.seq = q, !.startingHandle = None, !.admitted = TRUE,
                    !.deferred = d]
    BY <1>1, <1>2 DEF MarkPreparedRunAdmitted, SupSet
  <1>4. PICK c : c = [s EXCEPT !.handle = h, !.seq = q, !.startingHandle = None,
                               !.admitted = TRUE, !.deferred = d]
    OBVIOUS
  <1>5. /\ c \in SupSet /\ c.prepared = s.prepared /\ c.attention = s.attention
        /\ c.runtime = s.runtime /\ c.admitted = TRUE /\ c.startingHandle = None
        /\ c.handle = h /\ c.seq = q
        /\ c.closed = s.closed /\ c.pendingAbort = s.pendingAbort
    BY <1>4 DEF SupSet, None
  <1> QED BY <1>1, <1>3, <1>4, <1>5

LEMMA ReadyFacts ==
  ASSUME ready \in Seq(ReadySet), NEW g
  PROVE  /\ Cancels(g) \in Seq(ReadySet) /\ Len(Cancels(g)) = Len(ready)
         /\ \A r \in ReadySet : /\ [ready EXCEPT ![g] = r] \in Seq(ReadySet)
                                /\ Len([ready EXCEPT ![g] = r]) = Len(ready)
         /\ Disposes(g) => ready' \in Seq(ReadySet) /\ Len(ready') = Len(ready)
  <1>1. \A r : r \in ReadySet \/ g \notin DOMAIN ready =>
          /\ [ready EXCEPT ![g] = r] \in Seq(ReadySet)
          /\ Len([ready EXCEPT ![g] = r]) = Len(ready)
    <2> TAKE r
    <2> HAVE r \in ReadySet \/ g \notin DOMAIN ready
    <2>1. PICK q : q = [ready EXCEPT ![g] = r]
      OBVIOUS
    <2>2. DOMAIN ready = 1 .. Len(ready) /\ \A i \in DOMAIN ready : ready[i] \in ReadySet
      OBVIOUS
    <2>3. q \in [1 .. Len(ready) -> ReadySet]
      BY <2>1, <2>2
    <2>4. q \in Seq(ReadySet) /\ Len(q) = Len(ready)
      BY <2>3
    <2> QED BY <2>1, <2>4
  <1>2. g \in DOMAIN ready => ready[g] \in ReadySet
    OBVIOUS
  <1>3. PICK c : c = IF ready[g] = "pending" THEN "cancelled" ELSE ready[g]
    OBVIOUS
  <1>4. PICK d : d = IF ready[g] = "ready" THEN ready[g] ELSE "failed"
    OBVIOUS
  <1>5. /\ c \in ReadySet \/ g \notin DOMAIN ready
        /\ d \in ReadySet \/ g \notin DOMAIN ready
    BY <1>2, <1>3, <1>4 DEF ReadySet
  <1>6. Cancels(g) = [ready EXCEPT ![g] = c]
    BY <1>3 DEF Cancels
  <1>7. Disposes(g) => ready' = [ready EXCEPT ![g] = d]
    BY <1>4 DEF Disposes
  <1> QED BY <1>1, <1>5, <1>6, <1>7

LEMMA ReadyBecomes ==
  ASSUME ready \in Seq(ReadySet), NEW g \in Runtimes, NEW r \in ReadySet,
         ready' = [ready EXCEPT ![g] = r]
  PROVE  ready' \in Seq(ReadySet) /\ Len(ready') = Len(ready)
  BY ReadyFacts

-----------------------------------------------------------------------------
(* Steps that neither bind a Runtime nor admit or end a Run. *)

Calm ==
  /\ sup' \in SupSet
  /\ sup'.runtime = sup.runtime /\ (sup'.admitted <=> sup.admitted)
  /\ sup'.handle = sup.handle /\ sup'.seq = sup.seq
  /\ sup'.startingHandle = sup.startingHandle \/ sup'.startingHandle = None
  /\ sup'.prepared = sup.prepared \/ sup'.prepared = None
  /\ \/ sup'.attention = None \/ sup'.attention = sup.attention
     \/ sup.admitted /\ sup'.attention = sup.handle
  /\ sup.closed => sup'.closed
  /\ sup'.pendingAbort => sup.pendingAbort \/ sup.runtime # None
  /\ ended' = ended /\ disposed' = disposed
  /\ ready' \in Seq(ReadySet) /\ Len(ready') = Len(ready)
  /\ detached' \subseteq Runtimes /\ finalizing' \subseteq Runtimes
  /\ busy' \subseteq {"input", "compaction"} /\ wanted' \in BOOLEAN

LEMMA CalmFields ==
  ASSUME IInv, Calm
  PROVE  /\ SupTypes' /\ NoChildIsLeaked' /\ EndedIsOver' /\ StartsFenced
         /\ stopped' \in BOOLEAN => RestTypes'
         /\ stopped' = stopped => StoppedInv'
         /\ Runtimes' = Runtimes
         /\ sup'.admitted => /\ sup'.runtime # None /\ sup'.startingHandle = None
                             /\ sup'.handle # None
  <1>1. Runtimes' = Runtimes
    BY DEF Calm, Runtimes
  <1>2. SupTypes'
    <2>1. /\ sup.runtime \in None .. Len(ready) /\ sup.prepared \in None .. Len(ready)
          /\ sup.handle \in None .. sup.seq /\ sup.startingHandle \in None .. sup.seq
          /\ ended \subseteq 1 .. sup.seq
          /\ sup \in SupSet
      BY DEF IInv, TypeInv, SupTypes
    <2>2. None \in None .. Len(ready) /\ None \in None .. sup.seq
      BY <2>1 DEF None, SupSet
    <2>3. /\ sup'.runtime \in None .. Len(ready') /\ sup'.prepared \in None .. Len(ready')
          /\ sup'.handle \in None .. sup'.seq /\ sup'.startingHandle \in None .. sup'.seq
          /\ ended' \subseteq 1 .. sup'.seq /\ sup' \in SupSet
      BY <2>1, <2>2 DEF Calm
    <2> QED BY <2>3 DEF SupTypes
  <1>3. stopped' \in BOOLEAN => RestTypes'
    BY <1>1 DEF IInv, TypeInv, RestTypes, Calm
  <1>4. NoChildIsLeaked' /\ StartsFenced
    BY <1>1 DEF IInv, NoChildIsLeaked, StartsFenced, Calm
  <1>5. /\ sup'.admitted => /\ sup'.runtime # None /\ sup'.startingHandle = None
                            /\ sup'.handle # None
        /\ stopped' = stopped => StoppedInv'
    BY DEF IInv, HandleInv, StoppedInv, Calm
  <1>6. EndedIsOver'
    <2>1. None \notin ended
      BY DEF IInv, TypeInv, SupTypes, None
    <2> QED BY <2>1 DEF IInv, HandleInv, EndedIsOver, CurrentHandle, Calm
  <1> QED BY <1>1, <1>2, <1>3, <1>4, <1>5, <1>6

\* The lane stays, or an operation joins it.
LEMMA CalmKeeps ==
  ASSUME IInv, Calm, stopped' = stopped,
         \/ lane' = lane
         \/ \E op \in OpSet : /\ lane' = Append(lane, op) /\ Waits(op)
                              /\ op.kind = "shutdown" => sup'.closed
                              /\ op.kind = "classify" => op.gen \in Runtimes
  PROVE  IInv' /\ StartsFenced
  <1>1. /\ SupTypes' /\ NoChildIsLeaked' /\ EndedIsOver' /\ StartsFenced
        /\ RestTypes' /\ StoppedInv' /\ Runtimes' = Runtimes
        /\ sup'.admitted => /\ sup'.runtime # None /\ sup'.startingHandle = None
                            /\ sup'.handle # None
    BY CalmFields DEF IInv, TypeInv, RestTypes
  <1>2. /\ sup.closed => sup'.closed
        /\ sup'.runtime = sup.runtime /\ stopped' = stopped
        /\ sup'.pendingAbort => sup.pendingAbort \/ sup.runtime # None
        /\ sup'.startingHandle # None => sup'.startingHandle = sup.startingHandle
    BY DEF Calm
  <1>3. CASE lane' = lane
    <2>1. LaneTypes'
      BY <1>1, <1>3 DEF IInv, TypeInv, LaneTypes
    <2>2. LaneInv'
      BY <1>2, <1>3 DEF IInv, LaneInv, HeadHolds, Waits, Head1
    <2>3. HandleInv'
      BY <1>1, <1>2, <1>3 DEF IInv, HandleInv, Head1
    <2> QED BY <1>1, <2>1, <2>2, <2>3 DEF IInv, TypeInv
  <1>4. ASSUME NEW op \in OpSet, lane' = Append(lane, op), Waits(op),
               op.kind = "shutdown" => sup'.closed,
               op.kind = "classify" => op.gen \in Runtimes
        PROVE  IInv' /\ StartsFenced
    <2>1. /\ LaneTypes' /\ lane' # <<>>
          /\ \A i \in DOMAIN lane' : i # 1 => Waits(lane'[i])
          /\ \A i \in DOMAIN lane' : lane'[i].kind = "shutdown" => sup'.closed
          /\ IF lane = <<>> THEN lane'[1] = op ELSE lane'[1] = lane[1]
      BY <1>1, <1>2, <1>4, PushKeeps
    <2>2. HeadHolds(Head1)'
      <3>1. CASE lane = <<>>
        BY <1>4, <2>1, <3>1 DEF HeadHolds, Waits, Head1, BoundSteps
      <3>2. CASE lane # <<>>
        BY <1>2, <2>1, <3>2 DEF IInv, LaneInv, HeadHolds, Head1
      <3> QED BY <3>1, <3>2
    <2>3. LaneInv'
      BY <2>1, <2>2 DEF LaneInv
    <2>4. HandleInv'
      BY <1>1, <1>2, <2>1 DEF IInv, HandleInv, Head1
    <2> QED BY <1>1, <2>1, <2>3, <2>4 DEF IInv, TypeInv
  <1> QED BY <1>3, <1>4

\* An operation leaves the lane, which is not about to start a Run.
LEMMA CalmPopKeeps ==
  ASSUME IInv, Calm, stopped' = stopped, lane # <<>>, lane' = Tail(lane),
         Head1.pc # "launching", Head1.pc # "failed"
  PROVE  IInv' /\ StartsFenced
  <1>1. /\ SupTypes' /\ NoChildIsLeaked' /\ EndedIsOver' /\ StartsFenced
        /\ RestTypes' /\ StoppedInv' /\ Runtimes' = Runtimes
        /\ sup'.admitted => /\ sup'.runtime # None /\ sup'.startingHandle = None
                            /\ sup'.handle # None
    BY CalmFields DEF IInv, TypeInv, RestTypes
  <1>2. /\ LaneTypes'
        /\ \A i \in DOMAIN lane' : Waits(lane'[i])
        /\ \A i \in DOMAIN lane' : lane'[i].kind = "shutdown" => sup'.closed
        /\ lane' # <<>> => 1 \in DOMAIN lane'
    BY <1>1, PopKeeps DEF Calm
  <1>3. LaneInv'
    BY <1>2 DEF LaneInv, HeadHolds, Waits, BoundSteps, Head1
  <1>4. sup'.startingHandle = None
    BY DEF Calm, IInv, HandleInv
  <1> QED BY <1>1, <1>2, <1>3, <1>4 DEF IInv, TypeInv, HandleInv

\* The operation that has the lane goes on to another step, about the bound Runtime
\* unless its session failed.
LEMMA CalmGoKeeps ==
  ASSUME IInv, Calm, stopped' = stopped, lane # <<>>, NEW pc \in Pcs, GoesTo(pc),
         pc \in {"readying", "announcing"} => Head1.kind = "start",
         pc = "unready" => Head1.kind \in Starts,
         pc \notin {"initializing", "launching"},
         pc \in BoundSteps => sup.runtime # None,
         Head1.pc \in {"launching", "failed"} => pc \in BoundSteps \cup {"failed"}
  PROVE  IInv' /\ StartsFenced
  <1>1. /\ SupTypes' /\ NoChildIsLeaked' /\ EndedIsOver' /\ StartsFenced
        /\ RestTypes' /\ StoppedInv' /\ Runtimes' = Runtimes
        /\ sup'.admitted => /\ sup'.runtime # None /\ sup'.startingHandle = None
                            /\ sup'.handle # None
    BY CalmFields DEF IInv, TypeInv, RestTypes
  <1>2. Head1.gen \in Nat
    <2>1. lane \in Seq(OpSet)
      BY DEF IInv, TypeInv, LaneTypes
    <2>2. lane[1] \in OpSet
      BY <2>1, PopFacts
    <2> QED BY <2>2 DEF OpSet, Head1
  <1>3. /\ LaneTypes' /\ lane' # <<>> /\ lane'[1].pc = pc /\ lane'[1].kind = lane[1].kind
        /\ \A i \in DOMAIN lane' : i # 1 => Waits(lane'[i])
        /\ \A i \in DOMAIN lane' : lane'[i].kind = "shutdown" => sup'.closed
    BY <1>1, <1>2, GoKeeps DEF Calm, GoesTo
  <1>4. LaneInv'
    BY <1>3 DEF LaneInv, HeadHolds, Head1, Calm
  <1>5. HandleInv'
    BY <1>1, <1>3 DEF IInv, HandleInv, Head1, Calm
  <1> QED BY <1>1, <1>3, <1>4, <1>5 DEF IInv, TypeInv

LEMMA CalmStays ==
  ASSUME IInv, Calm, stopped' = stopped, lane' = lane
  PROVE  IInv' /\ StartsFenced
  BY CalmKeeps

\* A caller's operation, or the classification of a failed preparation, joins the lane.
LEMMA CalmQueues ==
  ASSUME IInv, Calm, stopped' = stopped, NEW kind \in Kinds, NEW gen \in Nat,
         NEW fence \in {"no", "cancelled", "late"},
         lane' = Append(lane, [kind |-> kind, pc |-> "queued", gen |-> gen, fence |-> fence]),
         kind = "shutdown" => sup'.closed
  PROVE  IInv' /\ StartsFenced
  <1>1. PICK op : op = [kind |-> kind, pc |-> "queued", gen |-> gen, fence |-> fence]
    OBVIOUS
  <1>2. /\ op \in OpSet /\ Waits(op) /\ op.kind = kind /\ op.kind # "classify"
    BY <1>1 DEF OpSet, Waits, Pcs, Kinds
  <1>3. lane' = Append(lane, op)
    BY <1>1
  <1> QED BY <1>2, <1>3, CalmKeeps

LEMMA Types ==
  ASSUME IInv
  PROVE  /\ sup \in SupSet /\ ready \in Seq(ReadySet) /\ Len(ready) \in Nat
         /\ detached \subseteq Runtimes /\ finalizing \subseteq Runtimes
         /\ disposed \subseteq Runtimes /\ busy \subseteq {"input", "compaction"}
         /\ wanted \in BOOLEAN /\ stopped \in BOOLEAN
         /\ sup.runtime \in None .. Len(ready) /\ (sup.runtime # None => sup.runtime \in Runtimes)
         /\ lane \in Seq(OpSet) /\ (lane # <<>> => Head1 \in OpSet)
  <1>1. lane # <<>> => Head1 \in OpSet
    <2>1. lane \in Seq(OpSet)
      BY DEF IInv, TypeInv, LaneTypes
    <2> QED BY <2>1, PopFacts DEF Head1
  <1> QED BY <1>1 DEF IInv, TypeInv, SupTypes, LaneTypes, RestTypes, None, Runtimes

-----------------------------------------------------------------------------
(* The callers *)

LEMMA KeptByAsk ==
  ASSUME IInv, NEW kind \in Kinds, Ask(kind)
  PROVE  IInv' /\ StartsFenced
  <1>1. Calm /\ stopped' = stopped
    BY Types DEF Ask, Calm
  <1>2. /\ lane' = Append(lane, [kind |-> kind, pc |-> "queued", gen |-> None, fence |-> "no"])
        /\ kind # "shutdown" /\ None \in Nat
    BY DEF Ask, None
  <1> QED BY <1>1, <1>2, CalmQueues

LEMMA KeptByAskAbort ==
  ASSUME IInv, AskAbort
  PROVE  IInv' /\ StartsFenced
  <1>1. stopped' = stopped /\ "abort" \in Kinds /\ None \in Nat
    BY DEF AskAbort, Kinds, None
  <1>2. CASE /\ PhaseStarting(sup) /\ sup.runtime # None /\ ~sup.pendingAbort
             /\ sup' = [sup EXCEPT !.pendingAbort = TRUE,
                                   !.cancelRequested = @ \/ ready[sup.runtime] = "pending"]
             /\ ready' = Cancels(sup.runtime)
             /\ lane' = Append(lane, [kind |-> "abort", pc |-> "queued", gen |-> sup.runtime,
                                      fence |-> IF ready[sup.runtime] = "pending"
                                                  THEN "cancelled" ELSE "late"])
    <2>1. ready' \in Seq(ReadySet) /\ Len(ready') = Len(ready) /\ sup.runtime \in Nat
      BY <1>2, Types, ReadyFacts DEF SupSet
    <2>2. Calm
      <3>1. UNCHANGED <<detached, finalizing, disposed, busy, ended, wanted>>
        BY DEF AskAbort
      <3>2. PICK c \in BOOLEAN : c <=> (sup.cancelRequested \/ ready[sup.runtime] = "pending")
        OBVIOUS
      <3>3. sup' = [sup EXCEPT !.pendingAbort = TRUE, !.cancelRequested = c]
        BY <1>2, <3>2, Types DEF SupSet
      <3> QED BY <1>2, <2>1, <3>1, <3>3, Types DEF Calm, SupSet
    <2>3. PICK fence \in {"no", "cancelled", "late"} :
            fence = IF ready[sup.runtime] = "pending" THEN "cancelled" ELSE "late"
      OBVIOUS
    <2>4. lane' = Append(lane, [kind |-> "abort", pc |-> "queued", gen |-> sup.runtime,
                                fence |-> fence])
      BY <1>2, <2>3
    <2> QED BY <1>1, <2>1, <2>2, <2>4, CalmQueues
  <1>3. CASE /\ lane' = Append(lane, [kind |-> "abort", pc |-> "queued", gen |-> None,
                                      fence |-> "no"])
             /\ UNCHANGED <<sup, ready>>
    <2>1. Calm
      BY <1>3, Types DEF AskAbort, Calm
    <2> QED BY <1>1, <1>3, <2>1, CalmQueues
  <1> QED BY <1>2, <1>3 DEF AskAbort

LEMMA KeptByBeginShutdown ==
  ASSUME IInv, BeginShutdown
  PROVE  IInv' /\ StartsFenced
  <1>1. ready' \in Seq(ReadySet) /\ Len(ready') = Len(ready)
    BY Types, ReadyFacts DEF BeginShutdown
  <1>2. PICK c \in BOOLEAN : sup' = [sup EXCEPT !.closed = TRUE, !.cancelRequested = c]
    <2>1. PICK c \in BOOLEAN :
            c <=> (sup.cancelRequested \/ (/\ sup.runtime # None
                                           /\ sup.starting \/ sup.prepared # None
                                           /\ ready[sup.runtime] = "pending"))
      OBVIOUS
    <2>2. sup' = [sup EXCEPT !.closed = TRUE, !.cancelRequested = c]
      BY <2>1, Types DEF BeginShutdown, SupSet
    <2> QED BY <2>2
  <1>3. Calm /\ sup'.closed
    BY <1>1, <1>2, Types DEF BeginShutdown, Calm, SupSet
  <1>4. /\ lane' = Append(lane, [kind |-> "shutdown", pc |-> "queued", gen |-> None,
                                 fence |-> "no"])
        /\ stopped' = stopped /\ "shutdown" \in Kinds /\ None \in Nat
    BY DEF BeginShutdown, Kinds, None
  <1> QED BY <1>3, <1>4, CalmQueues

LEMMA KeptBySelect ==
  ASSUME IInv, NEW on \in BOOLEAN, Select(on)
  PROVE  IInv' /\ StartsFenced
  <1>1. Calm
    BY Types DEF Select, Calm, SupSet, Reasons
  <1> QED BY <1>1, CalmStays DEF Select

-----------------------------------------------------------------------------
(* The child Runtime and its Run *)

LEMMA KeptByReadinessSettles ==
  ASSUME IInv, NEW g \in Runtimes, ReadinessSettles(g)
  PROVE  IInv' /\ StartsFenced
  <1>1. ready' \in Seq(ReadySet) /\ Len(ready') = Len(ready)
    <2>1. "ready" \in ReadySet /\ "failed" \in ReadySet
      BY DEF ReadySet
    <2>2. ready' = [ready EXCEPT ![g] = "ready"] \/ ready' = [ready EXCEPT ![g] = "failed"]
      BY DEF ReadinessSettles
    <2>3. CASE ready' = [ready EXCEPT ![g] = "ready"]
      BY <2>1, <2>3, Types, ReadyBecomes
    <2>4. CASE ready' = [ready EXCEPT ![g] = "failed"]
      BY <2>1, <2>4, Types, ReadyBecomes
    <2> QED BY <2>2, <2>3, <2>4
  <1>2. Calm
    BY <1>1, Types DEF ReadinessSettles, Calm
  <1> QED BY <1>2, CalmStays DEF ReadinessSettles

LEMMA KeptByChildDies ==
  ASSUME IInv, NEW g \in Runtimes, ChildDies(g)
  PROVE  IInv' /\ StartsFenced
  <1>1. ready' \in Seq(ReadySet) /\ Len(ready') = Len(ready)
    <2>1. PICK r : r = IF ready[g] = "pending" THEN "failed" ELSE ready[g]
      OBVIOUS
    <2>2. r \in ReadySet
      BY <2>1, Types DEF Runtimes, ReadySet
    <2>3. ready' = [ready EXCEPT ![g] = r]
      BY <2>1 DEF ChildDies
    <2> QED BY <2>2, <2>3, Types, ReadyFacts
  <1>2. CASE RunFails
    <2>1. Calm /\ stopped' = stopped
      BY <1>1, <1>2, Types DEF ChildDies, RunFails, Calm, SupSet
    <2>2. /\ lane' = Append(lane, [kind |-> "failure", pc |-> "queued", gen |-> None,
                                   fence |-> "no"])
          /\ "failure" \in Kinds /\ None \in Nat
      BY <1>2 DEF RunFails, Kinds, None
    <2> QED BY <2>1, <2>2, CalmQueues
  <1>3. CASE UNCHANGED <<sup, lane>>
    <2>1. Calm /\ stopped' = stopped
      BY <1>1, <1>3, Types DEF ChildDies, Calm
    <2> QED BY <1>3, <2>1, CalmStays
  <1> QED BY <1>2, <1>3 DEF ChildDies

LEMMA KeptByAttend ==
  ASSUME IInv, NEW on \in BOOLEAN, Attend(on)
  PROVE  IInv' /\ StartsFenced
  <1>1. Calm
    BY Types DEF Attend, Calm, SupSet, None
  <1> QED BY <1>1, CalmStays DEF Attend

LEMMA KeptByGetsBusy ==
  ASSUME IInv, NEW what \in {"input", "compaction"}, GetsBusy(what)
  PROVE  IInv' /\ StartsFenced
  <1>1. Calm
    BY Types DEF GetsBusy, Calm, SupSet, Deferrals
  <1> QED BY <1>1, CalmStays DEF GetsBusy

LEMMA KeptByInputSettles ==
  ASSUME IInv, InputSettles
  PROVE  IInv' /\ StartsFenced
  <1>1. Calm /\ stopped' = stopped
    BY Types DEF InputSettles, Calm, SupSet, Deferrals
  <1>2. CASE lane' = lane
    BY <1>1, <1>2, CalmStays
  <1>3. CASE Releases
    <2>1. "release" \in Kinds /\ None \in Nat
      BY DEF Kinds, None
    <2> QED BY <1>1, <1>3, <2>1, CalmQueues DEF Releases
  <1> QED BY <1>2, <1>3 DEF InputSettles

LEMMA KeptByActivitySettles ==
  ASSUME IInv, ActivitySettles
  PROVE  IInv' /\ StartsFenced
  <1>1. Calm
    BY Types DEF ActivitySettles, Calm, SupSet, Deferrals
  <1> QED BY <1>1, CalmStays DEF ActivitySettles

LEMMA KeptByGraceEnds ==
  ASSUME IInv, GraceEnds
  PROVE  IInv' /\ StartsFenced
  <1>1. Calm /\ stopped' = stopped
    BY Types DEF GraceEnds, Calm, SupSet, Deferrals
  <1>2. "release" \in Kinds /\ None \in Nat /\ Releases
    BY DEF Kinds, None, GraceEnds
  <1> QED BY <1>1, <1>2, CalmQueues DEF Releases

-----------------------------------------------------------------------------
(* Preparations outside the lane *)

LEMMA KeptByPreparationReady ==
  ASSUME IInv, NEW g \in detached, PreparationReady(g)
  PROVE  IInv' /\ StartsFenced
  <1>1. PICK s : s = [sup EXCEPT !.prepared = None]
    OBVIOUS
  <1>2. /\ s \in SupSet /\ s.prepared = None /\ s.attention = sup.attention
        /\ s.runtime = sup.runtime /\ s.admitted = sup.admitted /\ s.handle = sup.handle
        /\ s.seq = sup.seq /\ s.closed = sup.closed /\ s.pendingAbort = sup.pendingAbort
    BY <1>1, Types DEF SupSet, None
  <1>3. sup' = StartupSettles(s)
    BY <1>1 DEF PreparationReady
  <1>4. Calm
    BY <1>2, <1>3, SettleFacts, Types DEF PreparationReady, Calm
  <1> QED BY <1>4, CalmStays DEF PreparationReady

LEMMA KeptByPreparationFails ==
  ASSUME IInv, NEW g \in detached, PreparationFails(g)
  PROVE  IInv' /\ StartsFenced
  <1>1. Calm /\ stopped' = stopped
    BY Types DEF PreparationFails, Calm
  <1>2. PICK op : op = [kind |-> "classify", pc |-> "failed", gen |-> g, fence |-> "no"]
    OBVIOUS
  <1>3. g \in Runtimes /\ g \in Nat
    BY Types DEF Runtimes
  <1>4. op \in OpSet /\ Waits(op) /\ op.kind = "classify" /\ op.gen \in Runtimes
    BY <1>2, <1>3 DEF OpSet, Waits, Pcs, Kinds
  <1>5. lane' = Append(lane, op)
    BY <1>2 DEF PreparationFails
  <1> QED BY <1>1, <1>4, <1>5, CalmKeeps

LEMMA KeptByFinally ==
  ASSUME IInv, NEW g \in finalizing, Finally(g)
  PROVE  IInv' /\ StartsFenced
  <1>1. Calm
    BY SettleFacts, Types DEF Finally, Calm
  <1> QED BY <1>1, CalmStays DEF Finally

-----------------------------------------------------------------------------
(* The operation that has the lane: steps that end no Run. *)

LEMMA KeptByEnsureReturns ==
  ASSUME IInv, EnsureReturns
  PROVE  IInv' /\ StartsFenced
  <1>1. sup' = sup \/ sup' = [sup EXCEPT !.reasons = @ \cup {Reason}]
    BY DEF EnsureReturns
  <1>2. Reason \in Reasons
    BY DEF Reason, Reasons
  <1>3. Calm
    BY <1>1, <1>2, Types DEF EnsureReturns, Calm, SupSet
  <1> QED BY <1>3, CalmPopKeeps DEF EnsureReturns, AtHead, Returns

LEMMA KeptByRetained ==
  ASSUME IInv, Retained
  PROVE  IInv' /\ StartsFenced
  <1>1. PICK s : s = [sup EXCEPT !.reasons = @ \ {"pending_delivery"}]
    OBVIOUS
  <1>2. PICK d \in SUBSET Deferrals :
          sup' = [s EXCEPT !.deferred = d]
    <2>1. s.deferred \subseteq Deferrals /\ Deferral(s) \subseteq Deferrals
      BY <1>1, Types DEF SupSet, Deferral, Deferrals
    <2>2. s = [s EXCEPT !.deferred = s.deferred]
      BY <1>1, Types DEF SupSet
    <2>3. sup' = [s EXCEPT !.deferred = Deferral(s)] \/ sup' = s
      BY <1>1 DEF Retained
    <2> QED BY <2>1, <2>2, <2>3
  <1>3. Calm
    <2>1. wanted' \in BOOLEAN
      BY DEF Retained
    <2>2. UNCHANGED <<detached, finalizing, ready, disposed, busy, ended, stopped>>
      BY DEF Retained
    <2>3. s \in SupSet /\ sup' \in SupSet
      BY <1>1, <1>2, Types DEF SupSet, Reasons
    <2>4. /\ sup'.runtime = sup.runtime /\ sup'.admitted = sup.admitted
          /\ sup'.handle = sup.handle /\ sup'.seq = sup.seq
          /\ sup'.startingHandle = sup.startingHandle /\ sup'.prepared = sup.prepared
          /\ sup'.attention = sup.attention /\ sup'.closed = sup.closed
          /\ sup'.pendingAbort = sup.pendingAbort
      BY <1>1, <1>2, Types DEF SupSet
    <2> QED BY <2>1, <2>2, <2>3, <2>4, Types DEF Calm
  <1> QED BY <1>3, CalmPopKeeps DEF Retained, AtHead, Returns

LEMMA KeptByRunStarted ==
  ASSUME IInv, RunStarted
  PROVE  IInv' /\ StartsFenced
  <1>1. lane # <<>> /\ Head1.kind = "start" /\ Head1.pc = "announcing" /\ stopped' = stopped
    BY DEF RunStarted, AtHead
  <1>2. Calm
    BY ZenonT(60), Types DEF RunStarted, Calm, SupSet
  <1>3. CASE Returns
    BY <1>1, <1>2, <1>3, CalmPopKeeps DEF Returns
  <1>4. CASE GoesTo("readying")
    <2>1. sup.runtime # None /\ "readying" \in Pcs
      BY <1>1 DEF IInv, LaneInv, HeadHolds, BoundSteps, Pcs
    <2> QED BY <1>1, <1>2, <1>4, <2>1, CalmGoKeeps
  <1> QED BY <1>3, <1>4 DEF RunStarted

LEMMA KeptByStartReady ==
  ASSUME IInv, StartReady
  PROVE  IInv' /\ StartsFenced
  <1>1. PICK s : s = [sup EXCEPT !.prepared = None]
    OBVIOUS
  <1>2. /\ s \in SupSet /\ s.prepared = None /\ s.attention = sup.attention
        /\ s.runtime = sup.runtime /\ s.admitted = sup.admitted /\ s.handle = sup.handle
        /\ s.seq = sup.seq /\ s.closed = sup.closed /\ s.pendingAbort = sup.pendingAbort
    BY <1>1, Types DEF SupSet, None
  <1>3. sup' = StartupSettles(s)
    BY <1>1 DEF StartReady
  <1>4. Calm
    BY <1>2, <1>3, SettleFacts, Types DEF StartReady, Calm
  <1> QED BY <1>4, CalmPopKeeps DEF StartReady, AtHead, Returns

LEMMA KeptByInitializerSettles ==
  ASSUME IInv, InitializerSettles
  PROVE  IInv' /\ StartsFenced
  <1>1. lane # <<>> /\ Head1.kind = "start" /\ Head1.pc = "initializing" /\ stopped' = stopped
    BY DEF InitializerSettles, AtHead
  <1>2. sup.runtime # None
    BY <1>1 DEF IInv, LaneInv, HeadHolds, BoundSteps
  <1>3. ready' \in Seq(ReadySet) /\ Len(ready') = Len(ready)
    BY Types, ReadyFacts DEF InitializerSettles
  <1>4. Calm
    BY <1>3, Types DEF InitializerSettles, Calm, SupSet
  <1>5. /\ {"announcing", "discarding", "unready"} \subseteq Pcs
        /\ GoesTo("announcing") \/ GoesTo("discarding") \/ GoesTo("unready")
        /\ "start" \in Starts
    BY DEF InitializerSettles, Pcs, Starts
  <1>6. CASE GoesTo("announcing")
    BY <1>1, <1>2, <1>4, <1>5, <1>6, CalmGoKeeps
  <1>7. CASE GoesTo("discarding")
    BY <1>1, <1>2, <1>4, <1>5, <1>7, CalmGoKeeps
  <1>8. CASE GoesTo("unready")
    BY <1>1, <1>2, <1>4, <1>5, <1>8, CalmGoKeeps
  <1> QED BY <1>5, <1>6, <1>7, <1>8

LEMMA KeptByStartHandlerThrows ==
  ASSUME IInv, StartHandlerThrows
  PROVE  IInv' /\ StartsFenced
  <1>1. /\ lane # <<>> /\ Head1.kind = "start" /\ Head1.pc \in {"initializing", "announcing"}
        /\ stopped' = stopped
    BY DEF StartHandlerThrows, AtHead
  <1>2. sup.runtime # None
    BY <1>1 DEF IInv, LaneInv, HeadHolds, BoundSteps
  <1>3. ready' \in Seq(ReadySet) /\ Len(ready') = Len(ready)
    BY Types, ReadyFacts DEF StartHandlerThrows
  <1>4. Calm
    BY <1>3, Types DEF StartHandlerThrows, Calm
  <1>5. /\ {"discarding", "unready"} \subseteq Pcs
        /\ GoesTo("discarding") \/ GoesTo("unready")
        /\ "start" \in Starts
    BY DEF StartHandlerThrows, Pcs, Starts
  <1>6. CASE GoesTo("discarding")
    BY <1>1, <1>2, <1>4, <1>5, <1>6, CalmGoKeeps
  <1>7. CASE GoesTo("unready")
    BY <1>1, <1>2, <1>4, <1>5, <1>7, CalmGoKeeps
  <1> QED BY <1>5, <1>6, <1>7

LEMMA KeptByStartUnready ==
  ASSUME IInv, StartUnready
  PROVE  IInv' /\ StartsFenced
  <1>1. Calm
    BY Types DEF StartUnready, Calm
  <1>2. "failed" \in Pcs /\ "failed" \notin BoundSteps
    BY DEF Pcs, BoundSteps
  <1> QED BY <1>1, <1>2, CalmGoKeeps DEF StartUnready, AtHead

LEMMA KeptBySessionFails ==
  ASSUME IInv, SessionFails
  PROVE  IInv' /\ StartsFenced
  <1>1. Calm
    BY Types DEF SessionFails, Calm
  <1>2. "failed" \in Pcs /\ "failed" \notin BoundSteps
    BY DEF Pcs, BoundSteps
  <1> QED BY <1>1, <1>2, CalmGoKeeps DEF SessionFails, AtHead

LEMMA KeptByReleaseBegins ==
  ASSUME IInv, ReleaseBegins
  PROVE  IInv' /\ StartsFenced
  <1>1. PICK s : s = [sup EXCEPT !.reasons = @ \ {"pending_delivery"}]
    OBVIOUS
  <1>2. sup' = [s EXCEPT !.ending = TRUE]
    BY <1>1 DEF ReleaseBegins
  <1>3. /\ s \in SupSet /\ s.prepared = sup.prepared /\ s.attention = sup.attention
        /\ s.runtime = sup.runtime /\ s.admitted = sup.admitted /\ s.handle = sup.handle
        /\ s.startingHandle = sup.startingHandle
        /\ s.seq = sup.seq /\ s.closed = sup.closed /\ s.pendingAbort = sup.pendingAbort
    BY <1>1, Types DEF SupSet, Reasons
  <1>4. Calm
    BY ZenonT(60), <1>2, <1>3, Types DEF ReleaseBegins, Calm, SupSet
  <1>5. {"ending", "keeping"} \subseteq Pcs /\ sup.runtime # None
    BY DEF Pcs, ReleaseBegins
  <1> QED BY <1>4, <1>5, CalmGoKeeps DEF ReleaseBegins, AtHead, Ending

LEMMA KeptByDiscardBegins ==
  ASSUME IInv, DiscardBegins
  PROVE  IInv' /\ StartsFenced
  <1>1. Calm
    BY Types DEF DiscardBegins, Calm, SupSet, Deferrals
  <1>2. {"ending", "keeping"} \subseteq Pcs /\ sup.runtime # None
    BY DEF Pcs, DiscardBegins, NothingToEnd
  <1> QED BY <1>1, <1>2, CalmGoKeeps DEF DiscardBegins, AtHead, Ending

-----------------------------------------------------------------------------
(* The operation that has the lane leaves it, and whatever it ended is over. *)

Over ==
  /\ sup' \in SupSet /\ ~sup'.admitted /\ sup'.startingHandle = None
  /\ sup'.attention = None /\ sup'.prepared = None /\ sup'.seq = sup.seq
  /\ sup'.handle = None \/ sup'.handle = sup.handle
  /\ \/ sup'.runtime = sup.runtime
     \/ sup'.runtime = None /\ (sup.runtime = None \/ sup.runtime \in disposed')
  /\ sup.closed => sup'.closed
  /\ ended' \subseteq 1 .. sup.seq
  /\ disposed \subseteq disposed' /\ disposed' \subseteq Runtimes
  /\ ready' \in Seq(ReadySet) /\ Len(ready') = Len(ready)
  /\ detached' \subseteq Runtimes /\ finalizing' \subseteq Runtimes
  /\ busy' \subseteq {"input", "compaction"} /\ wanted' \in BOOLEAN /\ stopped' \in BOOLEAN
  /\ stopped' => stopped \/ (sup'.closed /\ sup'.runtime = None)

LEMMA OverKeeps ==
  ASSUME IInv, Over, lane # <<>>, lane' = Tail(lane)
  PROVE  IInv' /\ StartsFenced
  <1>1. Runtimes' = Runtimes
    BY DEF Over, Runtimes
  <1>2. /\ LaneTypes'
        /\ \A i \in DOMAIN lane' : Waits(lane'[i])
        /\ \A i \in DOMAIN lane' : lane'[i].kind = "shutdown" => sup'.closed
        /\ lane' # <<>> => 1 \in DOMAIN lane'
    BY <1>1, PopKeeps DEF Over
  <1>3. LaneInv'
    BY <1>2 DEF LaneInv, HeadHolds, Waits, BoundSteps, Head1
  <1>4. SupTypes'
    <2>1. /\ sup.runtime \in None .. Len(ready) /\ sup.handle \in None .. sup.seq
          /\ sup \in SupSet
      BY DEF IInv, TypeInv, SupTypes
    <2>2. None \in None .. Len(ready) /\ None \in None .. sup.seq
      BY <2>1 DEF None, SupSet
    <2>3. /\ sup'.runtime \in None .. Len(ready') /\ sup'.prepared \in None .. Len(ready')
          /\ sup'.handle \in None .. sup'.seq /\ sup'.startingHandle \in None .. sup'.seq
          /\ ended' \subseteq 1 .. sup'.seq /\ sup' \in SupSet
      BY <2>1, <2>2 DEF Over
    <2> QED BY <2>3 DEF SupTypes
  <1>5. RestTypes'
    BY <1>1 DEF Over, RestTypes
  <1>6. HandleInv' /\ StartsFenced
    BY DEF Over, HandleInv, StartsFenced
  <1>7. StoppedInv'
    BY DEF IInv, StoppedInv, Over
  <1>8. NoChildIsLeaked'
    BY <1>1 DEF IInv, NoChildIsLeaked, Over
  <1>9. EndedIsOver'
    BY DEF EndedIsOver, CurrentHandle, Over, None
  <1> QED BY <1>2, <1>3, <1>4, <1>5, <1>6, <1>7, <1>8, <1>9 DEF IInv, TypeInv

\* The bound Runtime has no reserved handle beside it.
LEMMA BoundHasNoReservation ==
  ASSUME IInv, sup.runtime # None
  PROVE  sup.startingHandle = None /\ sup.runtime \in Runtimes
  BY Types DEF IInv, HandleInv

LEMMA EndsInRange ==
  ASSUME IInv, NEW h \in None .. sup.seq
  PROVE  RunsEnded(h) \subseteq 1 .. sup.seq
  <1>1. ended \subseteq 1 .. sup.seq /\ sup.seq \in Nat
    BY DEF IInv, TypeInv, SupTypes, SupSet
  <1>2. {h} \ {None} \subseteq 1 .. sup.seq
    BY <1>1 DEF None
  <1> QED BY <1>1, <1>2 DEF RunsEnded

LEMMA KeptByClassifyFailedStart ==
  ASSUME IInv, ClassifyFailedStart
  PROVE  IInv' /\ StartsFenced
  <1>1. PICK s : s = [sup EXCEPT !.prepared = None]
    OBVIOUS
  <1>2. /\ s \in SupSet /\ s.prepared = None /\ s.attention = sup.attention
        /\ s.runtime = sup.runtime /\ s.admitted = sup.admitted /\ s.handle = sup.handle
        /\ s.startingHandle = sup.startingHandle
        /\ s.seq = sup.seq /\ s.closed = sup.closed /\ s.pendingAbort = sup.pendingAbort
    BY <1>1, Types DEF SupSet, None
  <1>3. /\ lane # <<>> /\ Head1.kind \in Starts \cup {"classify"} /\ Head1.pc = "failed"
        /\ UNCHANGED <<detached, ready, disposed, busy, wanted, stopped>>
    BY DEF ClassifyFailedStart, AtHead
  <1>4. CASE sup.runtime # None
    <2>1. sup.startingHandle = None
      BY <1>4, BoundHasNoReservation
    <2>2. sup' = s /\ GoesTo("discarding") /\ UNCHANGED <<finalizing, ended>>
      BY <1>1, <1>2, <1>4, <2>1 DEF ClassifyFailedStart
    <2>3. Calm
      BY <1>2, <1>3, <2>2, Types DEF Calm
    <2>4. "discarding" \in Pcs /\ "discarding" \in BoundSteps
      BY DEF Pcs, BoundSteps
    <2> QED BY <1>3, <1>4, <2>2, <2>3, <2>4, CalmGoKeeps
  <1>5. CASE sup.runtime = None
    <2>1. PICK u : u = [s EXCEPT !.startingHandle = None]
      OBVIOUS
    <2>2. PICK c : c = ClearRunScopedState(u, FALSE)
      OBVIOUS
    <2>3. /\ u \in SupSet /\ u.runtime = None /\ u.admitted = sup.admitted
          /\ u.startingHandle = None /\ u.handle = sup.handle
          /\ u.seq = sup.seq /\ u.closed = sup.closed
      BY <1>2, <1>5, <2>1 DEF SupSet, None
    <2>4. /\ c \in SupSet /\ c.runtime = None /\ c.admitted = sup.admitted
          /\ c.startingHandle = None /\ c.handle = sup.handle /\ c.prepared = None
          /\ c.attention = None /\ c.seq = sup.seq /\ c.closed = sup.closed
      BY <2>2, <2>3, ClearFacts
    <2>5. FailureReturns(c) /\ ended' = RunsEnded(sup.startingHandle)
      BY <1>1, <1>5, <2>1, <2>2 DEF ClassifyFailedStart
    <2>6. finalizing' \subseteq Runtimes
      <3>1. Head1.kind = "classify" => Head1.gen \in Runtimes
        <4>1. lane \in Seq(OpSet)
          BY Types
        <4>2. 1 \in DOMAIN lane
          BY <1>3, <4>1, PopFacts
        <4> QED BY <4>2 DEF IInv, TypeInv, LaneTypes, Head1
      <3> QED BY <2>5, <3>1, Types DEF FailureReturns
    <2>7. /\ sup' \in SupSet /\ sup'.runtime = None /\ sup'.admitted = sup.admitted
          /\ sup'.startingHandle = None /\ sup'.handle = sup.handle /\ sup'.prepared = None
          /\ sup'.attention = None /\ sup'.seq = sup.seq /\ sup'.closed = sup.closed
      BY <2>4, <2>5, SettleFacts DEF FailureReturns
    <2>8. ended' \subseteq 1 .. sup.seq
      BY <2>5, EndsInRange DEF IInv, TypeInv, SupTypes
    <2>9. ~sup.admitted
      BY <1>5 DEF IInv, HandleInv
    <2>10. Over
      BY <1>3, <1>5, <2>6, <2>7, <2>8, <2>9, Types DEF Over
    <2>11. lane' = Tail(lane)
      BY <2>5 DEF FailureReturns, Returns
    <2> QED BY <1>3, <2>10, <2>11, OverKeeps
  <1> QED BY <1>4, <1>5

\* The fields once a Runtime is gone, or has lost its Run, and its scope is cleared.
Cleared(s, r) ==
  /\ s \in SupSet /\ ~s.admitted /\ s.runtime = r /\ s.startingHandle = None
  /\ s.attention = None /\ s.prepared = None /\ s.seq = sup.seq
  /\ s.handle = None \/ s.handle = sup.handle
  /\ s.closed = sup.closed /\ (s.pendingAbort => sup.pendingAbort)

LEMMA UnbindClears ==
  ASSUME IInv, sup.runtime # None
  PROVE  \A s : s = ClearRunScopedState(Unbind(sup), FALSE) => Cleared(s, None)
  <1>1. PICK u : u = Unbind(sup)
    OBVIOUS
  <1>2. /\ u \in SupSet /\ u.runtime = None /\ u.admitted = FALSE /\ u.handle = None
        /\ u.startingHandle = None /\ u.seq = sup.seq
        /\ u.closed = sup.closed /\ u.pendingAbort = sup.pendingAbort
    BY <1>1, UnbindFacts, Types, BoundHasNoReservation
  <1>3. PICK c : c = ClearRunScopedState(u, FALSE)
    OBVIOUS
  <1>4. /\ c \in SupSet /\ c.runtime = u.runtime /\ c.admitted = u.admitted
        /\ c.startingHandle = None /\ c.handle = u.handle /\ c.prepared = None
        /\ c.attention = None /\ c.seq = sup.seq /\ c.closed = sup.closed
        /\ c.pendingAbort = sup.pendingAbort
    BY <1>2, <1>3, ClearFacts
  <1>5. Cleared(c, None)
    BY <1>2, <1>4 DEF Cleared
  <1> QED BY <1>1, <1>3, <1>5

LEMMA RetainClears ==
  ASSUME IInv, sup.runtime # None
  PROVE  \A s : s = ClearRunScopedState(Retain(sup), TRUE) => Cleared(s, sup.runtime)
  <1>1. PICK u : u = Retain(sup)
    OBVIOUS
  <1>2. /\ u \in SupSet /\ u.runtime = sup.runtime /\ u.admitted = FALSE /\ u.handle = sup.handle
        /\ u.startingHandle = None /\ u.seq = sup.seq
        /\ u.closed = sup.closed /\ u.pendingAbort = sup.pendingAbort
    BY <1>1, RetainFacts, Types, BoundHasNoReservation
  <1>3. PICK c : c = ClearRunScopedState(u, TRUE)
    OBVIOUS
  <1>4. /\ c \in SupSet /\ c.runtime = u.runtime /\ c.admitted = u.admitted
        /\ c.startingHandle = None /\ c.handle = u.handle /\ c.prepared = None
        /\ c.attention = None /\ c.seq = sup.seq /\ c.closed = sup.closed
        /\ c.pendingAbort = sup.pendingAbort
    BY <1>2, <1>3, ClearFacts
  <1>5. Cleared(c, sup.runtime)
    BY <1>2, <1>4 DEF Cleared
  <1> QED BY <1>1, <1>3, <1>5

\* The fields that differ do not matter to the invariant.
LEMMA ClearedStays ==
  ASSUME NEW s, NEW r, Cleared(s, r), NEW b \in BOOLEAN
  PROVE  /\ Cleared([s EXCEPT !.ending = b], r) /\ Cleared([s EXCEPT !.starting = b], r)
         /\ Cleared([s EXCEPT !.pendingAbort = FALSE], r)
  BY DEF Cleared, SupSet

LEMMA ReceiptStays ==
  ASSUME NEW s, NEW r, Cleared(s, r)
  PROVE  Cleared(Receipt(s), r)
  BY ClearedStays DEF Receipt

\* A step that unbinds the Runtime disposes it; one that keeps it leaves the children alone.
LEMMA ClearedIsOver ==
  ASSUME IInv, lane # <<>>, lane' = Tail(lane),
         \/ Cleared(sup', None) /\ Disposes(sup.runtime)
         \/ Cleared(sup', sup.runtime) /\ UNCHANGED <<ready, disposed>>,
         sup.runtime # None,
         ended' = ended \/ ended' = RunsEnded(sup.handle),
         detached' \subseteq Runtimes, finalizing' \subseteq Runtimes,
         busy' \subseteq {"input", "compaction"}, wanted' \in BOOLEAN,
         \/ stopped' = stopped
         \/ stopped' \in BOOLEAN /\ sup'.closed /\ sup'.runtime = None
  PROVE  IInv' /\ StartsFenced
  <1>1. sup.runtime \in Runtimes
    BY BoundHasNoReservation
  <1>2. /\ ready' \in Seq(ReadySet) /\ Len(ready') = Len(ready)
        /\ disposed \subseteq disposed' /\ disposed' \subseteq Runtimes
        /\ sup'.runtime = sup.runtime \/ (sup'.runtime = None /\ sup.runtime \in disposed')
    <2>1. CASE Cleared(sup', None) /\ Disposes(sup.runtime)
      BY <1>1, <2>1, Types, ReadyFacts DEF Disposes, Cleared
    <2>2. CASE Cleared(sup', sup.runtime) /\ UNCHANGED <<ready, disposed>>
      BY <2>2, Types DEF Cleared
    <2> QED BY <2>1, <2>2
  <1>3. /\ sup' \in SupSet /\ ~sup'.admitted /\ sup'.startingHandle = None
        /\ sup'.attention = None /\ sup'.prepared = None /\ sup'.seq = sup.seq
        /\ sup'.handle = None \/ sup'.handle = sup.handle
        /\ sup'.closed = sup.closed
    BY DEF Cleared
  <1>4. ended' \subseteq 1 .. sup.seq
    BY EndsInRange DEF IInv, TypeInv, SupTypes
  <1>5. Over
    BY <1>2, <1>3, <1>4, Types DEF Over
  <1> QED BY <1>5, OverKeeps

LEMMA KeptByDiscardFailedStart ==
  ASSUME IInv, DiscardFailedStart
  PROVE  IInv' /\ StartsFenced
  <1>1. /\ lane # <<>> /\ Head1.pc = "discarding" /\ Disposes(sup.runtime)
        /\ busy' = {} /\ wanted' = FALSE /\ detached' = detached /\ stopped' = stopped
        /\ ended' = ended \/ ended' = RunsEnded(sup.handle)
    BY DEF DiscardFailedStart, AtHead
  <1>2. sup.runtime # None
    BY <1>1 DEF IInv, LaneInv, HeadHolds, BoundSteps
  <1>3. PICK c : c = ClearRunScopedState(Unbind(sup), FALSE)
    OBVIOUS
  <1>4. PICK d : d = [c EXCEPT !.starting = FALSE]
    OBVIOUS
  <1>5. Cleared(d, None)
    BY <1>2, <1>3, <1>4, UnbindClears, ClearedStays
  <1>6. FailureReturns(d)
    BY <1>3, <1>4 DEF DiscardFailedStart
  <1>7. Cleared(sup', None)
    <2>1. sup' = d \/ sup' = StartupSettles(d)
      BY <1>6 DEF FailureReturns
    <2>2. Cleared(StartupSettles(d), None)
      BY <1>5, SettleFacts DEF Cleared
    <2> QED BY <1>5, <2>1, <2>2
  <1>8. finalizing' \subseteq Runtimes
    <2>1. Head1.kind = "classify" => Head1.gen \in Runtimes
      <3>1. lane \in Seq(OpSet)
        BY Types
      <3>2. 1 \in DOMAIN lane
        BY <1>1, <3>1, PopFacts
      <3> QED BY <3>2 DEF IInv, TypeInv, LaneTypes, Head1
    <2> QED BY <1>6, <2>1, Types DEF FailureReturns
  <1>9. lane' = Tail(lane)
    BY <1>6 DEF FailureReturns, Returns
  <1> QED BY <1>1, <1>2, <1>7, <1>8, <1>9, ClearedIsOver, Types

LEMMA KeptByReleaseEnds ==
  ASSUME IInv, ReleaseEnds
  PROVE  IInv' /\ StartsFenced
  <1>1. /\ lane # <<>> /\ Head1.pc \in {"ending", "keeping"} /\ lane' = Tail(lane)
        /\ wanted' = FALSE /\ UNCHANGED <<detached, finalizing, stopped>>
        /\ ended' = ended \/ ended' = RunsEnded(sup.handle)
        /\ busy' = {} \/ busy' = busy
    BY DEF ReleaseEnds, AtHead, Returns
  <1>2. sup.runtime # None
    BY <1>1 DEF IInv, LaneInv, HeadHolds, BoundSteps
  <1>3. \/ Cleared(sup', None) /\ Disposes(sup.runtime)
        \/ Cleared(sup', sup.runtime) /\ UNCHANGED <<ready, disposed>>
    <2>1. CASE Head1.pc = "keeping"
      <3>1. PICK c : c = ClearRunScopedState(Retain(sup), TRUE)
        OBVIOUS
      <3>2. sup' = [c EXCEPT !.ending = FALSE] /\ UNCHANGED <<ready, disposed>>
        BY <2>1, <3>1 DEF ReleaseEnds
      <3> QED BY <1>2, <3>1, <3>2, RetainClears, ClearedStays
    <2>2. CASE Head1.pc = "ending"
      <3>1. PICK c : c = ClearRunScopedState(Unbind(sup), FALSE)
        OBVIOUS
      <3>2. sup' = [c EXCEPT !.ending = FALSE] /\ Disposes(sup.runtime)
        BY <2>2, <3>1 DEF ReleaseEnds
      <3> QED BY <1>2, <3>1, <3>2, UnbindClears, ClearedStays
    <2> QED BY <1>1, <2>1, <2>2
  <1> QED BY <1>1, <1>2, <1>3, ClearedIsOver, Types

\* Who shuts the Workflow down has closed it.
LEMMA ShutdownIsClosed ==
  ASSUME IInv, lane # <<>>, Head1.kind = "shutdown"
  PROVE  sup.closed
  <1>1. 1 \in DOMAIN lane
    BY Types, PopFacts
  <1> QED BY <1>1 DEF IInv, LaneInv, Head1

LEMMA KeptByDiscardEnds ==
  ASSUME IInv, DiscardEnds
  PROVE  IInv' /\ StartsFenced
  <1>1. /\ lane # <<>> /\ Head1.pc \in {"ending", "keeping"} /\ lane' = Tail(lane)
        /\ wanted' = FALSE /\ UNCHANGED <<detached, finalizing>>
        /\ ended' = RunsEnded(sup.handle) /\ (busy' = {} \/ busy' = busy)
        /\ (stopped' <=> (stopped \/ Head1.kind = "shutdown")) /\ stopped' \in BOOLEAN
    BY DEF DiscardEnds, AtHead, Returns
  <1>2. sup.runtime # None
    BY <1>1 DEF IInv, LaneInv, HeadHolds, BoundSteps
  <1>3. CASE RetainsView
    <2>1. PICK c : c = ClearRunScopedState(Retain(sup), TRUE)
      OBVIOUS
    <2>2. PICK d : d = [c EXCEPT !.ending = FALSE]
      OBVIOUS
    <2>3. sup' = Receipt(d) /\ UNCHANGED <<ready, disposed>>
      BY <1>3, <2>1, <2>2 DEF DiscardEnds
    <2>4. Cleared(d, sup.runtime)
      BY <1>2, <2>1, <2>2, RetainClears, ClearedStays
    <2>5. Cleared(sup', sup.runtime) /\ stopped' = stopped
      BY <1>1, <1>3, <2>3, <2>4, ReceiptStays, Types DEF RetainsView
    <2> QED BY <1>1, <1>2, <2>3, <2>5, ClearedIsOver, Types
  <1>4. CASE ~RetainsView
    <2>1. PICK c : c = ClearRunScopedState(Unbind(sup), FALSE)
      OBVIOUS
    <2>2. PICK d : d = [c EXCEPT !.ending = FALSE]
      OBVIOUS
    <2>3. sup' = Receipt(d) /\ Disposes(sup.runtime)
      BY <1>4, <2>1, <2>2 DEF DiscardEnds
    <2>4. Cleared(d, None)
      BY <1>2, <2>1, <2>2, UnbindClears, ClearedStays
    <2>5. Cleared(sup', None)
      BY <2>3, <2>4, ReceiptStays
    <2>6. \/ stopped' = stopped
          \/ stopped' \in BOOLEAN /\ sup'.closed /\ sup'.runtime = None
      <3>1. CASE Head1.kind = "shutdown"
        BY <1>1, <2>5, <3>1, ShutdownIsClosed DEF Cleared
      <3>2. CASE Head1.kind # "shutdown"
        BY <1>1, <3>2, Types
      <3> QED BY <3>1, <3>2
    <2> QED BY <1>1, <1>2, <2>3, <2>5, <2>6, ClearedIsOver, Types
  <1> QED BY <1>3, <1>4

LEMMA KeptByDiscardsNothing ==
  ASSUME IInv, DiscardsNothing
  PROVE  IInv' /\ StartsFenced
  <1>1. /\ lane # <<>> /\ Head1.pc = "queued" /\ lane' = Tail(lane)
        /\ UNCHANGED <<detached, finalizing, ready, disposed, busy, ended, wanted>>
        /\ (stopped' <=> (stopped \/ Head1.kind = "shutdown")) /\ stopped' \in BOOLEAN
    BY DEF DiscardsNothing, AtHead, Returns
  <1>2. CASE Head1.kind = "shutdown"
    <2>1. sup.runtime = None
      BY <1>2 DEF DiscardsNothing, NothingToEnd
    <2>2. sup' = ClearRunScopedState(sup, FALSE)
      BY <1>2 DEF DiscardsNothing
    <2>3. ~sup.admitted /\ sup.startingHandle = None
      BY <1>2, <2>1 DEF IInv, HandleInv
    <2>4. /\ sup' \in SupSet /\ sup'.prepared = None /\ sup'.attention = None
          /\ sup'.runtime = None /\ ~sup'.admitted /\ sup'.handle = sup.handle
          /\ sup'.startingHandle = None /\ sup'.seq = sup.seq
          /\ sup'.closed = sup.closed
      BY <2>1, <2>2, <2>3, ClearFacts, Types
    <2>5. ended \subseteq 1 .. sup.seq
      BY DEF IInv, TypeInv, SupTypes
    <2>6. Over
      BY <1>1, <1>2, <2>1, <2>4, <2>5, ShutdownIsClosed, Types DEF Over
    <2> QED BY <1>1, <2>6, OverKeeps
  <1>3. CASE Head1.kind # "shutdown"
    <2>1. sup' = Receipt(sup) /\ stopped' = stopped
      BY <1>1, <1>3, Types DEF DiscardsNothing
    <2>2. sup' = sup \/ sup' = [sup EXCEPT !.pendingAbort = FALSE]
      BY <2>1 DEF Receipt
    <2>3. Calm
      BY <1>1, <2>2, Types DEF Calm, SupSet
    <2> QED BY <1>1, <2>1, <2>3, CalmPopKeeps
  <1> QED BY <1>2, <1>3

-----------------------------------------------------------------------------
(* Steps that reserve a handle, launch a session, bind its Runtime or admit its Run. *)

\* No lane operation is admitted while a receipt is pending or after shutdown.
LEMMA KeptByEnsureAdmits ==
  ASSUME IInv, EnsureAdmits
  PROVE  IInv' /\ StartsFenced
  <1>1. /\ lane # <<>> /\ Head1.kind = "start" /\ GoesTo("initializing")
        /\ ~sup.pendingAbort /\ ~sup.closed /\ sup.runtime # None /\ ~sup.admitted
        /\ UNCHANGED <<detached, finalizing, ready, disposed, busy, ended, stopped>>
        /\ wanted' \in BOOLEAN
    BY DEF EnsureAdmits, AtHead, Fenced
  <1>2. PICK s : s = [sup EXCEPT !.reasons = @ \cup {Reason}, !.starting = TRUE,
                                 !.passive = FALSE]
    OBVIOUS
  <1>3. /\ s \in SupSet /\ s.prepared = sup.prepared /\ s.attention = sup.attention
        /\ s.runtime = sup.runtime /\ s.startingHandle = sup.startingHandle
        /\ s.seq = sup.seq /\ s.closed = sup.closed /\ s.pendingAbort = sup.pendingAbort
    <2>1. Reason \in Reasons
      BY DEF Reason, Reasons
    <2> QED BY <1>2, <2>1, Types DEF SupSet
  <1>4. sup' = MarkPreparedRunAdmitted(s)
    BY <1>2 DEF EnsureAdmits
  <1>5. sup.startingHandle = None /\ sup.attention = None /\ ~stopped
    BY <1>1, BoundHasNoReservation DEF IInv, EndedIsOver, StoppedInv
  <1>6. /\ sup' \in SupSet /\ sup'.prepared = sup.prepared /\ sup'.attention = None
        /\ sup'.runtime = sup.runtime /\ sup'.admitted /\ sup'.startingHandle = None
        /\ sup'.handle = sup.seq + 1 /\ sup'.seq = sup.seq + 1
        /\ sup'.closed = sup.closed
    BY ZenonT(60), <1>3, <1>4, <1>5, AdmitFacts
  <1>7. /\ sup.seq \in Nat /\ ended \subseteq 1 .. sup.seq
        /\ sup.runtime \in None .. Len(ready) /\ sup.prepared \in None .. Len(ready)
    BY DEF IInv, TypeInv, SupTypes, SupSet
  <1>8. Runtimes' = Runtimes
    BY <1>1 DEF Runtimes
  <1>9. SupTypes'
    BY <1>1, <1>6, <1>7 DEF SupTypes, None
  <1>10. RestTypes'
    BY <1>1, <1>8, Types DEF RestTypes
  <1>11. /\ LaneTypes' /\ lane' # <<>> /\ lane'[1].pc = "initializing"
         /\ lane'[1].kind = "start"
         /\ \A i \in DOMAIN lane' : i # 1 => Waits(lane'[i])
         /\ \A i \in DOMAIN lane' : lane'[i].kind = "shutdown" => sup'.closed
    <2>1. Head1.gen \in Nat /\ "initializing" \in Pcs
      BY <1>1, Types DEF OpSet, Pcs
    <2> QED BY <1>1, <1>6, <1>8, <2>1, GoKeeps DEF GoesTo, Head1
  <1>12. LaneInv'
    BY <1>1, <1>6, <1>11 DEF LaneInv, HeadHolds, Head1, Starts
  <1>13. HandleInv' /\ StoppedInv' /\ StartsFenced
    BY <1>1, <1>5, <1>6, <1>7 DEF HandleInv, StoppedInv, StartsFenced, None
  <1>14. NoChildIsLeaked'
    BY <1>1, <1>6, <1>8 DEF IInv, NoChildIsLeaked
  <1>15. EndedIsOver'
    BY <1>1, <1>6, <1>7 DEF EndedIsOver, CurrentHandle
  <1> QED BY <1>9, <1>10, <1>11, <1>12, <1>13, <1>14, <1>15 DEF IInv, TypeInv

LEMMA KeptByEnsureLaunches ==
  ASSUME IInv, EnsureLaunches
  PROVE  IInv' /\ StartsFenced
  <1>1. /\ lane # <<>> /\ Head1.kind \in Starts /\ Head1.pc = "queued" /\ GoesTo("launching")
        /\ ~sup.pendingAbort /\ ~sup.closed /\ sup.runtime = None
        /\ UNCHANGED <<detached, finalizing, ready, disposed, busy, ended, wanted, stopped>>
    BY DEF EnsureLaunches, AtHead, Fenced
  <1>2. sup.startingHandle = None /\ ~sup.admitted /\ ~stopped /\ sup.attention = None
    BY <1>1 DEF IInv, HandleInv, StoppedInv, EndedIsOver
  <1>3. PICK q : q = IF Admits THEN sup.seq + 1 ELSE sup.seq
    OBVIOUS
  <1>4. PICK h : h = IF Admits THEN sup.seq + 1 ELSE sup.startingHandle
    OBVIOUS
  <1>5. PICK b \in BOOLEAN : b <=> ~Admits
    OBVIOUS
  <1>6. PICK w \in SUBSET Reasons : w = sup.reasons \cup {Reason}
    BY Types DEF SupSet, Reason, Reasons
  <1>7. sup' = [sup EXCEPT !.starting = TRUE, !.passive = b, !.seq = q, !.startingHandle = h,
                           !.reasons = w]
    <2>1. sup' = [sup EXCEPT !.starting = TRUE, !.passive = ~Admits, !.seq = q,
                             !.startingHandle = h, !.reasons = w]
      BY <1>3, <1>4, <1>6, Types DEF EnsureLaunches, SupSet
    <2>2. (~Admits) = b
      BY <1>5 DEF Admits
    <2> QED BY <2>1, <2>2
  <1>8. /\ sup.seq \in Nat /\ ended \subseteq 1 .. sup.seq /\ sup.handle \in None .. sup.seq
        /\ sup.runtime \in None .. Len(ready) /\ sup.prepared \in None .. Len(ready)
    BY DEF IInv, TypeInv, SupTypes, SupSet
  <1>9. /\ q \in Nat /\ h \in Nat /\ q \in {sup.seq, sup.seq + 1}
        /\ h = None \/ (h = sup.seq + 1 /\ q = sup.seq + 1 /\ Head1.kind = "start")
    BY <1>2, <1>3, <1>4, <1>8 DEF Admits, None
  <1>10. /\ sup' \in SupSet /\ sup'.prepared = sup.prepared /\ sup'.attention = sup.attention
         /\ sup'.runtime = sup.runtime /\ sup'.admitted = sup.admitted
         /\ sup'.handle = sup.handle /\ sup'.startingHandle = h /\ sup'.seq = q
         /\ sup'.closed = sup.closed /\ sup'.pendingAbort = sup.pendingAbort
    BY <1>7, <1>9, Types DEF SupSet
  <1>11. Runtimes' = Runtimes
    BY <1>1 DEF Runtimes
  <1>12. SupTypes'
    BY <1>1, <1>8, <1>9, <1>10 DEF SupTypes, None
  <1>13. RestTypes'
    BY <1>1, <1>11, Types DEF RestTypes
  <1>14. /\ LaneTypes' /\ lane' # <<>> /\ lane'[1].pc = "launching"
         /\ lane'[1].kind = Head1.kind
         /\ \A i \in DOMAIN lane' : i # 1 => Waits(lane'[i])
         /\ \A i \in DOMAIN lane' : lane'[i].kind = "shutdown" => sup'.closed
    <2>1. Head1.gen \in Nat /\ "launching" \in Pcs
      BY <1>1, Types DEF OpSet, Pcs
    <2> QED BY <1>1, <1>10, <1>11, <2>1, GoKeeps DEF GoesTo, Head1
  <1>15. LaneInv'
    BY <1>1, <1>2, <1>10, <1>14 DEF LaneInv, HeadHolds, Head1, BoundSteps
  <1>16. HandleInv' /\ StoppedInv' /\ StartsFenced
    BY <1>1, <1>2, <1>9, <1>10, <1>14 DEF HandleInv, StoppedInv, StartsFenced, Head1
  <1>17. NoChildIsLeaked'
    BY <1>1, <1>10, <1>11 DEF IInv, NoChildIsLeaked
  <1>18. EndedIsOver'
    BY <1>1, <1>2, <1>8, <1>9, <1>10 DEF EndedIsOver, CurrentHandle, None
  <1> QED BY <1>12, <1>13, <1>14, <1>15, <1>16, <1>17, <1>18 DEF IInv, TypeInv

\* The Runtime that is launched is the next one.
LEMMA LaunchFacts ==
  ASSUME IInv, NEW r \in ReadySet, ready' = Append(ready, r)
  PROVE  /\ ready' \in Seq(ReadySet) /\ Len(ready') = Len(ready) + 1
         /\ Runtimes' = Runtimes \cup {Len(ready) + 1} /\ Len(ready) \in Nat
         /\ Len(ready) + 1 \in Nat /\ Len(ready) + 1 # None
  BY Types DEF Runtimes, None

\* A session that is launched finds no Runtime, no Run and no fence.
LEMMA LaunchIsAlone ==
  ASSUME IInv, lane # <<>>, Head1.pc = "launching"
  PROVE  /\ sup.runtime = None /\ ~sup.pendingAbort /\ ~stopped /\ ~sup.admitted
         /\ sup.attention = None /\ (sup.startingHandle # None => Head1.kind = "start")
         /\ \A g \in Runtimes : g \in disposed
  <1>1. /\ sup.runtime = None /\ ~sup.pendingAbort /\ ~stopped
    BY DEF IInv, LaneInv, HeadHolds
  <1>2. /\ ~sup.admitted /\ sup.attention = None
        /\ sup.startingHandle # None => Head1.kind = "start"
    BY <1>1 DEF IInv, HandleInv, EndedIsOver
  <1>3. \A g \in Runtimes : g # None
    BY DEF Runtimes, None
  <1> QED BY <1>1, <1>2, <1>3 DEF IInv, NoChildIsLeaked

LEMMA KeptBySessionStarts ==
  ASSUME IInv, SessionStarts
  PROVE  IInv' /\ StartsFenced
  <1>1. /\ lane # <<>> /\ Head1.kind = "start" /\ Head1.pc = "launching"
        /\ ready' = Append(ready, "pending")
        /\ lane' = [lane EXCEPT ![1].pc = "initializing", ![1].gen = Len(ready) + 1]
        /\ UNCHANGED <<detached, finalizing, disposed, busy, ended, wanted, stopped>>
    BY DEF SessionStarts, AtHead
  <1>2. /\ ready' \in Seq(ReadySet) /\ Len(ready') = Len(ready) + 1 /\ Len(ready) \in Nat
        /\ Runtimes' = Runtimes \cup {Len(ready) + 1}
        /\ Len(ready) + 1 \in Nat /\ Len(ready) + 1 # None
    <2>1. "pending" \in ReadySet
      BY DEF ReadySet
    <2> QED BY <1>1, <2>1, LaunchFacts
  <1>3. /\ sup.runtime = None /\ ~sup.pendingAbort /\ ~stopped /\ ~sup.admitted
        /\ sup.attention = None /\ \A g \in Runtimes : g \in disposed
    BY <1>1, LaunchIsAlone
  <1>4. PICK s : s = BindRuntime(sup, Len(ready) + 1)
    OBVIOUS
  <1>5. /\ s \in SupSet /\ s.prepared = sup.prepared /\ s.attention = sup.attention
        /\ s.runtime = Len(ready) + 1 /\ s.startingHandle = sup.startingHandle
        /\ s.seq = sup.seq /\ s.closed = sup.closed
    BY <1>2, <1>4, BindFacts, Types
  <1>6. sup' = MarkPreparedRunAdmitted(s)
    BY <1>4 DEF SessionStarts
  <1>7. /\ sup' \in SupSet /\ sup'.prepared = sup.prepared /\ sup'.attention = sup.attention
        /\ sup'.runtime = Len(ready) + 1 /\ sup'.admitted /\ sup'.startingHandle = None
        /\ IF sup.startingHandle # None
             THEN sup'.handle = sup.startingHandle /\ sup'.seq = sup.seq
             ELSE sup'.handle = sup.seq + 1 /\ sup'.seq = sup.seq + 1
        /\ sup'.closed = sup.closed
    BY <1>5, <1>6, AdmitFacts
  <1>8. /\ sup.seq \in Nat /\ ended \subseteq 1 .. sup.seq
        /\ sup.startingHandle \in None .. sup.seq /\ sup.prepared \in None .. Len(ready)
    BY DEF IInv, TypeInv, SupTypes, SupSet
  <1>9. SupTypes'
    <2>1. /\ sup'.runtime \in None .. Len(ready') /\ sup'.prepared \in None .. Len(ready')
      BY <1>2, <1>7, <1>8 DEF None
    <2>2. /\ sup'.handle \in None .. sup'.seq /\ sup'.startingHandle \in None .. sup'.seq
          /\ ended' \subseteq 1 .. sup'.seq
      BY <1>1, <1>7, <1>8 DEF None
    <2> QED BY <1>7, <2>1, <2>2 DEF SupTypes
  <1>10. RestTypes'
    BY <1>1, <1>2, Types DEF RestTypes
  <1>11. /\ LaneTypes' /\ lane' # <<>> /\ lane'[1].pc = "initializing"
         /\ lane'[1].kind = "start"
         /\ \A i \in DOMAIN lane' : i # 1 => Waits(lane'[i])
         /\ \A i \in DOMAIN lane' : lane'[i].kind = "shutdown" => sup'.closed
    <2>1. "initializing" \in Pcs
      BY DEF Pcs
    <2> QED BY <1>1, <1>2, <1>7, <2>1, GoKeeps DEF Head1
  <1>12. LaneInv'
    BY <1>2, <1>7, <1>11 DEF LaneInv, HeadHolds, Head1, Starts
  <1>13. HandleInv' /\ StoppedInv' /\ StartsFenced
    BY <1>1, <1>2, <1>3, <1>7, <1>8 DEF HandleInv, StoppedInv, StartsFenced, None
  <1>14. NoChildIsLeaked'
    BY <1>1, <1>2, <1>3, <1>7 DEF NoChildIsLeaked
  <1>15. EndedIsOver'
    <2>1. sup.startingHandle \notin ended
      BY <1>3 DEF IInv, EndedIsOver, CurrentHandle
    <2>2. sup'.handle \notin ended
      BY <1>7, <1>8, <2>1
    <2> QED BY <1>1, <1>3, <1>7, <2>2 DEF EndedIsOver, CurrentHandle
  <1> QED BY <1>9, <1>10, <1>11, <1>12, <1>13, <1>14, <1>15 DEF IInv, TypeInv

LEMMA KeptBySessionPrepared ==
  ASSUME IInv, SessionPrepared
  PROVE  IInv' /\ StartsFenced
  <1>1. /\ lane # <<>> /\ Head1.kind = "prepare" /\ Head1.pc = "launching"
        /\ UNCHANGED <<finalizing, disposed, busy, ended, wanted, stopped>>
    BY DEF SessionPrepared, AtHead
  <1>2. /\ sup.runtime = None /\ ~sup.pendingAbort /\ ~stopped /\ ~sup.admitted
        /\ sup.attention = None /\ sup.startingHandle = None
        /\ \A g \in Runtimes : g \in disposed
    BY <1>1, LaunchIsAlone
  <1>3. PICK g : g = Len(ready) + 1
    OBVIOUS
  <1>4. PICK s : s = BindRuntime(sup, g)
    OBVIOUS
  <1>5. \/ /\ ready' = Append(ready, "pending") /\ sup' = [s EXCEPT !.prepared = g]
           /\ detached' = detached \cup {g} /\ lane' = Tail(lane)
        \/ /\ ready' = Append(ready, "cancelled") /\ sup' = [s EXCEPT !.cancelRequested = TRUE]
           /\ detached' = detached /\ lane' = [lane EXCEPT ![1].pc = "unready", ![1].gen = g]
    BY <1>3, <1>4 DEF SessionPrepared, Returns
  <1>6. /\ ready' \in Seq(ReadySet) /\ Len(ready') = Len(ready) + 1 /\ Len(ready) \in Nat
        /\ Runtimes' = Runtimes \cup {g} /\ g \in Nat /\ g # None
    <2>1. "pending" \in ReadySet /\ "cancelled" \in ReadySet
      BY DEF ReadySet
    <2> QED BY <1>3, <1>5, <2>1, LaunchFacts
  <1>7. /\ s \in SupSet /\ s.prepared = sup.prepared /\ s.attention = sup.attention
        /\ s.runtime = g /\ s.admitted = FALSE /\ s.handle = None
        /\ s.startingHandle = sup.startingHandle
        /\ s.seq = sup.seq /\ s.closed = sup.closed
    BY <1>4, <1>6, BindFacts, Types
  <1>8. /\ sup' \in SupSet /\ sup'.prepared \in {sup.prepared, g}
        /\ sup'.attention = sup.attention /\ sup'.runtime = g /\ ~sup'.admitted
        /\ sup'.handle = None /\ sup'.startingHandle = None /\ sup'.seq = sup.seq
        /\ sup'.closed = sup.closed
    BY ZenonT(60), <1>2, <1>5, <1>6, <1>7 DEF SupSet
  <1>9. /\ sup.seq \in Nat /\ ended \subseteq 1 .. sup.seq /\ sup.prepared \in None .. Len(ready)
    BY DEF IInv, TypeInv, SupTypes, SupSet
  <1>10. SupTypes'
    BY <1>1, <1>3, <1>6, <1>8, <1>9 DEF SupTypes, None
  <1>11. RestTypes'
    BY <1>1, <1>5, <1>6, Types DEF RestTypes
  <1>12. LaneTypes' /\ LaneInv'
    <2>1. CASE lane' = Tail(lane)
      <3>1. /\ LaneTypes'
            /\ \A i \in DOMAIN lane' : Waits(lane'[i])
            /\ \A i \in DOMAIN lane' : lane'[i].kind = "shutdown" => sup'.closed
            /\ lane' # <<>> => 1 \in DOMAIN lane'
        BY <1>1, <1>6, <1>8, <2>1, PopKeeps
      <3> QED BY <3>1 DEF LaneInv, HeadHolds, Waits, BoundSteps, Head1
    <2>2. CASE lane' = [lane EXCEPT ![1].pc = "unready", ![1].gen = g]
      <3>1. "unready" \in Pcs
        BY DEF Pcs
      <3>2. /\ LaneTypes' /\ lane' # <<>> /\ lane'[1].pc = "unready"
            /\ lane'[1].kind = "prepare"
            /\ \A i \in DOMAIN lane' : i # 1 => Waits(lane'[i])
            /\ \A i \in DOMAIN lane' : lane'[i].kind = "shutdown" => sup'.closed
        BY <1>1, <1>6, <1>8, <2>2, <3>1, GoKeeps DEF Head1
      <3> QED BY <1>6, <1>8, <3>2 DEF LaneInv, HeadHolds, Head1, Starts
    <2> QED BY <1>5, <2>1, <2>2
  <1>13. HandleInv' /\ StoppedInv' /\ StartsFenced
    BY <1>1, <1>2, <1>8 DEF HandleInv, StoppedInv, StartsFenced
  <1>14. NoChildIsLeaked'
    BY <1>1, <1>2, <1>6, <1>8 DEF NoChildIsLeaked
  <1>15. EndedIsOver'
    BY <1>1, <1>2, <1>8, <1>9 DEF EndedIsOver, CurrentHandle, None
  <1> QED BY <1>10, <1>11, <1>12, <1>13, <1>14, <1>15 DEF IInv, TypeInv

-----------------------------------------------------------------------------
LEMMA InitKept == ASSUME Init PROVE IInv
  <1>1. sup \in SupSet
    BY DEF Init, SupSet, None, Reasons, Deferrals
  <1>2. /\ sup.runtime = None /\ ~sup.admitted /\ sup.handle = None /\ sup.prepared = None
        /\ sup.startingHandle = None /\ sup.attention = None /\ sup.seq = 0
        /\ lane = <<>> /\ ready = <<>> /\ ended = {} /\ stopped = FALSE /\ wanted = FALSE
        /\ detached = {} /\ finalizing = {} /\ disposed = {} /\ busy = {}
    BY DEF Init
  <1>3. SupTypes
    BY <1>1, <1>2 DEF SupTypes, None
  <1>4. LaneTypes /\ RestTypes /\ LaneInv
    <2>1. /\ lane \in Seq(OpSet) /\ ready \in Seq(ReadySet)
          /\ DOMAIN lane = {}
      BY <1>2
    <2>2. LaneTypes /\ LaneInv
      BY <1>2, <2>1 DEF LaneTypes, LaneInv
    <2> QED BY <1>2, <2>1, <2>2 DEF RestTypes
  <1>5. HandleInv /\ StoppedInv /\ NoChildIsLeaked /\ EndedIsOver
    BY <1>2 DEF HandleInv, StoppedInv, NoChildIsLeaked, Runtimes, EndedIsOver, CurrentHandle,
                None
  <1> QED BY <1>3, <1>4, <1>5 DEF IInv, TypeInv

LEMMA StutterKept == ASSUME IInv, UNCHANGED vars PROVE IInv' /\ StartsFenced
  <1>1. Calm /\ stopped' = stopped /\ lane' = lane
    BY Types DEF vars, Calm
  <1> QED BY <1>1, CalmStays

LEMMA NextKept == ASSUME IInv, Next PROVE IInv' /\ StartsFenced
  <1>1. CASE BeginHead
    BY <1>1, KeptByEnsureReturns, KeptByEnsureAdmits, KeptByEnsureLaunches, KeptByRetained,
       KeptByReleaseBegins, KeptByDiscardsNothing, KeptByDiscardBegins DEF BeginHead
  <1>2. CASE ContinueHead
    BY <1>2, KeptBySessionStarts, KeptBySessionPrepared, KeptByInitializerSettles,
       KeptByRunStarted, KeptByStartReady, KeptByStartUnready, KeptByClassifyFailedStart,
       KeptByDiscardFailedStart, KeptByReleaseEnds, KeptByDiscardEnds DEF ContinueHead
  <1>3. CASE SessionFails \/ StartHandlerThrows
    BY <1>3, KeptBySessionFails, KeptByStartHandlerThrows
  <1>4. CASE \E g \in finalizing : Finally(g)
    BY <1>4, KeptByFinally
  <1>5. CASE \E g \in Ripe : PreparationReady(g) \/ PreparationFails(g)
    BY <1>5, KeptByPreparationReady, KeptByPreparationFails DEF Ripe
  <1>6. CASE \E g \in Runtimes : ReadinessSettles(g) \/ ChildDies(g)
    BY <1>6, KeptByReadinessSettles, KeptByChildDies
  <1>7. CASE \E kind \in Kinds : Ask(kind)
    BY <1>7, KeptByAsk
  <1>8. CASE AskAbort \/ BeginShutdown
    BY <1>8, KeptByAskAbort, KeptByBeginShutdown
  <1>9. CASE \E on \in BOOLEAN : Select(on) \/ Attend(on)
    BY <1>9, KeptBySelect, KeptByAttend
  <1>10. CASE \E what \in {"input", "compaction"} : GetsBusy(what)
    BY <1>10, KeptByGetsBusy
  <1>11. CASE InputSettles \/ ActivitySettles \/ GraceEnds
    BY <1>11, KeptByInputSettles, KeptByActivitySettles, KeptByGraceEnds
  <1> QED BY <1>1, <1>2, <1>3, <1>4, <1>5, <1>6, <1>7, <1>8, <1>9, <1>10, <1>11 DEF Next

-----------------------------------------------------------------------------
\* The invariant holds, whatever startups, preparations, aborts, releases, failures and
\* the shutdown of AgentRuntimeSupervisor do to one another.
THEOREM InvariantHolds == Spec => []IInv
  <1>1. IInv /\ [Next]_vars => IInv'
    BY NextKept, StutterKept
  <1> QED BY <1>1, InitKept, PTL DEF Spec

\* The fields of AgentRuntimeSupervisor, its lane and its Runtimes keep their types.
THEOREM TypeCorrect == Spec => []TypeOK
  <1>1. IInv => TypeOK
    <2> SUFFICES ASSUME IInv PROVE TypeOK
      OBVIOUS
    <2>1. /\ sup \in SupSet /\ sup.runtime \in None .. Len(ready)
          /\ sup.prepared \in None .. Len(ready)
          /\ {sup.handle, sup.startingHandle} \subseteq None .. sup.seq
          /\ ended \subseteq 1 .. sup.seq
      BY DEF IInv, TypeInv, SupTypes
    <2>2. {sup.handle, sup.startingHandle, sup.attention} \subseteq None .. sup.seq
      BY <2>1 DEF IInv, EndedIsOver, None, SupSet
    <2>3. /\ sup.runtime \in {None} \cup Runtimes /\ sup.prepared \in {None} \cup Runtimes
      BY <2>1 DEF None, Runtimes
    <2>4. /\ {sup.admitted, sup.failed, sup.starting, sup.passive, sup.cancelRequested,
              sup.closed, sup.ending, sup.pendingAbort} \subseteq BOOLEAN
          /\ sup.reasons \subseteq {"interactive_selection", "pending_delivery"}
          /\ sup.deferred \subseteq {"input", "activity", "timer"}
      BY <2>1 DEF SupSet, Reasons, Deferrals
    <2>5. \A i \in 1 .. Len(lane) : lane[i].kind \in Kinds \cup {"classify"}
      <3>1. \A i \in 1 .. Len(lane) : lane[i] \in OpSet
        BY Types
      <3> QED BY <3>1 DEF OpSet
    <2>6. /\ detached \subseteq Runtimes /\ finalizing \subseteq Runtimes
          /\ disposed \subseteq Runtimes /\ ready \in Seq(ReadySet)
          /\ busy \subseteq {"input", "compaction"} /\ {wanted, stopped} \subseteq BOOLEAN
      BY Types
    <2> QED BY <2>1, <2>2, <2>3, <2>4, <2>5, <2>6 DEF TypeOK, ReadySet
  <1> QED BY <1>1, InvariantHolds, PTL

\* Whatever overtakes what, every child launched is bound or disposed, a Run that was
\* reported ended is never current again and nobody waits on its behalf, and an Agent
\* that shutdown has ended stays ended.
THEOREM NothingOutlives == Spec => []NothingOutlivesItsEnd
  <1>1. IInv => NothingOutlivesItsEnd
    BY DEF IInv, NothingOutlivesItsEnd, StoppedStaysStopped, StoppedInv, HandleInv,
           CurrentHandle
  <1> QED BY <1>1, InvariantHolds, PTL

\* No Run gets a handle between the abort of a startup and its receipt.
THEOREM AbortsFenceStarts == Spec => AbortFencesStarts
  <1>1. IInv /\ [Next]_vars => [sup.pendingAbort /\ sup'.pendingAbort => sup'.seq = sup.seq]_vars
    BY NextKept DEF StartsFenced
  <1> QED BY <1>1, InvariantHolds, PTL DEF Spec, AbortFencesStarts
=============================================================================
