------------------------------ MODULE ControlChannel ------------------------------
(***************************************************************************)
(* The two ends of one Agent Control channel (control/agent-control-       *)
(* channel.ts): requests, responses, cancellations and events of either    *)
(* side over one ordered byte stream.  Every protocol surprise closes the  *)
(* whole channel, and with it the Agent Run, so what matters is that two   *)
(* honest ends never surprise each other however their frames race.        *)
(*                                                                         *)
(* A frame is appended to wire[s] when s admits it to its writer lane; the *)
(* peer's reader lane takes it from there, one at a time, and stands still *)
(* while an event handler runs.  Framing, schemas and the identity every   *)
(* frame repeats are left out.                                             *)
(***************************************************************************)
EXTENDS Integers, Sequences, FiniteSets

CONSTANTS MaxRequests,  \* requests of each side
          MaxEvents,    \* events of each side
          MaxIncidents  \* aborts, closures and transport failures

Sides   == {"owner", "child"}
Peer(s) == IF s = "owner" THEN "child" ELSE "owner"
Ids     == 1 .. MaxRequests

VARIABLES
  side,    \* side[s]: the channel object of s, a record
  wire,    \* wire[s]: the frames s admitted that its peer has not handled
  running, \* running[s]: requests whose handler executes at s
  settled, \* settled[s][i]: how often the promise of request i settled
  down,    \* the transport is closed or failed
  excused, \* some side closed, the transport failed or an event handler threw
  overtook,\* a response was handled before an event sent earlier
  spent

vars == <<side, wire, running, settled, down, excused, overtook, spent>>

Greater(i, j) == IF i > j THEN i ELSE j

Spend == spent < MaxIncidents /\ spent' = spent + 1

Sends(s, frame) == wire' = [wire EXCEPT ![s] = Append(@, frame)]

\* A request leaves #pending and becomes terminal.
Settles(S, i) == [S EXCEPT !.pending = @ \ {i}, !.outHigh = Greater(@, i)]

\* Mutant of Terminates: only the newest terminal request is remembered.
TerminatesNewest(S, i) == [S EXCEPT !.incoming = @ \ {i}, !.inHigh = i]
\* An incoming request is over; canonical ids at most the high water are terminal.
Terminates(S, i) == [S EXCEPT !.incoming = @ \ {i}, !.inHigh = Greater(@, i)]

Count(s, set) == settled' = [settled EXCEPT ![s] =
  [i \in Ids |-> IF i \in set THEN @[i] + 1 ELSE @[i]]]

\* #finishClose: every open request is rejected, every handler aborted.
Closed(s) ==
  /\ side' = [side EXCEPT ![s].open = FALSE, ![s].pending = {}, ![s].incoming = {}]
  /\ Count(s, side[s].pending)

\* #failClose of a protocol violation.
Violated(s) == Closed(s) /\ down' = TRUE
-----------------------------------------------------------------------------
(* What a side does on its own. *)

\* request(): the identity is taken and the frame admitted in one step, so that
\* frames travel in the order of their identities.
Request(s) ==
  /\ side[s].open /\ side[s].next < MaxRequests
  /\ LET i == side[s].next + 1 IN
     /\ side' = [side EXCEPT ![s].next = i, ![s].pending = @ \cup {i}]
     /\ Sends(s, [type |-> "request", id |-> i])
  /\ UNCHANGED <<running, settled, down, excused, overtook, spent>>

\* A request too large to frame is rejected and leaves no terminal identity.
RequestTooLarge(s) ==
  /\ Spend
  /\ side[s].open /\ side[s].next < MaxRequests
  /\ side' = [side EXCEPT ![s].next = @ + 1]
  /\ Count(s, {side[s].next + 1})
  /\ UNCHANGED <<wire, running, down, excused, overtook>>

\* The caller's signal aborts: the promise settles at once, the peer is told.
Abort(s, i) ==
  /\ Spend
  /\ i \in side[s].pending
  /\ side' = [side EXCEPT ![s] = Settles(@, i)]
  /\ Count(s, {i})
  /\ Sends(s, [type |-> "cancel", id |-> i])
  /\ UNCHANGED <<running, down, excused, overtook>>

SendEvent(s) ==
  /\ side[s].open /\ side[s].nextEvent < MaxEvents
  /\ side' = [side EXCEPT ![s].nextEvent = @ + 1]
  /\ Sends(s, [type |-> "event", id |-> side[s].nextEvent + 1])
  /\ UNCHANGED <<running, settled, down, excused, overtook, spent>>

\* The handler of an incoming request returns or throws; one that was cancelled
\* answers nothing.
Complete(s, i) ==
  /\ i \in running[s]
  /\ running' = [running EXCEPT ![s] = @ \ {i}]
  /\ IF i \in side[s].incoming
     THEN /\ side' = [side EXCEPT ![s] = Terminates(@, i)]
          /\ Sends(s, [type |-> "response", id |-> i, after |-> side[s].nextEvent])
     ELSE UNCHANGED <<side, wire>>
  /\ UNCHANGED <<settled, down, excused, overtook, spent>>
-----------------------------------------------------------------------------
(* The reader lane. *)

Known(S, i) == i \in S.incoming \/ i <= S.inHigh

\* A request starts its handler, or is refused when nobody serves it.
HandleRequest(s, i) ==
  IF Known(side[s], i)
  THEN Violated(s) /\ wire' = [wire EXCEPT ![Peer(s)] = Tail(@)] /\ UNCHANGED running
  ELSE \/ /\ side' = [side EXCEPT ![s].incoming = @ \cup {i}]
          /\ running' = [running EXCEPT ![s] = @ \cup {i}]
          /\ wire' = [wire EXCEPT ![Peer(s)] = Tail(@)]
          /\ UNCHANGED <<settled, down>>
       \/ /\ side' = [side EXCEPT ![s] = Terminates(@, i)]
          /\ wire' = [wire EXCEPT ![Peer(s)] = Tail(@),
               ![s] = Append(@, [type |-> "response", id |-> i,
                                 after |-> side[s].nextEvent])]
          /\ UNCHANGED <<running, settled, down>>

HandleResponse(s, i) ==
  /\ wire' = [wire EXCEPT ![Peer(s)] = Tail(@)]
  /\ UNCHANGED running
  /\ IF i \in side[s].pending
     THEN /\ side' = [side EXCEPT ![s] = Settles(@, i)]
          /\ Count(s, {i})
          /\ UNCHANGED down
     ELSE IF i <= side[s].outHigh THEN UNCHANGED <<side, settled, down>>
     ELSE Violated(s)

\* A cancellation aborts an open request and passes over a finished one.
HandleCancel(s, i) ==
  /\ wire' = [wire EXCEPT ![Peer(s)] = Tail(@)]
  /\ UNCHANGED running
  /\ IF i \in side[s].incoming
     THEN side' = [side EXCEPT ![s] = Terminates(@, i)] /\ UNCHANGED <<settled, down>>
     ELSE IF i <= side[s].inHigh THEN UNCHANGED <<side, settled, down>>
     ELSE Violated(s)

HandleEvent(s, n) ==
  /\ wire' = [wire EXCEPT ![Peer(s)] = Tail(@)]
  /\ UNCHANGED <<running>>
  /\ IF n # side[s].expected THEN Violated(s)
     ELSE /\ side' = [side EXCEPT ![s].expected = @ + 1, ![s].handling = TRUE]
          /\ UNCHANGED <<settled, down>>

MayRead(s) == side[s].open /\ ~side[s].handling /\ wire[Peer(s)] # <<>>

Receive(s) ==
  /\ MayRead(s)
  /\ LET frame == Head(wire[Peer(s)]) IN
     /\ \/ frame.type = "request"  /\ HandleRequest(s, frame.id)
        \/ frame.type = "response" /\ HandleResponse(s, frame.id)
        \/ frame.type = "cancel"   /\ HandleCancel(s, frame.id)
        \/ frame.type = "event"    /\ HandleEvent(s, frame.id)
     /\ overtook' = (overtook \/ (frame.type = "response"
                       /\ (side[s].handling \/ side[s].expected <= frame.after)))
  /\ UNCHANGED <<excused, spent>>

\* The event handler returns and the reader goes on, or it throws.
EventHandled(s) ==
  /\ side[s].handling
  /\ side' = [side EXCEPT ![s].handling = FALSE]
  /\ UNCHANGED <<wire, running, settled, down, excused, overtook, spent>>

EventHandlerThrows(s) ==
  /\ Spend
  /\ side[s].handling /\ side[s].open
  /\ Violated(s)
  /\ excused' = TRUE
  /\ UNCHANGED <<wire, running, overtook>>
-----------------------------------------------------------------------------
(* Closing. *)

\* close(), or #failClose when a response is too large to frame: its Complete comes after.
Close(s) ==
  /\ Spend
  /\ side[s].open
  /\ Closed(s)
  /\ down' = TRUE /\ excused' = TRUE
  /\ UNCHANGED <<wire, running, overtook>>

TransportFails ==
  /\ Spend
  /\ ~down
  /\ down' = TRUE /\ excused' = TRUE
  /\ UNCHANGED <<side, wire, running, settled, overtook>>

\* The transport's closure, or a failed write, reaches an open side; whatever its
\* reader had not handled is dropped.
CloseObserved(s) ==
  /\ down /\ side[s].open
  /\ Closed(s)
  /\ UNCHANGED <<wire, running, down, excused, overtook, spent>>
-----------------------------------------------------------------------------
Init ==
  /\ side = [s \in Sides |-> [open |-> TRUE, next |-> 0, pending |-> {}, outHigh |-> 0,
                              incoming |-> {}, inHigh |-> 0, nextEvent |-> 0,
                              expected |-> 1, handling |-> FALSE]]
  /\ wire = [s \in Sides |-> <<>>]
  /\ running = [s \in Sides |-> {}]
  /\ settled = [s \in Sides |-> [i \in Ids |-> 0]]
  /\ down = FALSE /\ excused = FALSE /\ overtook = FALSE /\ spent = 0

Next ==
  \E s \in Sides :
    \/ Request(s) \/ RequestTooLarge(s) \/ SendEvent(s) \/ Receive(s)
    \/ EventHandled(s) \/ EventHandlerThrows(s) \/ Close(s) \/ CloseObserved(s)
    \/ TransportFails
    \/ \E i \in Ids : Abort(s, i) \/ Complete(s, i)

Spec == Init /\ [][Next]_vars
-----------------------------------------------------------------------------
TypeOK ==
  /\ \A s \in Sides :
       /\ side[s].next \in 0 .. MaxRequests /\ side[s].pending \subseteq 1 .. side[s].next
       /\ side[s].outHigh \in 0 .. side[s].next /\ side[s].inHigh \in 0 .. MaxRequests
       /\ side[s].incoming \subseteq running[s] /\ running[s] \subseteq Ids
       /\ side[s].nextEvent \in 0 .. MaxEvents /\ side[s].expected \in 1 .. MaxEvents + 1
  /\ settled \in [Sides -> [Ids -> 0 .. 2]]

\* Two honest ends never take each other's frames for a protocol violation: a
\* cancellation that crosses its response, a response that arrives after its
\* request was aborted and handlers that finish out of order close nothing.
NoSpuriousClose == ~excused => ~down /\ \A s \in Sides : side[s].open

\* The promise of every request settles once, whoever of the response, the abort
\* and the closure of the channel comes first.
EachSettlesOnce ==
  \A s \in Sides, i \in Ids :
    settled[s][i] = IF i <= side[s].next /\ i \notin side[s].pending THEN 1 ELSE 0

\* An open request of a live channel is on its way, being handled, or its response
\* is on its way back: nothing a peer does can leave its caller waiting forever.
InWire(s, type, i) == \E k \in 1 .. Len(wire[s]) : wire[s][k].type = type /\ wire[s][k].id = i
RequestIsSomewhere ==
  ~down => \A s \in Sides : \A i \in side[s].pending :
    \/ InWire(s, "request", i)
    \/ i \in side[Peer(s)].incoming
    \/ InWire(Peer(s), "response", i)

\* A response is never handled before an event its sender sent earlier has been
\* handled to the end: what an event reports is in force when the response arrives.
ResponsesFollowEvents == ~overtook

\* The channel settles every request once, in the order of what its sender reported, and
\* closes only over an incident: cancelled and answered requests may cross.
ChannelIsSound ==
  NoSpuriousClose /\ RequestIsSomewhere /\ EachSettlesOnce /\ ResponsesFollowEvents

=============================================================================
