----------------------------- MODULE ControlAdmission -----------------------------
(***************************************************************************)
(* How a child process's connection becomes the control channel of its     *)
(* Agent: the listener that accepts and queues sockets (control/node-ipc-  *)
(* control-transport.ts), the broker that matches a connection's first     *)
(* frame to a pending one-time token, and the transport that keeps every   *)
(* byte after that frame until the channel is configured (control/agent-   *)
(* control-admission.ts).                                                  *)
(*                                                                         *)
(* A peer writes a Hello and then frames, in chunks that join and split    *)
(* them anyhow; a chunk is a sequence of items, the Hello being the two    *)
(* items Half and Rest.                                                    *)
(***************************************************************************)
EXTENDS Integers, Sequences, FiniteSets

CONSTANTS Conns, Tokens,
          Strange,   \* a token no admission ever expects
          MaxFrames  \* frames a peer sends after its Hello

VARIABLES
  peer,      \* peer[c]: what the connecting process has done
  conn,      \* conn[c]: the connection as the listener and the broker hold it
  queued,    \* NodeIpcControlListenerAdapter.#queued
  accepting, \* the broker waits in accept()
  tok,       \* tok[t]: the admission that expects t
  closing,   \* the connections the listener's shutdown waits for
  listener, broker \* "open", "closing" or "closed"

vars == <<peer, conn, queued, accepting, tok, closing, listener, broker>>

Half == -1
Rest == 0

Waiting  == [state |-> "pending", chan |-> {}]
Frames(c) == [i \in 1 .. peer[c].sent |-> i]

Open(c) == conn[c].state \in {"queued", "inspecting", "admitted"}
-----------------------------------------------------------------------------
(* The peer. *)

\* A process connects and announces the token it was launched with, or another.
Connect(c, t, honest) ==
  /\ peer[c].state = "none" /\ listener # "closed"
  /\ peer' = [peer EXCEPT ![c] = [state |-> "connected", token |-> t, honest |-> honest,
                                  written |-> "none", sent |-> 0]]
  /\ IF listener = "closing"
     THEN conn' = [conn EXCEPT ![c].state = "closed"] /\ UNCHANGED <<queued, accepting>>
     ELSE IF accepting
     THEN /\ conn' = [conn EXCEPT ![c].state = "inspecting"]
          /\ accepting' = FALSE
          /\ UNCHANGED queued
     ELSE /\ conn' = [conn EXCEPT ![c].state = "queued"]
          /\ queued' = Append(queued, c)
          /\ UNCHANGED accepting
  /\ UNCHANGED <<tok, closing, listener, broker>>

\* A chunk arrives: an active channel reads it, everything else is kept, by the
\* socket adapter until it is inspected and by the candidate afterwards.
Arrives(c, items) ==
  [conn EXCEPT ![c].inbox = IF conn[c].active THEN @ ELSE @ \o items,
               ![c].read  = IF conn[c].active THEN @ \o items ELSE @]

\* The first bytes: half of the Hello, or all of it and perhaps a frame.
WriteHello(c, whole, more) ==
  /\ peer[c].state = "connected" /\ peer[c].written = "none" /\ Open(c)
  /\ more => whole /\ MaxFrames > 0
  /\ peer' = [peer EXCEPT ![c].written = IF whole THEN "whole" ELSE "half",
                          ![c].sent = IF more THEN 1 ELSE 0]
  /\ conn' = Arrives(c, IF ~whole THEN <<Half>>
                        ELSE IF more THEN <<Half, Rest, 1>> ELSE <<Half, Rest>>)
  /\ UNCHANGED <<queued, accepting, tok, closing, listener, broker>>

\* The rest of a split Hello, and perhaps a frame in the same chunk.
WriteRest(c, more) ==
  /\ peer[c].state = "connected" /\ peer[c].written = "half" /\ Open(c)
  /\ peer' = [peer EXCEPT ![c].written = "whole", ![c].sent = IF more THEN 1 ELSE 0]
  /\ conn' = Arrives(c, IF more THEN <<Rest, 1>> ELSE <<Rest>>)
  /\ UNCHANGED <<queued, accepting, tok, closing, listener, broker>>

WriteFrame(c) ==
  /\ peer[c].state = "connected" /\ peer[c].written = "whole" /\ Open(c)
  /\ peer[c].sent < MaxFrames
  /\ peer' = [peer EXCEPT ![c].sent = @ + 1]
  /\ conn' = Arrives(c, <<peer[c].sent + 1>>)
  /\ UNCHANGED <<queued, accepting, tok, closing, listener, broker>>

\* The socket closes: a queued connection leaves the queue, a candidate whose Hello
\* is not complete fails, an admitted channel is told.
SocketCloses(c) ==
  /\ Open(c)
  /\ peer' = [peer EXCEPT ![c].state = "gone"]
  /\ conn' = [conn EXCEPT ![c].state = "closed", ![c].inbox = <<>>]
  /\ IF \E k \in 1 .. Len(queued) : queued[k] = c
     THEN \E k \in 1 .. Len(queued) :
            queued[k] = c /\ queued' = SubSeq(queued, 1, k - 1) \o SubSeq(queued, k + 1, Len(queued))
     ELSE UNCHANGED queued
  /\ UNCHANGED <<accepting, tok, closing, listener, broker>>
-----------------------------------------------------------------------------
(* The broker. *)

\* #acceptConnections: the next connection, queued or yet to come.
Accept ==
  /\ broker = "open" /\ ~accepting /\ listener = "open"
  /\ IF queued # <<>>
     THEN /\ conn' = [conn EXCEPT ![Head(queued)].state = "inspecting"]
          /\ queued' = Tail(queued)
          /\ UNCHANGED accepting
     ELSE accepting' = TRUE /\ UNCHANGED <<conn, queued>>
  /\ UNCHANGED <<peer, tok, closing, listener, broker>>

\* AdmissionControlTransport.#receive: the first line is complete.
HelloComplete(c) ==
  /\ conn[c].state = "inspecting"
  /\ Len(conn[c].inbox) >= 2 /\ conn[c].inbox[2] = Rest

Refused(c) == conn' = [conn EXCEPT ![c].state = "closed", ![c].inbox = <<>>]

\* A token is consumed by the first Hello that names it.
Consumes(t, result) ==
  tok' = [tok EXCEPT ![t] = [state |-> IF result = {} THEN "rejected" ELSE "resolved",
                             chan |-> result]]

\* Mutant of AfterHello: what came with the Hello is dropped.
NothingAfterHello(c) == <<>>
AfterHello(c) == SubSeq(conn[c].inbox, 3, Len(conn[c].inbox))

\* #inspect: an unknown token closes the connection; a known one is consumed, and
\* its admission is rejected when the rest of the Hello does not match or the
\* channel cannot be configured. Otherwise the bytes kept so far reach the channel
\* before any later byte.
Inspect(c) ==
  /\ HelloComplete(c)
  /\ LET t == peer[c].token IN
     IF t \notin Tokens \/ tok[t].state # "pending"
     THEN Refused(c) /\ UNCHANGED tok
     ELSE IF ~peer[c].honest
     THEN Refused(c) /\ Consumes(t, {})
     ELSE \/ /\ conn' = [conn EXCEPT ![c].state = "admitted", ![c].active = TRUE,
                           ![c].read = AfterHello(c),
                           ![c].inbox = <<>>]
             /\ Consumes(t, {c})
          \/ Refused(c) /\ Consumes(t, {})
  /\ UNCHANGED <<peer, queued, accepting, closing, listener, broker>>

\* The first line is no Hello.
HelloMalformed(c) ==
  /\ conn[c].state = "inspecting" /\ conn[c].inbox # <<>> /\ ~peer[c].honest
  /\ Refused(c)
  /\ UNCHANGED <<peer, queued, accepting, tok, closing, listener, broker>>

\* admit(): a start expects its child.
Admit(t) ==
  /\ tok[t].state = "none"
  /\ tok' = [tok EXCEPT ![t] = IF broker = "open" THEN Waiting
                               ELSE [state |-> "rejected", chan |-> {}]]
  /\ UNCHANGED <<peer, conn, queued, accepting, closing, listener, broker>>

\* The start is cancelled while it waits.
AbortAdmission(t) ==
  /\ tok[t].state = "pending"
  /\ tok' = [tok EXCEPT ![t] = [state |-> "aborted", chan |-> {}]]
  /\ UNCHANGED <<peer, conn, queued, accepting, closing, listener, broker>>

RejectsPending ==
  tok' = [t \in Tokens |-> IF tok[t].state = "pending"
                           THEN [state |-> "rejected", chan |-> {}] ELSE tok[t]]

\* #shutdown: the listener owns every socket it accepted, queued or not.
ShutsDown == listener' = "closing" /\ closing' = {c \in Conns : Open(c)}

\* close(): pending admissions are rejected and the listener is shut down, which
\* rejects accept() and closes every connection it accepted or queued.
BrokerCloses ==
  /\ broker \in {"open", "failed"}
  /\ broker' = IF listener = "closed" THEN "closed" ELSE "closing"
  /\ IF listener = "open" THEN ShutsDown ELSE UNCHANGED <<listener, closing>>
  /\ RejectsPending
  /\ queued' = <<>> /\ accepting' = FALSE
  /\ UNCHANGED <<peer, conn>>

ClosesConnection(c) ==
  /\ c \in closing /\ Open(c)
  /\ conn' = [conn EXCEPT ![c].state = "closed", ![c].inbox = <<>>]
  /\ peer' = [peer EXCEPT ![c].state = "gone"]
  /\ UNCHANGED <<queued, accepting, tok, closing, listener, broker>>

\* The server socket fails: the listener shuts down and the broker's accept throws.
ListenerFails ==
  /\ listener = "open" /\ broker = "open"
  /\ ShutsDown /\ queued' = <<>>
  /\ IF accepting
     THEN broker' = "failed" /\ accepting' = FALSE /\ RejectsPending
     ELSE UNCHANGED <<broker, accepting, tok>>
  /\ UNCHANGED <<peer, conn>>

\* accept() on a closed listener throws.
AcceptThrows ==
  /\ broker = "open" /\ ~accepting /\ listener # "open"
  /\ broker' = "failed" /\ RejectsPending
  /\ UNCHANGED <<peer, conn, queued, accepting, closing, listener>>

\* The listener's shutdown, and the broker's, are complete.
CloseCompletes ==
  /\ listener = "closing"
  /\ \A c \in closing : ~Open(c)
  /\ listener' = "closed"
  /\ broker' = IF broker = "closing" THEN "closed" ELSE broker
  /\ UNCHANGED <<peer, conn, queued, accepting, tok, closing>>
-----------------------------------------------------------------------------
Init ==
  /\ peer = [c \in Conns |-> [state |-> "none", token |-> Strange, honest |-> FALSE,
                              written |-> "none", sent |-> 0]]
  /\ conn = [c \in Conns |-> [state |-> "none", active |-> FALSE, inbox |-> <<>>, read |-> <<>>]]
  /\ queued = <<>> /\ accepting = FALSE
  /\ tok = [t \in Tokens |-> [state |-> "none", chan |-> {}]]
  /\ closing = {} /\ listener = "open" /\ broker = "open"

Next ==
  \/ \E c \in Conns, t \in Tokens \cup {Strange}, h \in BOOLEAN : Connect(c, t, h)
  \/ \E c \in Conns : \/ \E whole, more \in BOOLEAN : WriteHello(c, whole, more)
                      \/ \E more \in BOOLEAN : WriteRest(c, more)
                      \/ WriteFrame(c) \/ SocketCloses(c) \/ Inspect(c)
                      \/ HelloMalformed(c) \/ ClosesConnection(c)
  \/ Accept \/ BrokerCloses \/ ListenerFails \/ AcceptThrows \/ CloseCompletes
  \/ \E t \in Tokens : Admit(t) \/ AbortAdmission(t)

Spec == Init /\ [][Next]_vars
-----------------------------------------------------------------------------
\* A channel belongs to exactly one admission, the one whose token its Hello named,
\* and an admission that was cancelled, rejected or overtaken by the closure of the
\* broker has none: no child process ever speaks for another Agent.
AdmissionIsExact ==
  /\ \A t \in Tokens : /\ Cardinality(tok[t].chan) = (IF tok[t].state = "resolved" THEN 1 ELSE 0)
                       /\ \A c \in tok[t].chan : peer[c].token = t /\ peer[c].honest
  /\ \A c \in Conns : conn[c].active => \E t \in Tokens : tok[t].chan = {c}

\* An open channel has read exactly what its child wrote after the Hello, in order,
\* although the first bytes arrived before anything was there to read them.
NoByteIsLost ==
  \A c \in Conns : conn[c].state = "admitted" => conn[c].read = Frames(c)

\* When the broker's closure is complete no socket is open and no start waits.
ClosedBrokerHoldsNothing ==
  broker = "closed" => /\ \A c \in Conns : ~Open(c)
                       /\ \A t \in Tokens : tok[t].state # "pending"

\* No child speaks for another Agent, nothing that it wrote is lost, and a broker that is
\* closed keeps neither a socket nor a start.
AdmissionIsSound == AdmissionIsExact /\ NoByteIsLost /\ ClosedBrokerHoldsNothing

=============================================================================
