--------------------------- MODULE RequestRelationships ---------------------------
(***************************************************************************)
(* The incremental projection that tells an Agent which Answers it awaits  *)
(* and which it owes (coordination/request-relationships.ts).  Every       *)
(* transcript keeps a journal of the Requests its entries touch            *)
(* (transcript/retained-transcript.ts).  One shared list gathers the       *)
(* journals of the whole roster, and each Agent's graph re-evaluates the   *)
(* Requests listed since it last finished.  Both are generators that       *)
(* asynchronous readers advance in slices, while entries commit, Agents    *)
(* join and transcripts are read again, and that a synchronous reader runs *)
(* to the end.                                                             *)
(*                                                                         *)
(* A Request leaves facts in two transcripts: "opened" and "received" in   *)
(* the requester's, "delivered" and "answered" in the responder's.         *)
(***************************************************************************)
EXTENDS Integers, Sequences, FiniteSetsExt

CONSTANTS Agents, Requests,
          Requester, Responder,  \* functions from Requests to Agents
          Founders,              \* the Agents in the roster at first
          Creations,             \* Requests that create their responder
          Readers,               \* the Agents asynchronous readers ask about
          MaxFacts, MaxResets, MaxReads  \* facts; resets and joins; readers

VARIABLES
  entries,  \* entries[a]: the facts physically in a's transcript, in order
  c,        \* the coordinator's caches, a record (see Init)
  reader,   \* reader[a]: the asynchronous reader for a's projection
  stale,    \* a reader returned a projection that was not current
  spent     \* facts, resets and reads so far

vars == <<entries, c, reader, stale, spent>>

None == [id |-> 0]
NoGenerator == [on |-> FALSE]
-----------------------------------------------------------------------------
(* Transcripts and the evidence in them. *)

Home(q, kind) == IF kind \in {"opened", "received"} THEN Requester[q] ELSE Responder[q]

\* The fact is in the part of the transcript the coordinator has retained.
Seen(C, q, kind) ==
  LET a == Home(q, kind) IN
  \E i \in 1 .. C.retained[a] : entries[a][i] = <<q, kind>>

\* One Agent's stake in one Request (RequestEvidence.stakeIn).
AwaitsAnswer(C, a, q) ==
  Requester[q] = a /\ Seen(C, q, "opened") /\ ~Seen(C, q, "received")
OwesAnswer(C, a, q) ==
  /\ Responder[q] = a /\ Seen(C, q, "delivered")
  /\ ~Seen(C, q, "answered") /\ ~Seen(C, q, "received")

Stakes(C, a) == [awaiting |-> {q \in Requests : AwaitsAnswer(C, a, q)},
                 owed     |-> {q \in Requests : OwesAnswer(C, a, q)}]

Touches(fact) == fact[1]

\* refresh() or a synchronous inspect(): the new entries are indexed and the
\* Requests they touch enter the journal of that transcript.
Drained(C, a) ==
  LET new == SubSeq(entries[a], C.retained[a] + 1, Len(entries[a])) IN
  [C EXCEPT !.retained[a] = Len(entries[a]),
            !.journal[a] = @ \o [i \in 1 .. Len(new) |-> Touches(new[i])]]

AllDrained(C) ==
  [C EXCEPT !.retained = [a \in Agents |-> IF a \in C.roster THEN Len(entries[a]) ELSE @[a]],
            !.journal  = [a \in Agents |-> IF a \in C.roster THEN Drained(C, a).journal[a]
                                           ELSE @[a]]]
-----------------------------------------------------------------------------
(* The shared list of changes. *)

Cursors(C) == [a \in C.roster |-> [epoch |-> C.epoch[a], count |-> Len(C.journal[a])]]

SameSources(x, y) ==
  DOMAIN x = DOMAIN y /\ \A a \in DOMAIN x : x[a].epoch = y[a].epoch

Concat(S, f) == FoldSet(LAMBDA x, acc : f[x] \o acc, <<>>, S)

\* The journal entries between two cursors.
Between(C, from, to) ==
  LET start(a) == IF a \in DOMAIN from THEN from[a].count ELSE 0
  IN Concat(DOMAIN to, [a \in DOMAIN to |-> SubSeq(C.journal[a], start(a) + 1, to[a].count)])

Fresh(C) == [id |-> C.nextId, cursors |-> <<>>, changes |-> <<>>]

\* #startRelationshipSourceUpdate: keeps a batch that still fits the roster,
\* abandons one that does not, and begins one when a journal has grown.
SourceStarted(C) ==
  LET now   == Cursors(C)
      stays == C.batch.on /\ SameSources(C.batch.cursors, now)
      known == IF C.batch.on THEN None ELSE C.sources
      reset == known = None \/ ~SameSources(known.cursors, now)
      base  == IF reset THEN Fresh(C) ELSE known
  IN IF stays \/ (~reset /\ known.cursors = now) THEN C
     ELSE [C EXCEPT !.sources = known,
             !.nextId = IF reset THEN @ + 1 ELSE @,
             !.batch = [on |-> TRUE, cursors |-> now, base |-> base,
                        todo |-> Between(C, base.cursors, now)]]

\* Mutant of SourceDone: the batch claims what was appended while it yielded.
SourceClaimsLater(C) ==
  IF ~C.batch.on THEN C
  ELSE [C EXCEPT !.sources = [C.batch.base EXCEPT !.cursors = Cursors(C),
                                !.changes = @ \o C.batch.todo],
                 !.batch = NoGenerator]
\* The generator runs to its end and publishes its captured cursors.
SourceDone(C) ==
  IF ~C.batch.on THEN C
  ELSE [C EXCEPT !.sources = [C.batch.base EXCEPT !.cursors = C.batch.cursors,
                                !.changes = @ \o C.batch.todo],
                 !.batch = NoGenerator]

\* A slice that ends after n journal entries.
SourceSlice(C, n) ==
  IF ~C.batch.on THEN C
  ELSE LET part == SubSeq(C.batch.todo, 1, n) IN
       [C EXCEPT !.batch.base.changes = @ \o part,
                 !.batch.todo = SubSeq(@, n + 1, Len(@))]
-----------------------------------------------------------------------------
(* The graph of one Agent. *)

NoGraph == [src |-> 0, count |-> 0, initialized |-> FALSE, awaiting |-> {},
            owed |-> {}, result |-> [awaiting |-> {}, owed |-> {}],
            pending |-> NoGenerator]

CreationIds(C, a) == {q \in Creations : Requester[q] = a /\ Responder[q] \in C.roster}

\* #startRelationshipUpdate: another list of changes discards all progress.
GraphStarted(C, a) ==
  LET g0 == C.graph[a]
      g  == IF g0.src = C.sources.id THEN g0
            ELSE [NoGraph EXCEPT !.src = C.sources.id, !.result = g0.result]
      end == Len(C.sources.changes)
      todo == {C.sources.changes[i] : i \in g.count + 1 .. end}
                \cup (IF g.initialized THEN {} ELSE CreationIds(C, a))
  IN [C EXCEPT !.graph[a] =
        IF g.pending.on \/ (g.initialized /\ g.count = end) THEN g
        ELSE [g EXCEPT !.pending = [on |-> TRUE, todo |-> todo, end |-> end]]]

\* Evaluation can bind an Answer call to its Request: the journal of the
\* responder touches the Request once more.
Binds(C, E) == {q \in E : Seen(C, q, "received") /\ q \notin C.bound
                          /\ Responder[q] \in C.roster}

Bound(C, E) ==
  [C EXCEPT !.bound = @ \cup Binds(C, E),
            !.journal = [a \in Agents |->
               @[a] \o Concat({q \in Binds(C, E) : Responder[q] = a},
                              [q \in Requests |-> <<q>>])]]

Evaluated(C, a, E) ==
  [Bound(C, E) EXCEPT
     !.graph[a].awaiting = (@ \ E) \cup {q \in E : AwaitsAnswer(C, a, q)},
     !.graph[a].owed     = (@ \ E) \cup {q \in E : OwesAnswer(C, a, q)},
     !.graph[a].pending.todo = @ \ E]

Finished(C, a) ==
  LET g == C.graph[a] IN
  [C EXCEPT !.graph[a] = [g EXCEPT
     !.result = [awaiting |-> g.awaiting, owed |-> g.owed],
     !.count = g.pending.end, !.initialized = TRUE, !.pending = NoGenerator]]

GraphDone(C, a) ==
  IF ~C.graph[a].pending.on THEN C
  ELSE Finished(Evaluated(C, a, C.graph[a].pending.todo), a)

\* An evaluation threw: the graph is rebuilt from the whole list.
Threw(C, a) == [C EXCEPT !.graph[a].src = 0, !.graph[a].pending = NoGenerator]
-----------------------------------------------------------------------------
(* Synchronous reads. *)

Gathered(C) == SourceDone(SourceStarted(C))

Pass(C, a) == GraphDone(GraphStarted(Gathered(C), a), a)

Settled(C, a) == ~C.batch.on /\ C.sources.cursors = Cursors(C)
                 /\ C.graph[a].src = C.sources.id /\ C.graph[a].initialized
                 /\ C.graph[a].count = Len(C.sources.changes)

Project(C, a) == C.graph[a].result
-----------------------------------------------------------------------------
(* Actions. *)

\* A fact commits in a transcript, in the order Requests live.
Follows(q, kind) ==
  LET Has(k) == \E i \in 1 .. Len(entries[Home(q, k)]) : entries[Home(q, k)][i] = <<q, k>>
  IN /\ ~Has(kind)
     /\ kind = "delivered" => Has("opened")
     /\ kind \in {"answered", "received"} => Has("delivered")

Commit(q, kind) ==
  /\ spent.facts < MaxFacts
  /\ Follows(q, kind)
  /\ Home(q, kind) \in c.roster
  /\ entries' = [entries EXCEPT ![Home(q, kind)] = Append(@, <<q, kind>>)]
  /\ spent' = [spent EXCEPT !.facts = @ + 1]
  /\ UNCHANGED <<c, reader, stale>>

\* The transcript adapter is replaced, or its identity scope begins again: the
\* journal is indexed anew and everything gathered from the old one is void.
Reset(a) ==
  /\ spent.resets < MaxResets
  /\ a \in c.roster
  /\ c' = [c EXCEPT !.epoch[a] = @ + 1,
                    !.bound = {q \in @ : Responder[q] # a},
                    !.journal[a] = [i \in 1 .. c.retained[a] |-> Touches(entries[a][i])]]
  /\ spent' = [spent EXCEPT !.resets = @ + 1]
  /\ UNCHANGED <<entries, reader, stale>>

\* Spawning or recovery integrates an Agent.
Join(a) ==
  /\ spent.resets < MaxResets
  /\ a \notin c.roster
  /\ c' = [c EXCEPT !.roster = @ \cup {a}]
  /\ spent' = [spent EXCEPT !.resets = @ + 1]
  /\ UNCHANGED <<entries, reader, stale>>

\* relationshipsFor, answerOwedRequestIds, sync: a synchronous barrier. Passes
\* until nothing is left to consume: a generator a reader left is finished first,
\* and an evaluation can bind a Request once, so that three passes suffice.
Read(a) ==
  /\ a \in c.roster
  /\ \E C0 \in {AllDrained(c)} : \E C1 \in {Pass(C0, a)} :
       IF Settled(C1, a) THEN c' = C1
       ELSE \E C2 \in {Pass(C1, a)} :
              IF Settled(C2, a) THEN c' = C2 ELSE c' = Pass(C2, a)
  /\ stale' = (stale \/ Project(c', a) # Stakes(c', a) \/ ~Settled(c', a))
  /\ UNCHANGED <<entries, reader, spent>>

\* catchUp and refresh: the reader first refreshes the transcripts of the roster
\* it found, one after another.
BeginCatchUp(a) ==
  /\ spent.reads < MaxReads
  /\ a \in c.roster \cap Readers /\ reader[a].stage = "idle"
  /\ reader' = [reader EXCEPT ![a] = [stage |-> "refreshing", roster |-> c.roster,
                                      left |-> c.roster]]
  /\ spent' = [spent EXCEPT !.reads = @ + 1]
  /\ UNCHANGED <<entries, c, stale>>

RefreshOne(a) ==
  /\ reader[a].left # {}
  /\ LET b == CHOOSE x \in reader[a].left : TRUE IN
     /\ c' = Drained(c, b)
     /\ reader' = [reader EXCEPT ![a].left = @ \ {b}]
  /\ UNCHANGED <<entries, stale, spent>>

Again(a) == [stage |-> "refreshing", roster |-> c.roster, left |-> c.roster]
Done     == [stage |-> "idle", roster |-> {}, left |-> {}]

Ready(a) == reader[a].stage = "refreshing" /\ reader[a].left = {}

\* The roster changed meanwhile: everything is refreshed again.
RosterChanged(a) ==
  /\ Ready(a) /\ reader[a].roster # c.roster
  /\ reader' = [reader EXCEPT ![a] = Again(a)]
  /\ UNCHANGED <<entries, c, stale, spent>>

\* The budget of a slice runs out while the shared list is gathered. How much it
\* gathered shows nowhere until the batch is published, so it is all of it here.
GatherSlice(a) ==
  /\ Ready(a) /\ reader[a].roster = c.roster
  /\ \E C \in {SourceStarted(c)} :
     /\ C.batch.on
     /\ c' = SourceSlice(C, Len(C.batch.todo))
  /\ reader' = [reader EXCEPT ![a] = Again(a)]
  /\ UNCHANGED <<entries, stale, spent>>

\* The list is gathered and the slice ends in the middle of the evaluation.
EvaluateSlice(a) ==
  /\ Ready(a) /\ reader[a].roster = c.roster
  /\ \E C \in {Gathered(c)} : \E G \in {GraphStarted(C, a)} :
        /\ G.graph[a].pending.on
        /\ \E E \in SUBSET G.graph[a].pending.todo : c' = Evaluated(G, a, E)
  /\ reader' = [reader EXCEPT ![a] = Again(a)]
  /\ UNCHANGED <<entries, stale, spent>>

\* Evaluation throws: the reader fails.
EvaluationThrows(a) ==
  /\ Ready(a) /\ reader[a].roster = c.roster
  /\ \E C \in {Gathered(c)} : \E G \in {GraphStarted(C, a)} :
        /\ G.graph[a].pending.on
        /\ \E E \in SUBSET G.graph[a].pending.todo :
             E # G.graph[a].pending.todo /\ c' = Threw(Evaluated(G, a, E), a)
  /\ reader' = [reader EXCEPT ![a] = Done]
  /\ UNCHANGED <<entries, stale, spent>>

\* The slice suffices. A projection that was being updated when it began is not
\* returned yet.
FinishSlice(a) ==
  /\ Ready(a) /\ reader[a].roster = c.roster
  /\ \E C \in {Gathered(c)} : \E G \in {GraphStarted(C, a)} :
        LET updating == G.graph[a].pending.on IN
        /\ c' = GraphDone(G, a)
        /\ reader' = [reader EXCEPT ![a] = IF updating THEN Again(a) ELSE Done]
        /\ stale' = (stale \/ (~updating /\ Project(c', a) # Stakes(c', a)))
  /\ UNCHANGED <<entries, spent>>

Init ==
  /\ entries = [a \in Agents |-> <<>>]
  /\ c = [roster |-> Founders, retained |-> [a \in Agents |-> 0],
          journal |-> [a \in Agents |-> <<>>], epoch |-> [a \in Agents |-> 0],
          bound |-> {}, sources |-> None, batch |-> NoGenerator, nextId |-> 1,
          graph |-> [a \in Agents |-> NoGraph]]
  /\ reader = [a \in Agents |-> Done]
  /\ stale = FALSE
  /\ spent = [facts |-> 0, resets |-> 0, reads |-> 0]

Next ==
  \/ \E q \in Requests, kind \in {"opened", "delivered", "answered", "received"} :
       Commit(q, kind)
  \/ \E a \in Agents : \/ Reset(a) \/ Join(a) \/ Read(a) \/ BeginCatchUp(a)
                       \/ RosterChanged(a) \/ GatherSlice(a) \/ EvaluateSlice(a)
                       \/ EvaluationThrows(a) \/ FinishSlice(a)
                       \/ RefreshOne(a)

Spec == Init /\ [][Next]_vars
-----------------------------------------------------------------------------
TypeOK ==
  /\ c.roster \subseteq Agents
  /\ \A a \in Agents : /\ c.retained[a] \in 0 .. Len(entries[a])
                       /\ c.graph[a].awaiting \cup c.graph[a].owed \subseteq Requests
                       /\ reader[a].left \subseteq reader[a].roster

\* What a reader is told is what the evidence it read says: no interleaving of
\* slices, resets, joins and failures makes a projection miss a change.
ReadsAreCurrent == ~stale

\* A graph that has consumed the whole list, while every journal is in the list,
\* holds the stakes the evidence gives: the incremental cache is coherent.
CacheIsCoherent ==
  \A a \in c.roster :
    LET g == c.graph[a] IN
    /\ ~c.batch.on /\ c.sources # None /\ c.sources.cursors = Cursors(c)
    /\ g.initialized /\ ~g.pending.on /\ g.src = c.sources.id
    /\ g.count = Len(c.sources.changes)
    => g.result = Stakes(c, a)

\* The cache never answers otherwise than the transcripts do: neither what is read now nor
\* what it keeps for the next read.
CacheIsFaithful == ReadsAreCurrent /\ CacheIsCoherent

=============================================================================
