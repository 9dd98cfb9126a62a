-------------------------- MODULE ProgressVerdict --------------------------
(***************************************************************************)
(* The pure computations under the incident detectors                      *)
(* (src/src/coordination/progress-verdict.ts and owner-demand.ts): which   *)
(* Requests somebody upstream still awaits, the verdict of each Agent once *)
(* its dependencies are combined, and the dependency deadlocks.            *)
(*                                                                         *)
(* Each computation is a loop over one snapshot; a behaviour is a run of   *)
(* one of them.  Where the code goes through a list in some order, any     *)
(* order is allowed here.                                                  *)
(***************************************************************************)
EXTENDS Naturals, Sequences, FiniteSets

CONSTANTS Agents,
          Owner,     \* the Workflow Owner, the only demand root here
          Profiles,  \* the facts of an Agent that do not follow from the Requests
          Tasks      \* the computations that are run

VARIABLES task,      \* "demand", "combine" or "search"; "done" when it has returned
          facts,     \* the profile of each Agent
          requests,  \* unanswered Requests: requester and target
          demanded,  \* Requests known to be demanded
          verdict,   \* verdicts so far
          search,    \* Tarjan's search: the next index, index and low link, stack
          frames,    \* calls of visit under way, the innermost last
          components \* components found

vars == <<task, facts, requests, demanded, verdict, search, frames, components>>
snapshot == <<facts, requests>>

Targets(a) == {b \in Agents : <<a, b>> \in requests}
Requesters(a) == {b \in Agents : <<b, a>> \in requests}

-----------------------------------------------------------------------------
(* Local verdicts *)

waitingReason(f) ==
  IF f.phase # "dormant" /\ f.attention = "input_required" THEN "input_required"
  ELSE IF f.hold THEN "interruption_hold"
  ELSE IF f.suspended THEN "run_suspension"
  ELSE IF f.selected THEN "interactive_selection"
  ELSE "none"

localVerdict(f) ==
  LET explanatory == waitingReason(f) = "interactive_selection" IN
  IF f.failed THEN "inactive"
  ELSE IF f.phase = "dormant" THEN IF f.delivery THEN "progressing" ELSE "inactive"
  ELSE IF waitingReason(f) # "none" /\ ~explanatory THEN "waiting"
  ELSE IF f.phase \in {"starting", "ending"} \/ f.work = "active" \/ f.delivery THEN "progressing"
  ELSE IF explanatory THEN "waiting"
  ELSE "stalled"

Local(a) == localVerdict(facts[a])
Stalled == {a \in Agents : Local(a) = "stalled"}

\* Mutant of isDeadlockEligible: an Agent that owes an Answer is retained by something else.
EligibleOwingNothing(a) ==
  Local(a) = "stalled" /\ a # Owner /\ Targets(a) # {} /\ Requesters(a) = {}

\* Retained solely by Requests.  The Owner is bound to its host besides.
isDeadlockEligible(a) ==
  Local(a) = "stalled" /\ a # Owner /\ (Targets(a) # {} \/ Requesters(a) # {})

Eligible == {a \in Agents : isDeadlockEligible(a)}

-----------------------------------------------------------------------------
(* States *)

NotVisited == [next |-> 0, index |-> [a \in {} |-> 0], low |-> [a \in {} |-> 0], stack |-> <<>>]
Visited == DOMAIN search.index

TypeOK ==
  /\ task \in {"demand", "combine", "search", "done"}
  /\ facts \in [Agents -> Profiles] /\ requests \subseteq Agents \X Agents
  /\ demanded \subseteq requests
  /\ verdict \in [Agents -> {"progressing", "waiting", "stalled", "inactive"}]
  /\ components \subseteq SUBSET Agents

\* An Agent is parked in agent_wait only while it awaits something.  Demand does not
\* depend on the facts.
Init ==
  /\ task \in Tasks
  /\ requests \in SUBSET (Agents \X Agents)
  /\ facts \in [Agents -> Profiles]
  /\ \A a \in Agents : facts[a].attention = "agent_wait" => Targets(a) # {}
  /\ task = "demand" => \A a \in Agents : facts[a].attention = "none" /\ facts[a].phase = "dormant"
  /\ demanded = {}
  /\ verdict = [a \in Agents |-> Local(a)]
  /\ search = NotVisited /\ frames = <<>> /\ components = {}

-----------------------------------------------------------------------------
(* demandedRequestIds *)

DemandedAgents == {Owner} \cup {r[2] : r \in demanded}

Awaited == {r \in requests \ demanded : r[1] \in DemandedAgents}

Demand ==
  /\ task = "demand"
  /\ \E r \in Awaited : demanded' = demanded \cup {r}
  /\ UNCHANGED <<task, snapshot, verdict, search, frames, components>>

DemandReturns ==
  /\ task = "demand" /\ Awaited = {}
  /\ task' = "done"
  /\ UNCHANGED <<snapshot, demanded, verdict, search, frames, components>>

-----------------------------------------------------------------------------
(* combineDependencies *)

Rank(v) == CASE v = "progressing" -> 2 [] v = "waiting" -> 1 [] OTHER -> 0
asDependency(v) == IF v = "inactive" THEN "stalled" ELSE v

\* The best of the verdicts.
Best(V) == CHOOSE v \in V : \A w \in V : Rank(w) <= Rank(v)

\* Mutant of BestBranch: the targets' own verdicts, not the combined ones.
OwnBranch(a) ==
  Best({asDependency(verdict[a])} \cup {asDependency(Local(b)) : b \in Targets(a)})

BestBranch(a) ==
  Best({asDependency(verdict[a])} \cup {asDependency(verdict[b]) : b \in Targets(a)})

Improve(a) ==
  /\ task = "combine"
  /\ a \in Stalled /\ BestBranch(a) # asDependency(verdict[a])
  /\ verdict' = [verdict EXCEPT ![a] = BestBranch(a)]
  /\ UNCHANGED <<task, snapshot, demanded, search, frames, components>>

CombineReturns ==
  /\ task = "combine"
  /\ \A a \in Stalled : BestBranch(a) = asDependency(verdict[a])
  /\ task' = "done"
  /\ UNCHANGED <<snapshot, demanded, verdict, search, frames, components>>

-----------------------------------------------------------------------------
(* detectDependencyDeadlocks: Tarjan's search among the eligible Agents *)

Frame(a) == [agent |-> a, todo |-> Targets(a) \cap Eligible]
Top == frames[Len(frames)]
Below == SubSeq(frames, 1, Len(frames) - 1)
Smaller(m, n) == IF m < n THEN m ELSE n

\* visit(a), up to its loop.
Entered(a) ==
  [next |-> search.next + 1,
   index |-> [b \in Visited \cup {a} |-> IF b = a THEN search.next ELSE search.index[b]],
   low |-> [b \in Visited \cup {a} |-> IF b = a THEN search.next ELSE search.low[b]],
   stack |-> Append(search.stack, a)]

OnStack == {search.stack[i] : i \in 1..Len(search.stack)}

VisitRoot(a) ==
  /\ task = "search" /\ frames = <<>> /\ a \in Eligible \ Visited
  /\ search' = Entered(a) /\ frames' = <<Frame(a)>>
  /\ UNCHANGED <<task, snapshot, demanded, verdict, components>>

Examined(b) == Append(Below, [Top EXCEPT !.todo = @ \ {b}])

VisitTarget(b) ==
  /\ task = "search" /\ frames # <<>> /\ b \in Top.todo /\ b \notin Visited
  /\ search' = Entered(b) /\ frames' = Append(Examined(b), Frame(b))
  /\ UNCHANGED <<task, snapshot, demanded, verdict, components>>

LowOf(b) == IF b \in OnStack THEN Smaller(search.low[Top.agent], search.index[b])
            ELSE search.low[Top.agent]

BackEdge(b) ==
  /\ task = "search" /\ frames # <<>> /\ b \in Top.todo /\ b \in Visited
  /\ search' = [search EXCEPT !.low[Top.agent] = LowOf(b)]
  /\ frames' = Examined(b)
  /\ UNCHANGED <<task, snapshot, demanded, verdict, components>>

\* What is on the stack above a, and a.
Above(a) == {search.stack[i] : i \in {j \in 1..Len(search.stack) :
                                        search.index[search.stack[j]] >= search.index[a]}}

\* The end of visit: a root of a component pops it, and the caller takes the low link.
Leave ==
  /\ task = "search" /\ frames # <<>> /\ Top.todo = {}
  /\ LET a == Top.agent
         root == search.low[a] = search.index[a]
         low == IF Below = <<>> THEN search.low
                ELSE [search.low EXCEPT ![Below[Len(Below)].agent] = Smaller(@, search.low[a])]
     IN /\ search' = [search EXCEPT !.low = low,
                        !.stack = IF root THEN SelectSeq(@, LAMBDA b : b \notin Above(a)) ELSE @]
        /\ components' = IF root THEN components \cup {Above(a)} ELSE components
  /\ frames' = Below
  /\ UNCHANGED <<task, snapshot, demanded, verdict>>

SearchReturns ==
  /\ task = "search" /\ frames = <<>> /\ Eligible \subseteq Visited
  /\ task' = "done"
  /\ UNCHANGED <<snapshot, demanded, verdict, search, frames, components>>

Incident(C) == {r \in requests : r[1] \in C}

\* A component is a deadlock when it is a cycle and all its Requests stay inside.
Deadlocks ==
  {C \in components :
     /\ Cardinality(C) > 1 \/ \E r \in Incident(C) : r[2] \in C
     /\ Incident(C) # {} /\ \A r \in Incident(C) : r[2] \in C}

-----------------------------------------------------------------------------
Next ==
  \/ Demand \/ DemandReturns
  \/ CombineReturns \/ Leave \/ SearchReturns
  \/ \E a \in Agents : Improve(a) \/ VisitRoot(a) \/ VisitTarget(a) \/ BackEdge(a)
  \/ task = "done" /\ UNCHANGED vars

Spec == Init /\ [][Next]_vars

-----------------------------------------------------------------------------
(* Reference definitions *)

\* The Agents that a reaches through the Requests of Agents in through.
ReachedThrough(a, through) ==
  {b \in Agents : \A S \in SUBSET Agents :
     (a \in S /\ \A c \in S \cap through : Targets(c) \subseteq S) => b \in S}

Reached(a) == ReachedThrough(a, Agents)

\* Owner Demand: every set that holds what the Owner asked and what its targets ask.
UpstreamClosed(D) ==
  \A r \in requests : (r[1] = Owner \/ \E d \in D : d[2] = r[1]) => r \in D

-----------------------------------------------------------------------------
\* demandedRequestIds returns the least set closed under demand, in chains and cycles.
DemandIsLeast ==
  /\ \A D \in SUBSET requests : UpstreamClosed(D) => demanded \subseteq D
  /\ task = "done" /\ demanded # {} => UpstreamClosed(demanded)

\* Combined, a stalled Agent has the best verdict that it reaches through stalled Agents,
\* and no other Agent's verdict changes.
CombinedIsBestReached ==
  task = "done" /\ verdict # [a \in Agents |-> Local(a)] =>
    \A a \in Agents :
      verdict[a] = IF a \in Stalled
                     THEN Best({asDependency(Local(b)) : b \in ReachedThrough(a, Stalled)})
                     ELSE Local(a)

\* The deadlocks are the groups of eligible Agents that reach each other and nobody else.
DeadlocksAreClosedCycles ==
  task = "done" /\ Visited # {} =>
    Deadlocks = {C \in SUBSET Eligible \ {{}} :
                   /\ \A a \in C : Targets(a) # {} /\ Targets(a) \subseteq C
                   /\ \A a, b \in C : b \in Reached(a)}

\* The three searches agree with what they look for, in every graph of Requests: the
\* demand of the Owner, the best verdict that an Agent reaches, the closed cycles.
SearchesAreExact == DemandIsLeast /\ CombinedIsBestReached /\ DeadlocksAreClosedCycles

\* The verdict that the snapshot gives an Agent, as the detectors see it.
Combined(a) == IF a \in Stalled
                 THEN Best({asDependency(Local(b)) : b \in ReachedThrough(a, Stalled)})
                 ELSE Local(a)

\* No stalled obligation is overlooked.  When a Request of the Owner goes to a stalled
\* Agent, some Agent that it awaits is reminded of an Obligation Stall (it is stalled
\* without attention), or belongs to a deadlock; unless it awaits an Agent that does not
\* run, which run failure handling sees, or the Owner itself.
NoStallIsOverlooked ==
  task = "done" /\ Visited # {} =>
    \A a \in Targets(Owner) \ {Owner} :
      Combined(a) = "stalled" =>
        \E b \in Reached(a) :
          \/ b = Owner \/ Local(b) = "inactive"
          \/ Combined(b) = "stalled" /\ facts[b].attention = "none" /\ Requesters(b) # {}
          \/ \E C \in Deadlocks : b \in C
=============================================================================
