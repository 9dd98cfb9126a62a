------------------------------ MODULE MCRequests ------------------------------
(***************************************************************************)
(* Requests and the records they live in, each module on a small instance: *)
(* the Agent Wait (AgentWait), the relationships and the evidence read     *)
(* from transcripts (RequestRelationships, RequestEvidence), the           *)
(* transcript itself (TranscriptReader), the progress that Requests wait   *)
(* for (ProgressVerdict), and what a resumed Workflow finds: the Agents it *)
(* creates again and the duties it continues (SpawnRecovery,               *)
(* WorkflowResume).  One run checks them side by side: part names the one  *)
(* that moves, and the others stay as they began.                          *)
(***************************************************************************)
EXTENDS AgentWait, TLC

CONSTANTS r1, r2,      \* Requests of the waiting Agent
          Replies, Cancellations, nothing,  \* of one Request
          parent, child, q,
          owner, agent1, agent2,
          Spawnable, ToolCalls,  \* the children of a Workflow and the ids of native calls
          MaxSpawns, MaxFaults,
          Duties, Giver,         \* the responders of a resumed Workflow, and who asked them
          MaxTurns, MaxResumes

ASSUME EvidenceAssumption ==
  /\ Replies \cap Cancellations = {}
  /\ {"q", "retry", nothing} \cap (Replies \cup Cancellations) = {}
  /\ nothing \notin {"q", "accepted", "declined", "error"}
ASSUME SpawnAssumption == IsFiniteSet(Spawnable) /\ owner \notin Spawnable
ASSUME ResumeAssumption == "none" \notin Duties /\ MaxTurns \in Nat /\ MaxResumes \in Nat

VARIABLES part,
          entries, c, reader, stale, readSpent,
          called, result, delivered, retrieved, admitted, queue, calls, lost, spent,
          file, fresh, opened, bytes, refreshes,
          task, facts, requests, demanded, verdict, search, frames, components,
          spawns, leaf, source, step, chain, receipt, up, roster, quarantined, faults,
          unread,
          run, request, job, responders, scheduled, views, continued, known

readVars == <<entries, c, reader, stale, readSpent>>
evidenceVars == <<called, result, delivered, retrieved, admitted, queue, calls, lost, spent>>
transcriptVars == <<file, fresh, opened, bytes, refreshes>>
verdictVars == <<task, facts, requests, demanded, verdict, search, frames, components>>
recoveryVars == <<spawns, leaf, source, step, chain, receipt, up, roster, quarantined, faults,
                  unread>>
resumeVars == <<run, request, job, responders, scheduled, views, continued, known>>

Pair == {parent, child}
Creation == {q}
Creator == q :> parent
Created == q :> child
Founder == {parent}
Reader == {child}
Trio == {owner, agent1, agent2}
Passes == {1, 2}
Askers == agent1 :> owner @@ agent2 :> agent1   \* agent2 serves agent1, which serves the Owner
VerdictTasks == {"demand", "combine", "search"}

AtRest == [phase |-> "live", work |-> "settled", attention |-> "none", suspended |-> FALSE,
           failed |-> FALSE, hold |-> FALSE, selected |-> FALSE, delivery |-> FALSE]

\* A settled Agent, one in agent_wait, one that works while it is shown, one held by a
\* human, one that does not run.
Kinds == {AtRest,
          [AtRest EXCEPT !.attention = "agent_wait"],
          [AtRest EXCEPT !.work = "active", !.selected = TRUE],
          [AtRest EXCEPT !.hold = TRUE],
          [AtRest EXCEPT !.phase = "dormant"]}

\* The parent creates the child with the Request q.
R == INSTANCE RequestRelationships WITH
       Agents <- Pair, Requests <- Creation, Requester <- Creator, Responder <- Created,
       Founders <- Founder, Readers <- Reader, Creations <- Creation,
       MaxFacts <- 4, MaxResets <- 1, MaxReads <- 2, spent <- readSpent

E == INSTANCE RequestEvidence WITH
       Answers <- Replies, None <- nothing, MaxRetries <- 1, MaxFailures <- 1, MaxCrashes <- 1

T == INSTANCE TranscriptReader WITH
       Refreshes <- Passes, Chunk <- 1, MaxWrites <- 4,
       reader <- opened, source <- bytes, calls <- refreshes

V == INSTANCE ProgressVerdict WITH
       Agents <- Trio, Owner <- owner, Profiles <- Kinds, Tasks <- VerdictTasks

S == INSTANCE SpawnRecovery WITH
       Children <- Spawnable, Owner <- owner, CallIds <- ToolCalls, MaxCalls <- MaxSpawns,
       calls <- spawns, file <- chain

C == INSTANCE WorkflowResume WITH
       Agents <- Duties, Author <- Giver, MaxRuns <- MaxTurns, admitted <- responders

-----------------------------------------------------------------------------
\* Only the part that moves begins in every way it can.
MCInit ==
  /\ part \in {"wait", "relationships", "evidence", "transcript", "verdict", "recovery", "resume"}
  /\ IF part = "wait" THEN TRUE
     ELSE resp = [r \in Requests |-> [run |-> 0, seq |-> 0, failed |-> FALSE, request |-> "lost"]]
  /\ IF part = "verdict" THEN TRUE ELSE /\ task = "combine" /\ requests = {}
                                       /\ facts = [a \in Trio |-> AtRest]
  /\ IF part = "resume" THEN TRUE ELSE request = [a \in Duties |-> "absent"]
  /\ Init /\ R!Init /\ E!Init /\ T!Init /\ V!Init /\ S!Init /\ C!Init

\* Every part but p stays as it began.
Still(p) ==
  /\ UNCHANGED part
  /\ p # "wait" => UNCHANGED vars
  /\ p # "relationships" => UNCHANGED readVars
  /\ p # "evidence" => UNCHANGED evidenceVars
  /\ p # "transcript" => UNCHANGED transcriptVars
  /\ p # "verdict" => UNCHANGED verdictVars
  /\ p # "recovery" => UNCHANGED recoveryVars
  /\ p # "resume" => UNCHANGED resumeVars

MCNext ==
  \/ part = "wait" /\ Next /\ Still("wait")
  \/ part = "relationships" /\ R!Next /\ Still("relationships")
  \/ part = "evidence" /\ E!Next /\ Still("evidence")
  \/ part = "transcript" /\ T!Next /\ Still("transcript")
  \/ part = "verdict" /\ V!Next /\ Still("verdict")
  \/ part = "recovery" /\ S!Next /\ Still("recovery")
  \/ part = "resume" /\ C!Next /\ Still("resume")

MCSpec == /\ MCInit
          /\ [][MCNext]_<<part, vars, readVars, evidenceVars, transcriptVars, verdictVars,
                          recoveryVars, resumeVars>>

-----------------------------------------------------------------------------
(* The properties of the instances, under the names their modules give them. *)

CacheIsFaithful == R!CacheIsFaithful
EvidenceIsSound == E!EvidenceIsSound
RefreshIsCurrent == T!RefreshIsCurrent
SearchesAreExact == V!SearchesAreExact
NoStallIsOverlooked == V!NoStallIsOverlooked
RecoveryIsExact == S!RecoveryIsExact
ContinuationKnowsItsRequests == C!ContinuationKnowsItsRequests
=============================================================================
