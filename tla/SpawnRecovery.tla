---------------------------- MODULE SpawnRecovery ----------------------------
(***************************************************************************)
(* How children come to be and survive the host: agent_spawn commits a     *)
(* child's Identity to a transcript of its own (DefaultChildSpawner), and  *)
(* a later host rebuilds the roster from the transcripts it finds          *)
(* (discoverColdWorkflow).                                                 *)
(*                                                                         *)
(* A child's authority rests on its spawner's transcript: its Identity     *)
(* points to the committed agent_spawn call, by entry and native call id.  *)
(* The model chooses native call ids, and may choose one again.            *)
(***************************************************************************)
EXTENDS Naturals, Sequences, FiniteSets

CONSTANTS Children, Owner,
          CallIds,    \* native tool call ids
          MaxCalls,   \* agent_spawn calls of one Agent
          MaxFaults   \* failures, failed reads, crashes, damaged or copied files, rewinds

Agents == Children \union {Owner}

VARIABLES
  calls,    \* the agent_spawn calls in each transcript, in physical order, and
            \* which one each follows on its branch
  leaf,     \* the call the active branch ends with
  source,   \* the spawnSource in each child's Identity
  step,     \* how far each spawn is
  file,     \* the transcript of each child: none, torn, whole, or in two copies
  receipt,  \* what agent_spawn returned
  up,       \* a host runs
  roster,   \* the Agents it knows
  quarantined,
  faults,
  unread    \* history: children reported as not created because a read of their file failed

vars == <<calls, leaf, source, step, file, receipt, up, roster, quarantined, faults, unread>>
Fault == faults < MaxFaults /\ faults' = faults + 1

Nowhere == [agent |-> Owner, entry |-> 0, id |-> "none"]

Largest(S) == CHOOSE n \in S : \A m \in S : m <= n

\* resolveCommittedToolCall: a call id may occur again, and the current call is the latest,
\* preferably on the active branch.  0 when it does not occur.
CommittedEntry(seq, end, id) ==
  LET branch[i \in 0..Len(seq)] == IF i = 0 THEN {} ELSE {i} \union branch[seq[i].after]
      matches == {i \in 1..Len(seq) : seq[i].id = id}
      current == IF matches \cap branch[end] # {} THEN matches \cap branch[end] ELSE matches
  IN IF matches = {} THEN 0 ELSE Largest(current)

-----------------------------------------------------------------------------
(* agent_spawn *)

\* Spawns of one Agent run side by side only when one message makes both calls.
InProgress(p) ==
  {c \in Children : source[c].agent = p /\ step[c] \in {"called", "prepared", "unsure", "written"}}

\* A live Agent commits a call and its execution resolves the call's source.
Fresh == {c \in Children : step[c] = "unborn"}

Call(p, id) ==
  /\ up /\ p \in roster /\ Fresh # {} /\ Len(calls[p]) < MaxCalls
  /\ \A d \in InProgress(p) : source[d].id # id
  /\ calls' = [calls EXCEPT ![p] = Append(@, [id |-> id, after |-> leaf[p]])]
  /\ leaf' = [leaf EXCEPT ![p] = Len(calls'[p])]
  /\ LET c == CHOOSE c \in Fresh : TRUE
         claim == [agent |-> p, entry |-> CommittedEntry(calls'[p], leaf'[p], id), id |-> id]
     IN /\ \A d \in roster \ {Owner} : source[d] # claim
        /\ source' = [source EXCEPT ![c] = claim]
        /\ step' = [step EXCEPT ![c] = "called"]
  /\ UNCHANGED <<file, receipt, up, roster, quarantined, faults, unread>>

NotCreated(c) ==
  /\ step' = [step EXCEPT ![c] = "ended"] /\ receipt' = [receipt EXCEPT ![c] = "not_created"]

\* Metadata, configuration and the staging session.
Prepare(c, fails) ==
  /\ up /\ step[c] = "called"
  /\ IF fails THEN Fault /\ NotCreated(c)
              ELSE step' = [step EXCEPT ![c] = "prepared"] /\ UNCHANGED <<receipt, faults>>
  /\ UNCHANGED <<calls, leaf, source, file, up, roster, quarantined, unread>>

\* materializeNewAgentTranscript: one exclusive write, which may fail at any point of it.
Write(c, outcome) ==
  /\ up /\ step[c] = "prepared"
  /\ \/ /\ outcome = "written" /\ UNCHANGED faults
        /\ file' = [file EXCEPT ![c] = "whole"] /\ step' = [step EXCEPT ![c] = "written"]
     \/ /\ outcome \in {"none", "torn", "whole"} /\ Fault
        /\ file' = [file EXCEPT ![c] = outcome] /\ step' = [step EXCEPT ![c] = "unsure"]
  /\ UNCHANGED <<calls, leaf, source, receipt, up, roster, quarantined, unread>>

Registers(c) == roster' = roster \union {c} /\ step' = [step EXCEPT ![c] = "registered"]

\* #hasExactDurableEvidence: a failed write that left exact durable evidence has created the
\* child all the same.  A read that fails is no evidence, whatever the file holds.
Evident(c) == file[c] \in {"whole", "twice"}

Confirm(c) ==
  /\ up /\ step[c] = "unsure"
  /\ \/ /\ Evident(c) /\ Registers(c) /\ receipt' = [receipt EXCEPT ![c] = "unknown"]
        /\ UNCHANGED <<faults, unread>>
     \/ /\ ~Evident(c) /\ NotCreated(c)
        /\ UNCHANGED <<roster, faults, unread>>
     \/ /\ Evident(c) /\ Fault /\ NotCreated(c) /\ unread' = unread \union {c}
        /\ UNCHANGED roster
  /\ UNCHANGED <<calls, leaf, source, file, up, quarantined>>

\* The Identity is read once more; when that fails the call fails, without a receipt.
Unconfirmed(c) ==
  /\ up /\ step[c] \in {"unsure", "written"} /\ Evident(c) /\ Fault
  /\ step' = [step EXCEPT ![c] = "ended"]
  /\ UNCHANGED <<calls, leaf, source, file, receipt, up, roster, quarantined, unread>>

Register(c) ==
  /\ up /\ step[c] = "written" /\ Evident(c)
  /\ Registers(c)
  /\ UNCHANGED <<calls, leaf, source, file, receipt, up, quarantined, faults, unread>>

\* The first Run starts or is deferred and the Creation Request is admitted: failures of
\* either are reported and leave the child.
Report(c) ==
  /\ up /\ step[c] = "registered" /\ c \in roster /\ receipt[c] = "none"
  /\ receipt' = [receipt EXCEPT ![c] = "created"]
  /\ UNCHANGED <<calls, leaf, source, step, file, up, roster, quarantined, faults, unread>>

-----------------------------------------------------------------------------
(* The host, the files and the branches. *)

\* The host ends, which is a crash when a spawn is on its way: during the write it leaves any
\* part of it.  A rewind is lost unless something was appended since.
Crash ==
  /\ up /\ up' = FALSE /\ roster' = {} /\ quarantined' = {}
  /\ IF \E p \in Agents : InProgress(p) # {} THEN Fault ELSE UNCHANGED faults
  /\ \E left \in [Children -> {"none", "torn", "whole"}] :
       /\ \A c \in Children : step[c] # "prepared" => left[c] = "none"
       /\ file' = [c \in Children |-> IF step[c] = "prepared" THEN left[c] ELSE file[c]]
  /\ step' = [c \in Children |-> IF step[c] \in {"called", "prepared", "unsure", "written"}
                                 THEN "ended" ELSE step[c]]
  /\ \E kept \in SUBSET {a \in Agents : leaf[a] # Len(calls[a])} :
       leaf' = [a \in Agents |-> IF a \in kept THEN leaf[a] ELSE Len(calls[a])]
  /\ UNCHANGED <<calls, source, receipt, unread>>

\* While no host runs, a transcript is damaged or copied.
Meddle(c, becomes) ==
  /\ ~up /\ Fault /\ file[c] = "whole" /\ becomes \in {"torn", "twice"}
  /\ file' = [file EXCEPT ![c] = becomes]
  /\ UNCHANGED <<calls, leaf, source, step, receipt, up, roster, quarantined, unread>>

\* A human rewinds a session to an earlier entry.
Rewind(p, n) ==
  /\ up /\ Fault /\ p \in roster /\ InProgress(p) = {} /\ n \in 0..Len(calls[p])
  /\ n # leaf[p] /\ leaf' = [leaf EXCEPT ![p] = n]
  /\ UNCHANGED <<calls, source, step, file, receipt, up, roster, quarantined, unread>>

-----------------------------------------------------------------------------
(* discoverColdWorkflow *)

\* A file without a whole Identity is no candidate; each copy of one is a claim.
Candidates == {c \in Children : Evident(c)}
Unique(c) == file[c] = "whole" /\ \A d \in Candidates \ {c} : source[d] # source[c]

\* The spawner's transcript must resolve the call to the very entry the Identity names.
Proven(c) ==
  LET p == source[c].agent
  IN /\ p = Owner \/ (p \in Candidates /\ file[p] = "whole")
     /\ source[c].entry > 0
     /\ CommittedEntry(calls[p], leaf[p], source[c].id) = source[c].entry

\* Mutant of Admissible: the spawner itself need not be admitted.
AdmissibleAnywhere(c, admitted) == Unique(c) /\ Proven(c)
Admissible(c, admitted) == Unique(c) /\ Proven(c) /\ source[c].agent \in admitted \union {Owner}

\* verifyPath: the candidates whose chain of spawners reaches the Owner in n steps.
Rooted[n \in Nat] == IF n = 0 THEN {} ELSE {c \in Candidates : Admissible(c, Rooted[n - 1])}

Recover ==
  /\ ~up /\ up' = TRUE
  /\ roster' = Rooted[Cardinality(Children)] \union {Owner}
  /\ quarantined' = {c \in Children : file[c] # "none"} \ roster'
  /\ UNCHANGED <<calls, leaf, source, step, file, receipt, faults, unread>>

-----------------------------------------------------------------------------
Init ==
  /\ calls = [a \in Agents |-> <<>>] /\ leaf = [a \in Agents |-> 0]
  /\ source = [c \in Children |-> Nowhere] /\ step = [c \in Children |-> "unborn"]
  /\ file = [c \in Children |-> "none"] /\ receipt = [c \in Children |-> "none"]
  /\ up = TRUE /\ roster = {Owner} /\ quarantined = {} /\ faults = 0
  /\ unread = {}

Next ==
  \/ \E p \in Agents, id \in CallIds : Call(p, id)
  \/ \E c \in Children :
       \/ \E fails \in BOOLEAN : Prepare(c, fails)
       \/ \E outcome \in {"written", "none", "torn", "whole"} : Write(c, outcome)
       \/ Confirm(c) \/ Unconfirmed(c) \/ Register(c) \/ Report(c)
       \/ \E becomes \in {"torn", "twice"} : Meddle(c, becomes)
  \/ \E p \in Agents, n \in 0..MaxCalls : Rewind(p, n)
  \/ Crash \/ Recover

Spec == Init /\ [][Next]_vars
-----------------------------------------------------------------------------
TypeOK ==
  /\ \A a \in Agents : leaf[a] \in 0..Len(calls[a])
  /\ roster \subseteq Agents /\ (up => Owner \in roster)
  /\ \A c \in Children : file[c] \in {"none", "torn", "whole", "twice"}

\* not_created is final: no host ever finds such a child, whatever the failed write left.
\* Only a child whose whole file could not be read when it was reported may come back.
NotCreatedIsFinal ==
  \A c \in Children : receipt[c] = "not_created" /\ c \notin unread => c \notin roster

\* Who spawned a child, directly or not, and the child.
Line[n \in Nat] ==
  [c \in Children |-> IF n = 0 \/ source[c].agent = Owner THEN {c}
                      ELSE {c} \union Line[n - 1][source[c].agent]]
Lineage(c) == Line[Cardinality(Children)][c]

\* The native id of its spawn call was committed again by its spawner.
Repeated(c) == \E i \in DOMAIN calls[source[c].agent] \ {source[c].entry} :
                 calls[source[c].agent][i].id = source[c].id

\* A child that a host has known is known to every later one: it is lost only with a
\* transcript in its lineage.
ChildrenSurviveRestarts ==
  up => \A c \in Children :
          step[c] = "registered" /\ (\A d \in Lineage(c) : file[d] = "whole") => c \in roster

\* Without repeated call ids every child survives, whatever happens to others; no child is
\* admitted whose spawner is not.
SubtreesAreIndependent ==
  up => \A c \in Children :
    /\ (/\ step[c] = "registered"
        /\ \A d \in Lineage(c) : file[d] = "whole" /\ ~Repeated(d)) => c \in roster
    /\ c \in roster => source[c].agent \in roster

\* What a restarted host finds agrees with the receipts that were given and with the
\* records themselves, whatever a crash left of them.
RecoveryIsExact == NotCreatedIsFinal /\ SubtreesAreIndependent
=============================================================================
