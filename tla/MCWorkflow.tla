----------------------------- MODULE MCWorkflow -----------------------------
(***************************************************************************)
(* What keeps a Workflow going, each module on a small instance: the boots *)
(* beyond the soft bound (DeferredBoots), the handling of Operational      *)
(* Incidents (OperationalIncidents), and the parking of the Owner's        *)
(* settled prompt while its children progress (OwnerParking).  One run     *)
(* checks them side by side: part names the one that moves, and the others *)
(* stay as they began.                                                     *)
(***************************************************************************)
EXTENDS DeferredBoots, TLC

CONSTANTS a1, a2, a3  \* Agents

VARIABLES part,
          present, episode, successor, tracked, handling, mods, jobs, alerts, watch, faults,
          shown, reminder, closed, spent, forgotten,
          prompt, ownerRun, runs, aborted, park, woken, entered, parkedRun, ownerLane, queue, held,
          busy, emitting, verifying, ended, happened

incidentVars == <<present, episode, successor, tracked, handling, mods, jobs, alerts, watch,
                  faults, shown, reminder, closed, spent, forgotten>>
parkingVars == <<prompt, ownerRun, runs, aborted, park, woken, entered, parkedRun, ownerLane, queue,
                 held, busy, emitting, verifying, ended, happened>>

Conditions == {"run_failure", "obligation_stall", "dependency_deadlock"}
Descendants == {"c1", "c2"}
Recovering == {"r"}

I == INSTANCE OperationalIncidents WITH
       Keys <- Conditions, MaxModerators <- 3, MaxEvents <- 3, lane <- jobs, pending <- alerts
P == INSTANCE OwnerParking WITH
       Children <- Descendants, Recovery <- Recovering, MaxEvents <- 4,
       run <- ownerRun, lane <- ownerLane, check <- verifying, down <- ended, events <- happened

-----------------------------------------------------------------------------
MCInit == part \in {"boots", "incidents", "parking"} /\ Init /\ I!Init /\ P!Init

MCNext ==
  /\ UNCHANGED part
  /\ \/ part = "boots" /\ Next /\ UNCHANGED <<incidentVars, parkingVars>>
     \/ part = "incidents" /\ I!Next /\ UNCHANGED <<vars, parkingVars>>
     \/ part = "parking" /\ P!Next /\ UNCHANGED <<vars, incidentVars>>

\* The fairness of the modules, each while its part moves.
Moving(p, A) == part = p /\ A

BootFairness ==
  /\ WF_vars(Moving("boots", Check)) /\ WF_vars(Moving("boots", HandOn))
  /\ \A a \in Agents : /\ WF_vars(Moving("boots", InLane(a)))
                       /\ WF_vars(Moving("boots", StopsWork(a)))
IncidentFairness ==
  /\ WF_incidentVars(Moving("incidents", I!LaneStep))
  /\ WF_incidentVars(Moving("incidents", I!DeadlineFires))
  /\ \A m \in 1..3 : WF_incidentVars(Moving("incidents", m \in I!Moderators /\ I!ModeratorLane(m)))
ParkingFairness ==
  /\ WF_parkingVars(Moving("parking", P!InLane)) /\ WF_parkingVars(Moving("parking", P!Parking))
  /\ WF_parkingVars(Moving("parking", P!Check)) /\ WF_parkingVars(Moving("parking", P!HandsOver))

MCSpec == /\ MCInit /\ [][MCNext]_<<part, vars, incidentVars, parkingVars>>
          /\ BootFairness /\ IncidentFairness /\ ParkingFairness

-----------------------------------------------------------------------------
(* The properties of the instances, under the names their modules give them. *)

IncidentIsAttended == I!IncidentIsAttended
RecoveryIsNoticed == I!RecoveryIsNoticed
ParkedOwnerIsReleased == P!ParkedOwnerIsReleased
=============================================================================
