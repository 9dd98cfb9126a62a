------------------------------ MODULE MCTerminal ------------------------------
(***************************************************************************)
(* A child Runtime and the human in front of it, each module on a small    *)
(* instance: the supervisor of an Agent's Runtimes (RuntimeSupervisor),    *)
(* the launch of one (ChildLaunch), the terminal with its switch           *)
(* (TerminalAttachment) and the questions the child asks (HumanRequests).  *)
(* One run checks them side by side: part names the one that moves, and    *)
(* the others stay as they began.                                          *)
(***************************************************************************)
EXTENDS RuntimeSupervisor, HumanRequests, TLC

VARIABLES part,
          state, stage, process, channel, runtime, cleanups, left, shutdown, forcing, killed,
          att, ops, prep, child, spent, torn

launchVars == <<state, stage, process, channel, runtime, cleanups, left, shutdown, forcing, killed>>
attachmentVars == <<att, ops, prep, child, spent, torn>>

NoSelection == "none"
Shown == {"v1", "v2"}

L == INSTANCE ChildLaunch WITH disposed <- killed
A == INSTANCE TerminalAttachment WITH Views <- Shown, NoView <- NoSelection, MaxEvents <- 6,
       MaxQueued <- 3

-----------------------------------------------------------------------------
MCInit ==
  /\ part \in {"supervisor", "launch", "attachment", "human"}
  /\ Init /\ L!Init /\ A!Init /\ QuestionInit
  /\ part # "human" => ~owed

\* Every part but p stays as it began.
Still(p) ==
  /\ UNCHANGED part
  /\ p # "supervisor" => UNCHANGED vars
  /\ p # "launch" => UNCHANGED launchVars
  /\ p # "attachment" => UNCHANGED attachmentVars
  /\ p # "human" => UNCHANGED questionVars

MCNext ==
  \/ part = "supervisor" /\ Next /\ Still("supervisor")
  \/ part = "launch" /\ L!Next /\ Still("launch")
  \/ part = "attachment" /\ A!Next /\ Still("attachment")
  \/ part = "human" /\ QuestionNext /\ Still("human")

\* The fairness of the modules that state liveness, each while its part moves.
At(p, Act) == part = p /\ Act

SupervisorFairness ==
  /\ WF_vars(At("supervisor", BeginHead))
  /\ WF_vars(At("supervisor", ContinueHead))
  /\ WF_vars(At("supervisor", Finalizes))
  /\ WF_vars(At("supervisor", Detaches))
  /\ WF_vars(At("supervisor", GetsReady))
  /\ WF_vars(At("supervisor", InputSettles))
  /\ WF_vars(At("supervisor", ActivitySettles))
  /\ WF_vars(At("supervisor", GraceEnds))
LaunchFairness ==
  /\ WF_launchVars(At("launch", L!Advance \/ L!Fail)) /\ WF_launchVars(At("launch", L!Admit))
  /\ WF_launchVars(At("launch", L!GraceExpires)) /\ WF_launchVars(At("launch", L!ForceTimer))
  /\ WF_launchVars(At("launch", L!LateExit))
  /\ \A o \in L!Owners : /\ WF_launchVars(At("launch", L!Clean(o)))
                         /\ WF_launchVars(At("launch", L!CleanKills(o)))
  /\ WF_launchVars(At("launch", process = "killed" /\ L!Exit))
AttachmentFairness ==
  /\ WF_attachmentVars(At("attachment", A!Continue))
  /\ \A v \in Shown : /\ WF_attachmentVars(At("attachment", A!Serve(v)))
                      /\ WF_attachmentVars(At("attachment", A!Released(v)))
                      /\ WF_attachmentVars(At("attachment", A!Drained(v)))
HumanFairness == WF_questionVars(At("human", Progress))

MCSpec == /\ MCInit /\ [][MCNext]_<<part, vars, launchVars, attachmentVars, questionVars>>
          /\ SupervisorFairness /\ LaunchFairness /\ AttachmentFairness /\ HumanFairness

-----------------------------------------------------------------------------
(* The properties of the instances, under the names their modules give them. *)

EveryChildEnds == L!EveryChildEnds
TerminalIsFaithful == A!TerminalIsFaithful
OperationsSettle == A!OperationsSettle
=============================================================================
