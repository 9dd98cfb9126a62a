----------------------------- MODULE ChildLaunch -----------------------------
(***************************************************************************)
(* The process of one child, from its launch to its end                    *)
(* (process-runtime/pi-child-process-runtime.ts).  PiChildProcessLaunch    *)
(* starts it stage by stage, each stage racing with its bound, the exit of *)
(* the process, a fault and a cancellation; PiChildProcessRuntime owns it  *)
(* once it is admitted, shuts it down with a grace period, and forces it   *)
(* to end when its Control is lost.  Either of them releases what the      *)
(* launch acquired: the channel, the process group, the artifacts and the  *)
(* admission broker, in this order.                                        *)
(***************************************************************************)
EXTENDS Naturals, Sequences

VARIABLES
  state,     \* of the launch: "pending", "admitted", "cancelled" or "failed"
  stage,     \* of the startup, see Stages
  process,   \* "running", "killed" (a signal is on its way) or "exited"
  channel,   \* "none", "open" or "closed", as the Owner sees it
  runtime,   \* whether the Runtime object exists
  cleanups,  \* [launch, runtime] -> "no" or the next thing to release
  left,      \* what the launch acquired and has not released
  shutdown,  \* "no", "asked", "expired" or "done"
  forcing,   \* the timer that ends a child whose Control was lost
  disposed   \* dispose() of the launch was called

vars == <<state, stage, process, channel, runtime, cleanups, left, shutdown, forcing, disposed>>

\* Control admission, runtime.ready, the hidden presentation, the startup snapshot, its
\* comparison with the files it names, and the Runtime that waits to be taken over.
Stages == <<"admission", "ready", "hide", "snapshot", "compare", "constructed", "over">>
After(s) == Stages[(CHOOSE i \in 1..6 : Stages[i] = s) + 1]
Racing == {"admission", "ready", "hide", "snapshot"}

Owners == {"launch", "runtime"}
Order == <<"channel", "process", "artifacts", "broker", "done">>

Init ==
  /\ state = "pending" /\ stage = "admission"
  /\ process = "running" /\ channel = "none" /\ runtime = FALSE
  /\ cleanups = [o \in Owners |-> "no"]
  /\ left = {"process", "artifacts", "broker"}
  /\ shutdown = "no" /\ forcing = FALSE /\ disposed = FALSE

-----------------------------------------------------------------------------
(* Cleanup: once per owner, however often it is asked for.                 *)

Begin(o) == [cleanups EXCEPT ![o] = IF @ = "no" THEN Order[1] ELSE @]
NextRelease(o) == [cleanups EXCEPT ![o] = Order[(CHOOSE i \in 1..4 : Order[i] = @) + 1]]

Kill == process' = IF process = "running" THEN "killed" ELSE process

\* Mutant of NoticesLoss: a channel that had closed before is not noticed.
NoticesLaterLoss(ch, exists) == forcing \/ (ch = "closed" /\ runtime /\ process # "exited")
\* The Runtime learns of a closed channel, one that closed before it existed included.
NoticesLoss(ch, exists) == forcing \/ (ch = "closed" /\ exists /\ process # "exited")


\* completeCleanup: one thing after the other; the process is killed by the launch's
\* cleanup and waited for by both, since dispose() of the projection awaits its exit.
Clean(o) ==
  LET thing == cleanups[o]
  IN /\ thing \notin {"no", "done"}
     /\ thing = "process" => process = "exited"
     /\ cleanups' = NextRelease(o)
     /\ left' = left \ {thing}
     /\ channel' = IF thing = "channel" /\ channel = "open" THEN "closed" ELSE channel
     /\ forcing' = NoticesLoss(channel', runtime)
     /\ UNCHANGED <<state, stage, process, runtime, shutdown, disposed>>

\* forceKillProjection (launch) and the SIGHUP of the projection's dispose().
CleanKills(o) ==
  /\ cleanups[o] = "process" /\ process = "running" /\ Kill
  /\ UNCHANGED <<state, stage, channel, runtime, cleanups, left, shutdown, forcing, disposed>>

-----------------------------------------------------------------------------
(* The launch.                                                             *)

\* A stage is reached in time; the channel opens with the admission.
Advance ==
  /\ stage \in Racing \cup {"compare"}
  /\ stage \in Racing => state = "pending" /\ process # "exited" /\ channel # "closed"
  /\ stage' = After(stage)
  /\ channel' = IF stage = "admission" THEN "open" ELSE channel
  /\ left' = IF stage = "admission" THEN left \cup {"channel"} ELSE left
  /\ runtime' = (stage = "compare")
  /\ forcing' = NoticesLoss(channel, runtime')
  /\ UNCHANGED <<state, process, cleanups, shutdown, disposed>>

\* Its bound expires, the process exits, the child reports a fault, the channel closes, the
\* snapshot differs, or the cancellation wins: the launch cleans up.
Fail ==
  /\ stage \in Racing \cup {"compare"}
  /\ stage' = "over"
  /\ state' = IF state = "pending" THEN "failed" ELSE state
  /\ cleanups' = Begin("launch")
  /\ UNCHANGED <<process, channel, runtime, left, shutdown, forcing, disposed>>


\* The Runtime is taken over, unless the launch was cancelled meanwhile.
Admit ==
  /\ stage = "constructed" /\ stage' = "over"
  /\ state' = IF state = "pending" THEN "admitted" ELSE state
  /\ UNCHANGED <<process, channel, runtime, cleanups, left, shutdown, forcing, disposed>>

\* cancelInitialization
Cancel ==
  /\ state = "pending" /\ state' = "cancelled"
  /\ cleanups' = Begin("launch")
  /\ UNCHANGED <<stage, process, channel, runtime, left, shutdown, forcing, disposed>>

-----------------------------------------------------------------------------
(* The Runtime.                                                            *)

\* shutdown(), asked for once; the child may ignore it.
Shutdown ==
  /\ state = "admitted" /\ shutdown = "no" /\ shutdown' = "asked"
  /\ UNCHANGED <<state, stage, process, channel, runtime, cleanups, left, forcing, disposed>>

\* The grace period expires: the process is killed.
GraceExpires ==
  /\ shutdown = "asked" /\ process # "exited"
  /\ shutdown' = "expired" /\ Kill
  /\ UNCHANGED <<state, stage, channel, runtime, cleanups, left, forcing, disposed>>

\* dispose() of the launch, by its state.
Dispose ==
  /\ ~disposed /\ disposed' = TRUE
  /\ CASE state = "pending" -> /\ state' = "cancelled" /\ cleanups' = Begin("launch")
                               /\ UNCHANGED shutdown
       [] state = "admitted" -> /\ shutdown' = IF shutdown = "no" THEN "asked" ELSE shutdown
                                /\ UNCHANGED <<state, cleanups>>
       [] OTHER -> cleanups' = Begin("launch") /\ UNCHANGED <<state, shutdown>>
  /\ UNCHANGED <<stage, process, channel, runtime, left, forcing>>

\* The channel closes: the Runtime gives the process as long as a shutdown.
Disconnect ==
  /\ channel = "open" /\ channel' = "closed"
  /\ forcing' = NoticesLoss("closed", runtime)
  /\ UNCHANGED <<state, stage, process, runtime, cleanups, left, shutdown, disposed>>

ForceTimer ==
  /\ forcing /\ forcing' = FALSE /\ Kill
  /\ UNCHANGED <<state, stage, channel, runtime, cleanups, left, shutdown, disposed>>


-----------------------------------------------------------------------------
\* The process ends, of its own accord or killed; its Runtime, if any, cleans up.
Exit ==
  /\ process # "exited" /\ process' = "exited"
  /\ shutdown' = IF shutdown = "no" THEN "no" ELSE "done"
  /\ cleanups' = IF runtime THEN Begin("runtime") ELSE cleanups
  /\ UNCHANGED <<state, stage, channel, runtime, left, forcing, disposed>>

\* An exit that was seen before the Runtime existed is seen by it as it begins.
LateExit ==
  /\ runtime /\ process = "exited" /\ cleanups["runtime"] = "no"
  /\ cleanups' = Begin("runtime")
  /\ UNCHANGED <<state, stage, process, channel, runtime, left, shutdown, forcing, disposed>>

Next == \/ Advance \/ Fail \/ Admit \/ Cancel \/ Shutdown \/ GraceExpires \/ Dispose
        \/ Disconnect \/ ForceTimer \/ Exit \/ LateExit
        \/ \E o \in Owners : Clean(o) \/ CleanKills(o)

Spec == Init /\ [][Next]_vars

\* Startup is bounded, timers fire, cleanup goes on, a killed process ends.
FairSpec ==
  /\ Spec /\ WF_vars(Advance \/ Fail) /\ WF_vars(Admit)
  /\ WF_vars(GraceExpires) /\ WF_vars(ForceTimer) /\ WF_vars(LateExit)
  /\ \A o \in Owners : WF_vars(Clean(o)) /\ WF_vars(CleanKills(o))
  /\ WF_vars(process = "killed" /\ Exit)

-----------------------------------------------------------------------------
TypeOK ==
  /\ state \in {"pending", "admitted", "cancelled", "failed"}
  /\ process \in {"running", "killed", "exited"}
  /\ left \subseteq {"channel", "process", "artifacts", "broker"}

\* No child outlives its use: once its launch failed or was cancelled, its shutdown was
\* asked for, or its Control was lost, its process ends and all that the launch acquired
\* is released, whether or not the child still answers.
Doomed == state \in {"cancelled", "failed"} \/ shutdown # "no" \/ disposed \/ channel = "closed"
EveryChildEnds == Doomed ~> (process = "exited" /\ left = {})
=============================================================================
