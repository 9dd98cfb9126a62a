--------------------------- MODULE ModelSelection ---------------------------
(***************************************************************************)
(* The model an Agent's Runtime is started with.  The user's policy file   *)
(* excludes models and defines the entries of a Virtual Model              *)
(* (policy/workflow-policy.ts); the host works with the exclusions it last *)
(* published and reads the definitions again for every preparation; each   *)
(* child routes its requests by its own reading of the file               *)
(* (pi-integration/virtual-model-registration.ts).  A preparation          *)
(* (runtime/process-child-session-factory.ts) resolves the dormant         *)
(* ancestors of an Agent from the nearest live one downwards, prefers what *)
(* each Agent's own session records, and records what it falls back to     *)
(* before the launch.                                                      *)
(*                                                                         *)
(* A selection is a model and whether it runs on the preset levels of a    *)
(* Virtual Model's entries; the explicit levels themselves, the tools,     *)
(* skills, prompt and directory of a configuration are left out.  One      *)
(* Virtual Model stands for all.  A Moderator is an Agent whose parent is  *)
(* the Owner.                                                              *)
(***************************************************************************)
EXTENDS Integers, Sequences, FiniteSets

CONSTANTS Children,     \* the Agents that are spawned
          Root,         \* the Owner
          Spawner,      \* Spawner[a]: the direct spawner of a child
          RealModels,   \* the models the Owner's catalogue offers
          Virtual,      \* the Virtual Model
          Provider,     \* Provider[m]: the provider of a model
          Lists,        \* the exclusions written by hand or by another host
          Definitions,  \* the entry lists a user gives the Virtual Model; <<>> for none
          Asked,        \* Asked[a]: the model configuration of the spawn
          Candidates,   \* Candidates[a]: the models of its Template, <<>> for none
          OwnerModel,   \* the model the Owner's session begins with
          NoModel,
          MaxChanges    \* edits, selections of a user, failures and restarts

Models    == RealModels \union {Virtual}
Providers == {Provider[m] : m \in Models}
Entries   == Models \union Providers
Explicit(m) == [model |-> m, preset |-> FALSE]
NoSelection == Explicit(NoModel)
Selections  == [model : Models, preset : BOOLEAN]
Default     == [excluded |-> {}, virtual |-> <<>>]
Policies    == [excluded : SUBSET Entries, virtual : Definitions]

ASSUME ModelAssumption ==
  /\ IsFiniteSet(Children) /\ Root \notin Children /\ Spawner \in [Children -> Children \union {Root}]
  /\ Virtual \notin RealModels /\ NoModel \notin Models /\ OwnerModel \in Models
  /\ Lists \subseteq SUBSET Entries
  /\ <<>> \in Definitions /\ Definitions \subseteq Seq(RealModels)
  /\ Asked \in [Children -> [says : {"nothing", "inherit", "model"}, selection : Selections]]
  /\ Candidates \in [Children -> Seq(Selections)]

VARIABLES
  file,       \* the policy file: a policy, and whether it can be read
  published,  \* WorkflowPolicyStore.#snapshot
  known,      \* #virtualModels of the factory; <<>> while the file is invalid
  surface,    \* the Owner's menu that edits the policy, and its save
  other,      \* the save of another host of the same user
  owner,      \* the model of the Owner's session
  recorded,   \* what an Agent's session records: a model, and the mode of the Virtual Model
  first,      \* firstPreparation: prepared by the spawn, not yet launched
  prep,       \* the preparation under way
  live,       \* the model a child's Runtime runs on
  routing,    \* the child's registrar: its policy, and the model that served last
  snapshot,   \* agentTemplateSnapshot: the models its Template guidance may name
  changes

modelVars == <<file, published, known, surface, other, owner, recorded, first, prep, live,
               routing, snapshot, changes>>

Change == changes < MaxChanges /\ changes' = changes + 1
-----------------------------------------------------------------------------
(* Which models may be used. *)

Excluded(entries, m) == m \in entries \/ Provider[m] \in entries

\* The first of some positions of a list.
FirstOf(list, at) == list[CHOOSE i \in at : \A j \in at : i <= j]

\* The first entry that is not excluded serves the Virtual Model.
FirstUsable(entries, definition) ==
  LET ok == {i \in DOMAIN definition : ~Excluded(entries, definition[i])}
  IN  IF ok = {} THEN NoModel ELSE FirstOf(definition, ok)

Available(entries, definition, m) ==
  /\ ~Excluded(entries, m)
  /\ m = Virtual => FirstUsable(entries, definition) # NoModel

Guidance(entries, definition) == {m \in Models : Available(entries, definition, m)}

Refusal == [ok |-> FALSE, selection |-> NoSelection]

\* Preset levels are those of a Virtual Model, which needs an entry that is usable.
Picks(sel, entries, definition) ==
  IF sel.preset /\ (sel.model # Virtual \/ FirstUsable(entries, definition) = NoModel)
    THEN Refusal ELSE [ok |-> TRUE, selection |-> sel]

\* Mutant of Offers: an exclusion does not reach the candidates of a Template.
OffersEvery(a, entries, definition) == DOMAIN Candidates[a]
Offers(a, entries, definition) ==
  {i \in DOMAIN Candidates[a] : Available(entries, definition, Candidates[a][i].model)}

\* What an Agent starts with while its session records nothing usable.
Initial(a, inherited, entries, definition) ==
  LET asked  == Asked[a].selection
      usable == Offers(a, entries, definition)
      choice == CASE Asked[a].says = "model" -> asked
                  [] Asked[a].says = "nothing" /\ usable # {} -> FirstOf(Candidates[a], usable)
                  [] OTHER -> [model |-> inherited, preset |-> asked.preset]
      failed == \/ Asked[a].says = "model" /\ ~Available(entries, definition, asked.model)
                \/ Asked[a].says = "nothing" /\ Candidates[a] # <<>> /\ usable = {}
  IN  IF failed THEN Refusal ELSE Picks(choice, entries, definition)

Usable(sel, entries, definition) ==
  sel # NoSelection /\ Available(entries, definition, sel.model)

\* A recorded selection that is usable replaces the initial values.  One that is
\* not, of a model the initial values come back to, keeps its own level, not the
\* preset ones.
Resolve(a, sel, inherited, entries, definition) ==
  LET initial == Initial(a, inherited, entries, definition)
  IN  IF Usable(sel, entries, definition) THEN Picks(sel, entries, definition)
      ELSE IF initial.ok /\ initial.selection.model = sel.model
             THEN [initial EXCEPT !.selection.preset = FALSE]
             ELSE initial

-----------------------------------------------------------------------------
(* What a session records.  The mode of the Virtual Model outlives a       *)
(* change of the model.                                                    *)

Recorded(rec) == [model |-> rec.model, preset |-> rec.model = Virtual /\ rec.mode = "preset"]
Created(a)    == recorded[a].model # NoModel

\* Mutant of Recording: the mode is recorded only when it is the preset one.
RecordsPresetOnly(rec, sel) ==
  IF Recorded(rec) = sel THEN rec
  ELSE [model |-> sel.model, mode |-> IF sel.preset THEN "preset" ELSE rec.mode]
Recording(rec, sel) ==
  IF Recorded(rec) = sel THEN rec
  ELSE [model |-> sel.model,
        mode  |-> IF sel.model # Virtual THEN rec.mode
                  ELSE IF sel.preset THEN "preset" ELSE "explicit"]

\* The user leaves the preset levels, by another level or another model.
EndsPreset(rec) == IF Recorded(rec).preset THEN [rec EXCEPT !.mode = "explicit"] ELSE rec

-----------------------------------------------------------------------------
(* The policy file and the two menus that edit it. *)

Text(ok, policy) == [ok |-> ok, policy |-> policy]
Reads(old)       == IF file.ok THEN file.policy ELSE old
DefinitionsRead(text) == IF text.ok THEN text.policy.virtual ELSE <<>>
With(policy, field, value) == IF field = "excluded" THEN [policy EXCEPT !.excluded = value]
                                                    ELSE [policy EXCEPT !.virtual = value]
Value(policy, field) == IF field = "excluded" THEN policy.excluded ELSE policy.virtual

Closed == [at |-> "closed", field |-> "none", shows |-> {}, next |-> {}, base |-> Default, todo |-> {}]
NoSave == [at |-> "idle", field |-> "none", next |-> {}, base |-> Default]

HandEdit(text) ==
  /\ Change /\ file # text /\ file' = text
  /\ UNCHANGED <<published, known, surface, other, owner, recorded, first, prep, live, routing, snapshot>>

\* The rows of a provider, or of every provider, as a search leaves them.
Rows    == {Models, RealModels}
Locked(entries, m)  == Provider[m] \in entries
Toggled(entries)    ==
  {IF p \in entries THEN entries \ {p} ELSE entries \union {p} : p \in Providers} \union
  {IF m \in entries THEN entries \ {m} ELSE entries \union {m} :
     m \in {n \in Models : ~Locked(entries, n)}}
Allowed(entries, rows) == entries \ (rows \union {Provider[m] : m \in rows})
Banned(entries, rows)  == entries \union {m \in rows : ~Excluded(entries, m)}
NextExclusions(entries) ==
  Toggled(entries) \union UNION {{Allowed(entries, r), Banned(entries, r)} : r \in Rows}

SurfaceUnchanged ==
  UNCHANGED <<other, owner, recorded, first, live, routing>>

OpenSurface(field) ==
  /\ surface.at = "closed" /\ Change
  /\ field = "virtual" => file.ok
  /\ surface' = [Closed EXCEPT !.at = "open", !.field = field,
                   !.shows = IF field = "excluded" THEN published.excluded ELSE file.policy.virtual]
  /\ SurfaceUnchanged /\ UNCHANGED <<file, published, known, prep, snapshot>>

\* Input is refused while a save is under way: the next change derives from it.
Commit(field, value) ==
  /\ surface.at = "open" /\ surface.field = field /\ Change
  /\ field = "excluded" => value \in NextExclusions(surface.shows)
  /\ surface' = [surface EXCEPT !.at = "saving", !.next = value]
  /\ SurfaceUnchanged /\ UNCHANGED <<file, published, known, prep, snapshot>>

\* rewritePolicyField refuses a file it cannot read back.
ReadForSave ==
  /\ surface.at = "saving"
  /\ surface' = IF file.ok THEN [surface EXCEPT !.at = "writing", !.base = file.policy]
                           ELSE [surface EXCEPT !.at = "open", !.next = {}]
  /\ SurfaceUnchanged /\ UNCHANGED <<file, published, known, prep, snapshot, changes>>

WriteSave ==
  /\ surface.at = "writing"
  /\ file' = Text(TRUE, With(surface.base, surface.field, surface.next))
  /\ surface' = [surface EXCEPT !.at = "written", !.base = Default]
  /\ SurfaceUnchanged /\ UNCHANGED <<published, known, prep, snapshot, changes>>

WriteFails ==
  /\ surface.at = "writing"
  /\ surface' = [surface EXCEPT !.at = "open", !.base = Default, !.next = {}]
  /\ SurfaceUnchanged /\ UNCHANGED <<file, published, known, prep, snapshot, changes>>

\* A preparation under way keeps the models that were banned all along.
StillBanned(policy) ==
  [a \in Children |-> [prep[a] EXCEPT !.banned = {m \in prep[a].banned : Excluded(policy.excluded, m)}]]

Publish ==
  /\ surface.at = "written"
  /\ published' = With(published, surface.field, surface.next)
  /\ prep' = StillBanned(published')
  /\ surface' = [surface EXCEPT !.at = "refresh", !.next = {},
                   !.todo = {Root} \union {a \in Children : Created(a)}]
  /\ SurfaceUnchanged /\ UNCHANGED <<file, known, snapshot, changes>>

Closes ==
  /\ surface.at = "open" /\ surface' = Closed
  /\ SurfaceUnchanged /\ UNCHANGED <<file, published, known, prep, snapshot, changes>>

\* Another host of the user: the same rewrite, with no lock between them.
OtherReads(field, value) ==
  /\ other.at = "idle" /\ Change /\ file.ok
  /\ other' = [at |-> "writing", field |-> field, next |-> value, base |-> file.policy]
  /\ UNCHANGED <<file, published, known, surface, owner, recorded, first, prep, live, routing, snapshot>>

OtherWrites ==
  /\ other.at = "writing"
  /\ file' = Text(TRUE, With(other.base, other.field, other.next)) /\ other' = NoSave
  /\ UNCHANGED <<published, known, surface, owner, recorded, first, prep, live, routing, snapshot, changes>>

-----------------------------------------------------------------------------
(* Template guidance. *)

Records == {Root} \union {a \in Children : Created(a)}
Captures(x) ==
  /\ known' = DefinitionsRead(file)
  /\ snapshot' = [snapshot EXCEPT ![x] = Guidance(published.excluded, known')]

\* After a change of the policy every record is captured again; one that cannot
\* be resolved keeps its previous snapshot.
Refresh(x) ==
  /\ surface.at = "refresh" /\ x \in surface.todo
  /\ surface' = [surface EXCEPT !.todo = @ \ {x}]
  /\ Captures(x) \/ UNCHANGED <<known, snapshot>>
  /\ SurfaceUnchanged /\ UNCHANGED <<file, published, prep, changes>>

Saved ==
  /\ surface.at = "refresh" /\ surface.todo = {}
  /\ surface' = [surface EXCEPT !.at = "open", !.shows =
       IF surface.field = "excluded" THEN published.excluded ELSE Reads(published).virtual]
  /\ SurfaceUnchanged /\ UNCHANGED <<file, published, known, prep, snapshot, changes>>

-----------------------------------------------------------------------------
(* A preparation. *)

NoPrep == [at |-> "none", spawn |-> FALSE, cached |-> FALSE, path |-> <<>>,
           inherited |-> NoModel, sel |-> NoSelection, banned |-> {}, read |-> <<>>]
NoFirst == [sel |-> NoSelection, snapshot |-> {}]
Asleep(a) == live[a] = NoModel
Alive(x)  == x \in {Root} \union {a \in Children : ~Asleep(a)}

PrepUnchanged == UNCHANGED <<file, published, surface, other, owner>>

\* The path of the dormant ancestors of a, the one under the nearest live Agent first.
Lineages == UNION {[1..n -> Children] : n \in 0..Cardinality(Children)}
Dormant(a) ==
  {above \in Lineages :
     LET path == Append(above, a)
     IN  \A i \in DOMAIN path : IF i = 1 THEN Alive(Spawner[path[i]])
                                ELSE ~Alive(path[i - 1]) /\ path[i - 1] = Spawner[path[i]]}
Nearest(path) == Spawner[Head(path).agent]

Begins(a, spawns) ==
  [NoPrep EXCEPT !.at = "asked", !.spawn = spawns,
                 !.banned = {m \in Models : Excluded(published.excluded, m)}]

\* agent_spawn runs in a tool call of the parent.
Spawn(a) ==
  /\ ~Created(a) /\ prep[a] = NoPrep /\ Alive(Spawner[a])
  /\ prep' = [prep EXCEPT ![a] = Begins(a, TRUE)]
  /\ PrepUnchanged /\ UNCHANGED <<known, recorded, first, live, routing, snapshot, changes>>

\* startSession of the child's record: the first time it may use what the spawn prepared.
StartSession(a) ==
  /\ Created(a) /\ Asleep(a) /\ prep[a] = NoPrep
  /\ IF first[a] # NoFirst
       THEN /\ prep' = [prep EXCEPT ![a] = [NoPrep EXCEPT !.at = "boot", !.cached = TRUE,
                                                         !.sel = first[a].sel]]
            /\ snapshot' = [snapshot EXCEPT ![a] = first[a].snapshot]
            /\ first' = [first EXCEPT ![a] = NoFirst]
       ELSE prep' = [prep EXCEPT ![a] = Begins(a, FALSE)] /\ UNCHANGED <<first, snapshot>>
  /\ PrepUnchanged /\ UNCHANGED <<known, recorded, live, routing, changes>>

\* The launch contract, a directory, an extension or the launch itself fails.
PrepFails(a) ==
  /\ prep[a] # NoPrep /\ Change
  /\ prep' = [prep EXCEPT ![a] = NoPrep]
  /\ PrepUnchanged /\ UNCHANGED <<known, recorded, first, live, routing, snapshot>>

\* #refreshVirtualModels: the file is read, and later becomes what is known.
ReadDefinitions(a) ==
  /\ prep[a].at \in {"asked", "capture"}
  /\ prep' = [prep EXCEPT ![a] =
       [prep[a] EXCEPT !.at = IF prep[a].at = "asked" THEN "read" ELSE "captured",
                       !.read = DefinitionsRead(file)]]
  /\ PrepUnchanged /\ UNCHANGED <<known, recorded, first, live, routing, snapshot, changes>>

\* In one piece: the definitions, the own recorded selection, and the dormant
\* ancestors with what their sessions record, up to the nearest live Agent.
Climb(a) ==
  /\ prep[a].at = "read"
  /\ known' = prep[a].read
  /\ \E above \in Dormant(a) :
       LET step(x) == [agent |-> x, sel |-> Recorded(recorded[x])]
           path    == Append([i \in DOMAIN above |-> step(above[i])],
                             [agent |-> a, sel |-> IF prep[a].spawn THEN NoSelection
                                                   ELSE Recorded(recorded[a])])
           asks    == Nearest(path) # Root
       IN  prep' = [prep EXCEPT ![a] =
             [prep[a] EXCEPT !.at = IF asks THEN "sync" ELSE "resolve", !.path = path, !.read = <<>>,
                             !.inherited = IF asks THEN NoModel ELSE owner]]
  /\ PrepUnchanged /\ UNCHANGED <<recorded, first, live, routing, snapshot, changes>>

\* A live ancestor is asked for its current model; one that is gone fails the preparation.
Sync(a) ==
  /\ prep[a].at = "sync"
  /\ LET source == Nearest(prep[a].path)
     IN  prep' = [prep EXCEPT ![a] =
           IF Asleep(source) THEN NoPrep
           ELSE [prep[a] EXCEPT !.at = "resolve", !.inherited = live[source]]]
  /\ PrepUnchanged /\ UNCHANGED <<known, recorded, first, live, routing, snapshot, changes>>

\* The Agents of the path one after another; each but the last only lends its model.
ResolveNext(a) ==
  /\ prep[a].at = "resolve"
  /\ LET top == Head(prep[a].path)
         got == Resolve(top.agent, top.sel, prep[a].inherited, published.excluded, known)
     IN  prep' = [prep EXCEPT ![a] =
           IF ~got.ok THEN NoPrep
           ELSE IF Len(prep[a].path) > 1
             THEN [prep[a] EXCEPT !.path = Tail(@), !.inherited = got.selection.model]
             ELSE [prep[a] EXCEPT !.at = "capture", !.path = <<>>, !.sel = got.selection]]
  /\ PrepUnchanged /\ UNCHANGED <<known, recorded, first, live, routing, snapshot, changes>>

\* The guidance is captured.  A spawn commits the Identity and records the
\* selection; a later preparation records it when it differs (#keepSelectionRecorded).
Keep(a) ==
  /\ prep[a].at = "captured"
  /\ known' = prep[a].read
  /\ LET guidance == Guidance(published.excluded, known')
     IN  /\ snapshot' = [snapshot EXCEPT ![a] = guidance]
         /\ recorded' = [recorded EXCEPT ![a] = Recording(@, prep[a].sel)]
         /\ IF prep[a].spawn
              THEN /\ first' = [first EXCEPT ![a] = [sel |-> prep[a].sel, snapshot |-> guidance]]
                   /\ prep' = [prep EXCEPT ![a] = NoPrep]
              ELSE /\ prep' = [prep EXCEPT ![a] = [prep[a] EXCEPT !.at = "boot", !.read = <<>>]]
                   /\ UNCHANGED first
  /\ PrepUnchanged /\ UNCHANGED <<live, routing, changes>>

\* The child is ready; its registrar has read the file.
Ready(a) ==
  /\ prep[a].at = "boot"
  /\ live' = [live EXCEPT ![a] = prep[a].sel.model]
  /\ routing' = [routing EXCEPT ![a] = [policy |-> Reads(Default), serves |-> NoModel]]
  /\ prep' = [prep EXCEPT ![a] = NoPrep]
  /\ PrepUnchanged /\ UNCHANGED <<known, recorded, first, snapshot, changes>>

-----------------------------------------------------------------------------
(* A live Runtime, and the host. *)

LiveUnchanged == UNCHANGED <<file, published, known, surface, other, first, prep, snapshot>>

Select(a, m) ==
  /\ ~Asleep(a) /\ Change
  /\ recorded' = [recorded EXCEPT ![a] = [EndsPreset(@) EXCEPT !.model = m]]
  /\ live' = [live EXCEPT ![a] = m]
  /\ LiveUnchanged /\ UNCHANGED <<owner, routing>>

SelectThinking(a) ==
  /\ ~Asleep(a) /\ Recorded(recorded[a]).preset /\ Change
  /\ recorded' = [recorded EXCEPT ![a] = EndsPreset(@)]
  /\ LiveUnchanged /\ UNCHANGED <<owner, live, routing>>

SelectOwner(m) ==
  /\ owner # m /\ Change /\ owner' = m
  /\ LiveUnchanged /\ UNCHANGED <<recorded, live, routing>>

NoRouting == [policy |-> Default, serves |-> NoModel]

\* A request of a Virtual Model: a continuation or a retry stays with the model
\* that served before while it is usable; otherwise the first usable entry
\* serves.  With no usable entry, or no definition, the request fails.
Routes(policy, serves, stays) ==
  IF /\ stays /\ \E i \in DOMAIN policy.virtual : policy.virtual[i] = serves
     /\ ~Excluded(policy.excluded, serves)
    THEN serves ELSE FirstUsable(policy.excluded, policy.virtual)
Route(a, stays) ==
  /\ live[a] = Virtual
  /\ LET policy == Reads(routing[a].policy)
     IN  routing' = [routing EXCEPT ![a] =
           [policy |-> policy, serves |-> Routes(policy, routing[a].serves, stays)]]
  /\ LiveUnchanged /\ UNCHANGED <<owner, recorded, live, changes>>

Ends(a) ==
  /\ ~Asleep(a)
  /\ live' = [live EXCEPT ![a] = NoModel] /\ routing' = [routing EXCEPT ![a] = NoRouting]
  /\ LiveUnchanged /\ UNCHANGED <<owner, recorded, changes>>

\* An Agent asks for fresh guidance.
Recapture(x) ==
  /\ Alive(x) /\ Captures(x)
  /\ UNCHANGED <<file, published, surface, other, owner, recorded, first, prep, live, routing, changes>>

\* The Owner is admitted again, by a new process or by /reload; only a reload
\* has a previous policy to fall back to.  Agents are recovered from their sessions.
AdmitOwner(reload) ==
  /\ Change
  /\ published' = Reads(IF reload THEN published ELSE Default)
  /\ known' = DefinitionsRead(file)
  /\ surface' = Closed
  /\ first' = [a \in Children |-> NoFirst] /\ prep' = [a \in Children |-> NoPrep]
  /\ live' = [a \in Children |-> NoModel] /\ routing' = [a \in Children |-> NoRouting]
  /\ snapshot' = [x \in Children \union {Root} |->
                    IF x = Root THEN Guidance(published'.excluded, known') ELSE {}]
  /\ UNCHANGED <<file, other, owner, recorded>>
-----------------------------------------------------------------------------
SelectionInit ==
  /\ file \in {Text(TRUE, [excluded |-> {}, virtual |-> d]) : d \in Definitions}
  /\ published = file.policy /\ known = file.policy.virtual
  /\ surface = Closed /\ other = NoSave
  /\ owner = OwnerModel
  /\ recorded = [a \in Children |-> [model |-> NoModel, mode |-> "none"]]
  /\ first = [a \in Children |-> NoFirst] /\ prep = [a \in Children |-> NoPrep]
  /\ live = [a \in Children |-> NoModel] /\ routing = [a \in Children |-> NoRouting]
  /\ snapshot = [x \in Children \union {Root} |->
                   IF x = Root THEN Guidance(published.excluded, known) ELSE {}]
  /\ changes = 0

\* What the user may write by hand: a policy, or text that is none.
Texts == {Text(FALSE, Default)} \union
         {Text(TRUE, p) : p \in [excluded : Lists, virtual : Definitions]}

MenuStep ==
  \/ \E f \in {"excluded", "virtual"} : OpenSurface(f)
  \/ \E value \in SUBSET Entries : Commit("excluded", value)
  \/ \E value \in Definitions : Commit("virtual", value)
  \/ ReadForSave \/ WriteSave \/ WriteFails \/ Publish \/ Saved \/ Closes
  \/ \E x \in Children \union {Root} : Refresh(x)
  \/ \E text \in Texts : HandEdit(text)
  \/ \E value \in Lists : OtherReads("excluded", value)
  \/ \E value \in Definitions : OtherReads("virtual", value)
  \/ OtherWrites

PrepStep(a) ==
  \/ Spawn(a) \/ StartSession(a) \/ PrepFails(a) \/ ReadDefinitions(a) \/ Climb(a) \/ Sync(a)
  \/ ResolveNext(a) \/ Keep(a) \/ Ready(a)

LiveStep(a) ==
  \/ \E m \in Models : Select(a, m)
  \/ SelectThinking(a) \/ Ends(a)
  \/ \E stays \in BOOLEAN : Route(a, stays)

SelectionNext ==
  \/ MenuStep
  \/ \E a \in Children : PrepStep(a) \/ LiveStep(a)
  \/ \E x \in Children \union {Root} : Recapture(x)
  \/ \E m \in Models : SelectOwner(m)
  \/ \E reload \in BOOLEAN : AdmitOwner(reload)

SelectionSpec == SelectionInit /\ [][SelectionNext]_modelVars

-----------------------------------------------------------------------------
SelectionTypeOK ==
  /\ file \in [ok : BOOLEAN, policy : Policies] /\ published \in Policies
  /\ known \in Definitions /\ owner \in Models
  /\ recorded \in [Children -> [model : Models \union {NoModel},
                                mode : {"none", "preset", "explicit"}]]
  /\ live \in [Children -> Models \union {NoModel}]
  /\ snapshot \in [Children \union {Root} -> SUBSET Models]
  /\ \A a \in Children : /\ prep[a].banned \subseteq Models
                         /\ first[a].sel \in Selections \union {NoSelection}
                         /\ prep[a].sel \in Selections \union {NoSelection}

(* A Runtime starts on a model that was excluded from the beginning of its  *)
(* preparation to the end only when it inherits the model (docs/workflow-   *)
(* policy.md: exclusions do not reach inheritance), whatever the sessions   *)
(* of the Agent and of its dormant ancestors record, and however the policy *)
(* is edited meanwhile.  What a spawn prepared and its deferred boot uses   *)
(* much later is not held to it (firstPreparation).                         *)
BansAreFollowed ==
  \A a \in Children :
    /\ prep[a].at \in {"capture", "captured", "boot"} /\ ~prep[a].cached
    /\ prep[a].sel.model \in prep[a].banned
    => prep[a].sel.model = prep[a].inherited

(* An Agent's session always names what its Runtime runs on: a launch, also *)
(* one prepared long before, starts exactly the recorded selection, with    *)
(* the preset levels only if they are recorded, and a live Runtime's model  *)
(* is the recorded one.                                                     *)
SelectionIsRecorded ==
  \A a \in Children :
    /\ prep[a].at = "boot" => prep[a].sel = Recorded(recorded[a])
    /\ first[a] # NoFirst => first[a].sel = Recorded(recorded[a])
    /\ ~Asleep(a) => live[a] = recorded[a].model
=============================================================================
