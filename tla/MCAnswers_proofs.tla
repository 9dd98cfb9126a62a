-------------------------- MODULE MCAnswers_proofs --------------------------
(***************************************************************************)
(* What a Runtime is launched with (ModelSelection) and the Owner it is    *)
(* launched for (OwnerAdmission), proved for any Agents, models, policies  *)
(* and sessions.                                                           *)
(*                                                                         *)
(* Models: both properties are about the end of a preparation, which takes *)
(* many steps while the policy, the sessions and other Runtimes change.    *)
(* The invariant says what a preparation has at each of its stages, and    *)
(* that nothing else touches the Agent meanwhile: it does not run, and no  *)
(* earlier preparation of its spawn is left.                               *)
(***************************************************************************)
EXTENDS MCAnswers, FiniteSetTheorems, WellFoundedInduction, TLAPS

-----------------------------------------------------------------------------
(* The models. *)

Stages == {"none", "asked", "read", "sync", "resolve", "capture", "captured", "boot"}
AnySelection == Selections \union {NoSelection}
PathStep == [agent : Children, sel : AnySelection]
SessionRecord == [model : Models \union {NoModel}, mode : {"none", "preset", "explicit"}]
Preparations ==
  [at : Stages, spawn : BOOLEAN, cached : BOOLEAN, path : Seq(PathStep),
   inherited : Models \union {NoModel}, sel : AnySelection, banned : SUBSET Models,
   read : Definitions]

\* What is known of one Agent: its preparation, what its spawn prepared, what its session
\* records, the model of its Runtime, and the exclusions the host published.
Sound(p, f, rec, runs, entries) ==
  /\ p # NoPrep => runs = NoModel /\ f = NoFirst
  /\ f # NoFirst => runs = NoModel /\ rec.model # NoModel /\ f.sel = Recorded(rec)
  /\ runs # NoModel => runs = rec.model
  /\ p.spawn => rec.model = NoModel
  /\ p.at \in {"sync", "resolve"} => p.path # <<>>
  /\ p.at = "sync" => Nearest(p.path) \in Children
  /\ p.at \in {"resolve", "capture", "captured"} => p.inherited \in Models
  /\ p.at \in {"capture", "captured"} => p.sel \in Selections /\ (p.sel.preset => p.sel.model = Virtual)
  /\ p.at = "boot" => p.sel = Recorded(rec)
  /\ \A m \in p.banned : Excluded(entries, m)
  /\ p.at \in {"capture", "captured", "boot"} /\ ~p.cached /\ p.sel.model \in p.banned
       => p.sel.model = p.inherited

AgentsInv ==
  /\ prep \in [Children -> Preparations]
  /\ first \in [Children -> [sel : AnySelection, snapshot : SUBSET Models]]
  /\ recorded \in [Children -> SessionRecord]
  /\ live \in [Children -> Models \union {NoModel}]
  /\ \A a \in Children : Sound(prep[a], first[a], recorded[a], live[a], published.excluded)

Values(field) == IF field = "excluded" THEN SUBSET Entries ELSE Definitions

SurfaceShape ==
  surface = [at |-> surface.at, field |-> surface.field, shows |-> surface.shows,
             next |-> surface.next, base |-> surface.base, todo |-> surface.todo]

PolicyInv ==
  /\ file \in [ok : BOOLEAN, policy : Policies] /\ published \in Policies
  /\ known \in Definitions /\ owner \in Models
  /\ SurfaceShape
  /\ surface.at = "writing" => surface.base \in Policies
  /\ surface.at \in {"saving", "writing", "written"} => surface.next \in Values(surface.field)
  /\ other.at = "writing" => other.base \in Policies /\ other.next \in Values(other.field)

ModelInv == PolicyInv /\ AgentsInv

\* The first of some positions of a list is one of them.
LEMMA FirstIsOne ==
  ASSUME NEW list, NEW at \in SUBSET Nat, at # {}
  PROVE  \E i \in at : FirstOf(list, at) = list[i]
  <1>1. PICK i \in at : \A j \in at : <<j, i>> \notin OpToRel(<, Nat)
    BY NatLessThanWellFounded, WFMin
  <1>2. \A j \in at : i \in Nat /\ j \in Nat /\ ~(j < i)
    BY <1>1, Zenon DEF OpToRel
  <1>3. \A j \in at : i <= j
    BY <1>2
  <1>4. (CHOOSE k \in at : \A j \in at : k <= j) \in at
    BY <1>3
  <1> QED BY <1>4 DEF FirstOf

\* A selection that Initial comes to is of the model it inherits, or of one not excluded,
\* and has preset levels only if it is of the Virtual Model.
LEMMA InitialFacts ==
  ASSUME NEW a \in Children, NEW inherited \in Models, NEW entries, NEW definition,
         Initial(a, inherited, entries, definition).ok
  PROVE  LET got == Initial(a, inherited, entries, definition)
         IN  /\ got = [ok |-> TRUE, selection |-> got.selection] /\ got.selection \in Selections
             /\ got.selection.preset => got.selection.model = Virtual
             /\ got.selection.model = inherited \/ ~Excluded(entries, got.selection.model)
  <1> DEFINE usable  == Offers(a, entries, definition)
             offered == FirstOf(Candidates[a], usable)
             demands == Asked[a].selection
             says    == Asked[a].says
             lent    == [model |-> inherited, preset |-> demands.preset]
             got     == Initial(a, inherited, entries, definition)
  <1>1. demands \in Selections /\ says \in {"nothing", "inherit", "model"}
    BY ModelAssumption
  <1>2. Candidates[a] \in Seq(Selections) /\ usable \subseteq DOMAIN Candidates[a]
        /\ usable \subseteq Nat
    BY ModelAssumption DEF Offers
  <1>3. ASSUME usable # {} PROVE offered \in Selections /\ ~Excluded(entries, offered.model)
    <2>1. PICK i \in usable : offered = Candidates[a][i]
      BY <1>2, <1>3, FirstIsOne
    <2>2. Candidates[a][i] \in Selections
      BY <1>2
    <2> QED BY <2>1, <2>2 DEF Offers, Available
  <1>4. lent \in Selections
    BY <1>1 DEF Selections
  <1> HIDE DEF usable, offered, demands, says, lent
  <1>5. \E c \in Selections : /\ c.model = inherited \/ ~Excluded(entries, c.model)
                              /\ got = Picks(c, entries, definition)
    <2>1. CASE says = "model" /\ Available(entries, definition, demands.model)
      <3>1. got = Picks(demands, entries, definition)
        BY <2>1, <1>1, Zenon DEF Initial, usable, demands, says
      <3> QED BY <2>1, <3>1, <1>1 DEF Available
    <2>2. CASE says = "nothing" /\ usable # {}
      <3>1. got = Picks(offered, entries, definition)
        BY <2>2 DEF Initial, usable, offered, says
      <3> QED BY <2>2, <3>1, <1>3
    <2>3. CASE says # "model" /\ ~(says = "nothing" /\ usable # {})
      <3>1. got \in {Picks(lent, entries, definition), Refusal}
        BY <2>3 DEF Initial, usable, says, lent, demands
      <3>2. got = Picks(lent, entries, definition)
        BY <3>1, got.ok DEF Refusal
      <3> QED BY <3>2, <1>4 DEF lent
    <2>4. CASE says = "model" /\ ~Available(entries, definition, demands.model)
      <3>1. got = Refusal
        BY <2>4 DEF Initial, demands, says
      <3> QED BY <3>1 DEF Refusal
    <2> QED BY <2>1, <2>2, <2>3, <2>4
  <1>6. PICK c \in Selections : /\ c.model = inherited \/ ~Excluded(entries, c.model)
                               /\ got = Picks(c, entries, definition)
    BY <1>5
  <1>7. got.ok
    OBVIOUS
  <1>8. got = [ok |-> TRUE, selection |-> c] /\ (c.preset => c.model = Virtual)
    BY <1>6, <1>7 DEF Picks, Refusal
  <1> QED BY <1>6, <1>8

LEMMA ResolveFacts ==
  ASSUME NEW a \in Children, NEW sel \in AnySelection, NEW inherited \in Models, NEW entries,
         NEW definition, Resolve(a, sel, inherited, entries, definition).ok
  PROVE  LET got == Resolve(a, sel, inherited, entries, definition)
         IN  /\ got.selection \in Selections
             /\ got.selection.preset => got.selection.model = Virtual
             /\ got.selection.model = inherited \/ ~Excluded(entries, got.selection.model)
  <1> DEFINE initial == Initial(a, inherited, entries, definition)
             got     == Resolve(a, sel, inherited, entries, definition)
  <1>1. CASE Usable(sel, entries, definition)
    <2>1. got = Picks(sel, entries, definition) /\ sel \in Selections /\ ~Excluded(entries, sel.model)
      BY <1>1 DEF Resolve, Usable, Available, AnySelection
    <2> QED BY <2>1 DEF Picks, Refusal
  <1>2. CASE ~Usable(sel, entries, definition)
    <2>1. got \in {initial, [initial EXCEPT !.selection.preset = FALSE]} /\ (initial.ok \/ got = initial)
      BY <1>2 DEF Resolve
    <2>2. initial.ok
      BY <2>1
    <2>3. /\ initial = [ok |-> TRUE, selection |-> initial.selection]
          /\ initial.selection \in Selections
          /\ initial.selection.preset => initial.selection.model = Virtual
          /\ initial.selection.model = inherited \/ ~Excluded(entries, initial.selection.model)
      BY <2>2, InitialFacts
    <2> HIDE DEF initial, got
    <2>4. CASE got = initial
      BY <2>3, <2>4 DEF got
    <2>5. CASE got = [initial EXCEPT !.selection.preset = FALSE]
      <3>1. got.selection = [initial.selection EXCEPT !.preset = FALSE]
        BY <2>3, <2>5
      <3> QED BY <2>3, <3>1 DEF Selections, got
    <2> QED BY <2>1, <2>4, <2>5 DEF got
  <1> QED BY <1>1, <1>2

\* What is read of the policy file is a policy.
LEMMA ReadFacts ==
  ASSUME PolicyInv
  PROVE  /\ DefinitionsRead(file) \in Definitions /\ <<>> \in Definitions
         /\ \A old \in Policies : Reads(old) \in Policies
         /\ Default \in Policies
  BY ModelAssumption DEF PolicyInv, DefinitionsRead, Reads, Policies, Default, Entries

LEMMA WithFacts ==
  ASSUME NEW policy \in Policies, NEW field, NEW value \in Values(field)
  PROVE  With(policy, field, value) \in Policies
  BY DEF With, Policies, Values

\* The menus, the other host and the Owner's model leave the Agents alone.
LEMMA AgentsStay ==
  ASSUME AgentsInv, UNCHANGED <<first, recorded, prep, live>>, published' = published
  PROVE  AgentsInv'
  BY DEF AgentsInv

LEMMA PolicyStays ==
  ASSUME PolicyInv, UNCHANGED <<file, published, surface, other, owner>>, known' \in Definitions
  PROVE  PolicyInv'
  BY DEF PolicyInv, SurfaceShape

\* A step of one Agent keeps what is known of the others.
LEMMA OneAgentMoves ==
  ASSUME AgentsInv, NEW a \in Children, published' = published,
         NEW p \in Preparations, prep' = [prep EXCEPT ![a] = p],
         NEW f \in [sel : AnySelection, snapshot : SUBSET Models], first' = [first EXCEPT ![a] = f],
         NEW rec \in SessionRecord, recorded' = [recorded EXCEPT ![a] = rec],
         NEW runs \in Models \union {NoModel}, live' = [live EXCEPT ![a] = runs],
         Sound(p, f, rec, runs, published.excluded)
  PROVE  AgentsInv'
  <1>1. /\ prep' \in [Children -> Preparations]
        /\ first' \in [Children -> [sel : AnySelection, snapshot : SUBSET Models]]
        /\ recorded' \in [Children -> SessionRecord]
        /\ live' \in [Children -> Models \union {NoModel}]
    BY DEF AgentsInv
  <1>2. ASSUME NEW b \in Children
        PROVE  Sound(prep'[b], first'[b], recorded'[b], live'[b], published'.excluded)
    <2>1. CASE b = a
      BY <2>1 DEF AgentsInv
    <2>2. CASE b # a
      <3>1. prep'[b] = prep[b] /\ first'[b] = first[b] /\ recorded'[b] = recorded[b] /\ live'[b] = live[b]
        BY <2>2 DEF AgentsInv
      <3> QED BY <3>1 DEF AgentsInv
    <2> QED BY <2>1, <2>2
  <1> QED BY <1>1, <1>2 DEF AgentsInv

\* What a step of an Agent leaves alone keeps its value there.
LEMMA SameHere ==
  ASSUME AgentsInv, NEW a \in Children
  PROVE  /\ prep = [prep EXCEPT ![a] = prep[a]] /\ prep[a] \in Preparations
         /\ first = [first EXCEPT ![a] = first[a]] /\ recorded = [recorded EXCEPT ![a] = recorded[a]]
         /\ live = [live EXCEPT ![a] = live[a]]
         /\ first[a] \in [sel : AnySelection, snapshot : SUBSET Models]
         /\ recorded[a] \in SessionRecord /\ live[a] \in Models \union {NoModel}
         /\ Sound(prep[a], first[a], recorded[a], live[a], published.excluded)
  BY DEF AgentsInv

LEMMA NoPrepFacts ==
  ASSUME PolicyInv
  PROVE  /\ NoPrep \in Preparations /\ NoFirst \in [sel : AnySelection, snapshot : SUBSET Models]
         /\ \A rec, runs, entries, f :
              /\ f # NoFirst => runs = NoModel /\ rec.model # NoModel /\ f.sel = Recorded(rec)
              /\ runs # NoModel => runs = rec.model
              => Sound(NoPrep, f, rec, runs, entries)
  <1>1. <<>> \in Definitions
    BY ReadFacts
  <1> QED BY <1>1 DEF NoPrep, NoFirst, Preparations, Stages, AnySelection, Sound

-----------------------------------------------------------------------------
LEMMA MenuKeeps ==
  ASSUME ModelInv, MenuStep
  PROVE  ModelInv'
  <1> USE DEF ModelInv
  <1>1. ASSUME NEW field \in {"excluded", "virtual"}, OpenSurface(field) PROVE ModelInv'
    BY <1>1, AgentsStay DEF OpenSurface, SurfaceUnchanged, PolicyInv, SurfaceShape, Closed, Change
  <1>2. ASSUME NEW field \in {"excluded", "virtual"}, NEW value \in Values(field),
               Commit(field, value)
        PROVE  ModelInv'
    BY <1>2, AgentsStay DEF Commit, SurfaceUnchanged, PolicyInv, SurfaceShape, Values
  <1>3. CASE ReadForSave
    BY <1>3, AgentsStay DEF ReadForSave, SurfaceUnchanged, PolicyInv, SurfaceShape
  <1>4. CASE WriteSave
    <2>1. With(surface.base, surface.field, surface.next) \in Policies
      BY <1>4, WithFacts DEF WriteSave, PolicyInv
    <2>2. file' \in [ok : BOOLEAN, policy : Policies]
      BY <1>4, <2>1 DEF WriteSave, Text
    <2> QED BY <1>4, <2>2, AgentsStay DEF WriteSave, SurfaceUnchanged, PolicyInv, SurfaceShape
  <1>5. CASE WriteFails
    BY <1>5, AgentsStay DEF WriteFails, SurfaceUnchanged, PolicyInv, SurfaceShape
  <1>6. CASE Publish
    <2>1. published' \in Policies
      BY <1>6, WithFacts DEF Publish, PolicyInv
    <2>2. PolicyInv'
      BY <1>6, <2>1 DEF Publish, SurfaceUnchanged, PolicyInv, SurfaceShape
    <2>3. ASSUME NEW a \in Children
          PROVE  /\ prep'[a] \in Preparations
                 /\ Sound(prep'[a], first[a], recorded[a], live[a], published'.excluded)
      <3> DEFINE kept == {m \in prep[a].banned : Excluded(published'.excluded, m)}
      <3>1. prep'[a] = [prep[a] EXCEPT !.banned = kept]
        BY <1>6 DEF Publish, StillBanned
      <3>2. prep[a] \in Preparations /\ Sound(prep[a], first[a], recorded[a], live[a], published.excluded)
        BY DEF AgentsInv
      <3>4. kept \subseteq prep[a].banned /\ \A m \in kept : Excluded(published'.excluded, m)
        OBVIOUS
      <3> HIDE DEF kept
      <3>3. ASSUME prep[a] = NoPrep PROVE prep'[a] = NoPrep
        <4>1. kept = {} /\ prep[a].banned = {}
          BY <3>3, <3>4 DEF NoPrep
        <4> QED BY <3>1, <3>3, <4>1 DEF NoPrep
      <3>5. prep'[a] \in Preparations
        BY <3>1, <3>2, <3>4 DEF Preparations
      <3> QED BY <3>1, <3>2, <3>3, <3>4, <3>5 DEF Sound, Preparations
    <2>4. prep' \in [Children -> Preparations] /\ UNCHANGED <<first, recorded, live>>
      BY <1>6, <2>3 DEF Publish, StillBanned, SurfaceUnchanged
    <2> QED BY <2>2, <2>3, <2>4 DEF AgentsInv
  <1>7. CASE Saved
    BY <1>7, AgentsStay DEF Saved, SurfaceUnchanged, PolicyInv, SurfaceShape
  <1>8. CASE Closes
    BY <1>8, AgentsStay DEF Closes, SurfaceUnchanged, PolicyInv, SurfaceShape, Closed
  <1>9. ASSUME NEW x, Refresh(x) PROVE ModelInv'
    <2>1. known' \in Definitions
      BY <1>9, ReadFacts DEF Refresh, Captures, PolicyInv
    <2> QED BY <1>9, <2>1, AgentsStay DEF Refresh, SurfaceUnchanged, PolicyInv, SurfaceShape
  <1>10. ASSUME NEW text \in Texts, HandEdit(text) PROVE ModelInv'
    <2>1. text \in [ok : BOOLEAN, policy : Policies]
      <3>1. CASE text = Text(FALSE, Default)
        BY <3>1, ReadFacts DEF Text
      <3>2. CASE text # Text(FALSE, Default)
        <4>1. PICK p \in [excluded : Lists, virtual : Definitions] : text = Text(TRUE, p)
          BY <3>2 DEF Texts
        <4>2. p \in Policies
          BY ModelAssumption DEF Policies
        <4> QED BY <4>1, <4>2 DEF Text
      <3> QED BY <3>1, <3>2
    <2> QED BY <1>10, <2>1, AgentsStay DEF HandEdit, PolicyInv, SurfaceShape
  <1>11. ASSUME NEW field \in {"excluded", "virtual"}, NEW value \in Values(field),
                OtherReads(field, value)
         PROVE  ModelInv'
    BY <1>11, AgentsStay DEF OtherReads, PolicyInv, SurfaceShape
  <1>12. CASE OtherWrites
    <2>1. With(other.base, other.field, other.next) \in Policies
      BY <1>12, WithFacts DEF OtherWrites, PolicyInv
    <2>2. file' \in [ok : BOOLEAN, policy : Policies]
      BY <1>12, <2>1 DEF OtherWrites, Text
    <2> QED BY <1>12, <2>2, AgentsStay DEF OtherWrites, PolicyInv, SurfaceShape, NoSave
  <1> QED
    <2>1. \A value \in SUBSET Entries : value \in Values("excluded")
      BY DEF Values
    <2>2. \A value \in Definitions : value \in Values("virtual")
      BY DEF Values
    <2>3. \A value \in Lists : value \in Values("excluded")
      BY ModelAssumption DEF Values
    <2> QED BY <2>1, <2>2, <2>3, <1>1, <1>2, <1>3, <1>4, <1>5, <1>6, <1>7, <1>8, <1>9, <1>10, <1>11,
               <1>12 DEF MenuStep

-----------------------------------------------------------------------------
LEMMA SpawnKeeps ==
  ASSUME ModelInv, NEW a \in Children, Spawn(a)
  PROVE  ModelInv'
  <1> DEFINE p == Begins(a, TRUE)
  <1>1. PolicyInv'
    BY PolicyStays DEF ModelInv, Spawn, PrepUnchanged, PolicyInv
  <1>2. prep[a] = NoPrep /\ recorded[a].model = NoModel /\ prep' = [prep EXCEPT ![a] = p]
    BY DEF Spawn, Created
  <1>3. p \in Preparations /\ p.at = "asked" /\ p.spawn /\ p.path = <<>>
        /\ \A m \in p.banned : Excluded(published.excluded, m)
    BY NoPrepFacts DEF ModelInv, Begins, NoPrep, Preparations, Stages
  <1>4. live[a] = NoModel /\ first[a] = NoFirst
    BY <1>2, SameHere DEF ModelInv, Sound
  <1> HIDE DEF p
  <1>5. Sound(p, first[a], recorded[a], live[a], published.excluded)
    BY <1>2, <1>3, <1>4 DEF Sound
  <1> QED BY ZenonT(60), <1>1, <1>2, <1>3, <1>5, SameHere, OneAgentMoves DEF ModelInv, Spawn, PrepUnchanged

LEMMA StartSessionKeeps ==
  ASSUME ModelInv, NEW a \in Children, StartSession(a)
  PROVE  ModelInv'
  <1>1. PolicyInv'
    BY PolicyStays DEF ModelInv, StartSession, PrepUnchanged, PolicyInv
  <1>2. Sound(NoPrep, first[a], recorded[a], live[a], published.excluded) /\ live[a] = NoModel
        /\ recorded[a].model # NoModel
    BY SameHere DEF ModelInv, StartSession, Asleep, Created
  <1>3. CASE first[a] # NoFirst
    <2> DEFINE p == [NoPrep EXCEPT !.at = "boot", !.cached = TRUE, !.sel = first[a].sel]
    <2>1. p \in Preparations /\ p.at = "boot" /\ p.cached /\ ~p.spawn /\ p.banned = {}
          /\ p.sel = first[a].sel
      BY NoPrepFacts, SameHere DEF ModelInv, NoPrep, Preparations, Stages
    <2>2. prep' = [prep EXCEPT ![a] = p] /\ first' = [first EXCEPT ![a] = NoFirst]
      BY <1>3 DEF StartSession
    <2> HIDE DEF p
    <2>3. Sound(p, NoFirst, recorded[a], live[a], published.excluded)
      BY <1>2, <1>3, <2>1 DEF Sound
    <2> QED BY ZenonT(60), <1>1, <2>1, <2>2, <2>3, NoPrepFacts, SameHere, OneAgentMoves
            DEF ModelInv, StartSession, PrepUnchanged
  <1>4. CASE first[a] = NoFirst
    <2> DEFINE p == Begins(a, FALSE)
    <2>1. p \in Preparations /\ p.at = "asked" /\ ~p.spawn
          /\ \A m \in p.banned : Excluded(published.excluded, m)
      BY NoPrepFacts DEF ModelInv, Begins, NoPrep, Preparations, Stages
    <2>2. prep' = [prep EXCEPT ![a] = p] /\ first' = first
      BY <1>4 DEF StartSession
    <2> HIDE DEF p
    <2>3. Sound(p, first[a], recorded[a], live[a], published.excluded)
      BY <1>2, <1>4, <2>1 DEF Sound
    <2> QED BY <1>1, <2>1, <2>2, <2>3, SameHere, OneAgentMoves
            DEF ModelInv, StartSession, PrepUnchanged
  <1> QED BY <1>3, <1>4

\* A preparation that ends without a launch leaves nothing behind.
LEMMA PrepFailsKeeps ==
  ASSUME ModelInv, NEW a \in Children, prep' = [prep EXCEPT ![a] = NoPrep],
         UNCHANGED <<file, published, surface, other, owner, known, recorded, first, live>>
  PROVE  ModelInv'
  <1>1. PolicyInv'
    BY PolicyStays DEF ModelInv, PolicyInv
  <1>2. Sound(NoPrep, first[a], recorded[a], live[a], published.excluded)
    BY SameHere, NoPrepFacts DEF ModelInv, Sound
  <1> QED BY <1>1, <1>2, NoPrepFacts, SameHere, OneAgentMoves DEF ModelInv

\* A step inside a preparation: only prep[a] and known change, and the Agent stays as
\* the preparation needs it.
LEMMA PrepMoves ==
  ASSUME ModelInv, NEW a \in Children, prep[a] # NoPrep, NEW p \in Preparations,
         prep' = [prep EXCEPT ![a] = p],
         UNCHANGED <<file, published, surface, other, owner, recorded, first, live>>,
         known' \in Definitions,
         p.spawn => prep[a].spawn, p.banned = prep[a].banned,
         p.at \in {"asked", "read", "sync", "resolve", "capture", "captured"},
         p.at \in {"sync", "resolve"} => p.path # <<>>,
         p.at = "sync" => Nearest(p.path) \in Children,
         p.at \in {"resolve", "capture", "captured"} => p.inherited \in Models,
         p.at \in {"capture", "captured"} =>
           /\ p.sel \in Selections /\ (p.sel.preset => p.sel.model = Virtual)
           /\ p.sel.model \in p.banned /\ ~p.cached => p.sel.model = p.inherited
  PROVE  ModelInv'
  <1>1. PolicyInv'
    BY PolicyStays DEF ModelInv
  <1>2. Sound(p, first[a], recorded[a], live[a], published.excluded)
    BY SameHere DEF ModelInv, Sound
  <1> QED BY ZenonT(60), <1>1, <1>2, SameHere, OneAgentMoves DEF ModelInv

LEMMA ReadDefinitionsKeeps ==
  ASSUME ModelInv, NEW a \in Children, ReadDefinitions(a)
  PROVE  ModelInv'
  <1> PICK p : p = [prep[a] EXCEPT !.at = IF prep[a].at = "asked" THEN "read" ELSE "captured",
                                   !.read = DefinitionsRead(file)]
    OBVIOUS
  <1>1. prep[a] \in Preparations /\ Sound(prep[a], first[a], recorded[a], live[a], published.excluded)
    BY SameHere DEF ModelInv
  <1>2. prep' = [prep EXCEPT ![a] = p] /\ prep[a].at \in {"asked", "capture"} /\ prep[a] # NoPrep
    BY <1>1 DEF ReadDefinitions, NoPrep, Preparations
  <1>3. /\ p \in Preparations /\ p.spawn = prep[a].spawn /\ p.banned = prep[a].banned
        /\ p.at \in {"read", "captured"} /\ p.path = prep[a].path /\ p.sel = prep[a].sel
        /\ p.inherited = prep[a].inherited /\ p.cached = prep[a].cached
        /\ p.at = "captured" => prep[a].at = "capture"
    BY <1>1, <1>2, ReadFacts DEF ModelInv, Preparations, Stages
  <1>4. p.at \in {"capture", "captured"} =>
           /\ p.inherited \in Models /\ p.sel \in Selections
           /\ p.sel.preset => p.sel.model = Virtual
           /\ p.sel.model \in p.banned /\ ~p.cached => p.sel.model = p.inherited
    BY <1>1, <1>3 DEF Sound
  <1>5. UNCHANGED <<file, published, surface, other, owner, recorded, first, live>> /\ known' \in Definitions
    BY DEF ModelInv, PolicyInv, ReadDefinitions, PrepUnchanged
  <1>6. p.at \notin {"sync", "resolve"} /\ (p.at = "resolve" => p.inherited \in Models)
    BY <1>3
  <1> QED BY <1>2, <1>3, <1>4, <1>5, <1>6, PrepMoves

\* The path that a preparation climbs ends at its own Agent.
LEMMA PathFacts ==
  ASSUME AgentsInv, NEW a \in Children, NEW above \in Dormant(a), NEW sel \in AnySelection
  PROVE  LET path == Append([i \in DOMAIN above |-> [agent |-> above[i], sel |-> Recorded(recorded[above[i]])]],
                            [agent |-> a, sel |-> sel])
         IN  path \in Seq(PathStep) /\ path # <<>>
  <1>1. PICK n \in 0..Cardinality(Children) : above \in [1..n -> Children]
    BY DEF Dormant, Lineages
  <1>2. n \in Nat
    BY <1>1, ModelAssumption, FS_CardinalityType
  <1>3. ASSUME NEW x \in Children PROVE [agent |-> x, sel |-> Recorded(recorded[x])] \in PathStep
    <2>1. recorded[x] \in SessionRecord
      BY DEF AgentsInv
    <2>2. Recorded(recorded[x]) \in AnySelection
      BY <2>1, ModelAssumption DEF Recorded, SessionRecord, AnySelection, Selections, NoSelection, Explicit, Models
    <2> QED BY <2>2 DEF PathStep
  <1>4. [i \in DOMAIN above |-> [agent |-> above[i], sel |-> Recorded(recorded[above[i]])]] \in Seq(PathStep)
    <2>1. above \in Seq(Children) /\ DOMAIN above = 1..n
      BY <1>1, <1>2
    <2> QED BY <2>1, <1>2, <1>3
  <1>5. [agent |-> a, sel |-> sel] \in PathStep
    BY DEF PathStep
  <1>6. ASSUME NEW begin \in Seq(PathStep), NEW last \in PathStep
        PROVE  Append(begin, last) \in Seq(PathStep) /\ Append(begin, last) # <<>>
    <2>1. Append(begin, last) \in Seq(PathStep) /\ Len(Append(begin, last)) = Len(begin) + 1 /\ Len(begin) \in Nat
      OBVIOUS
    <2>2. Len(<<>>) = 0
      BY SMTT(30)
    <2> QED BY <2>1, <2>2
  <1> QED BY <1>4, <1>5, <1>6

LEMMA ClimbKeeps ==
  ASSUME ModelInv, NEW a \in Children, Climb(a)
  PROVE  ModelInv'
  <1>1. prep[a] \in Preparations /\ Sound(prep[a], first[a], recorded[a], live[a], published.excluded)
        /\ recorded[a] \in SessionRecord
    BY SameHere DEF ModelInv
  <1>2. PICK above \in Dormant(a) :
          LET step(x) == [agent |-> x, sel |-> Recorded(recorded[x])]
              path    == Append([i \in DOMAIN above |-> step(above[i])],
                                [agent |-> a, sel |-> IF prep[a].spawn THEN NoSelection
                                                      ELSE Recorded(recorded[a])])
              asks    == Nearest(path) # Root
          IN  prep' = [prep EXCEPT ![a] =
                [prep[a] EXCEPT !.at = IF asks THEN "sync" ELSE "resolve", !.path = path, !.read = <<>>,
                                !.inherited = IF asks THEN NoModel ELSE owner]]
    BY Zenon DEF Climb
  <1> PICK sel : sel = IF prep[a].spawn THEN NoSelection ELSE Recorded(recorded[a])
    OBVIOUS
  <1>3. sel \in AnySelection
    BY <1>1, ModelAssumption DEF Recorded, SessionRecord, AnySelection, Selections, NoSelection, Explicit, Models
  <1> PICK path : path = Append([i \in DOMAIN above |-> [agent |-> above[i], sel |-> Recorded(recorded[above[i]])]],
                                [agent |-> a, sel |-> sel])
    OBVIOUS
  <1>4. path \in Seq(PathStep) /\ path # <<>>
    BY <1>3, PathFacts DEF ModelInv
  <1> PICK asks \in BOOLEAN : asks <=> Nearest(path) # Root
    OBVIOUS
  <1> PICK lent : lent = IF asks THEN NoModel ELSE owner
    OBVIOUS
  <1> PICK p : p = [prep[a] EXCEPT !.at = IF asks THEN "sync" ELSE "resolve", !.path = path, !.read = <<>>,
                                   !.inherited = lent]
    OBVIOUS
  <1>5. prep' = [prep EXCEPT ![a] = p]
    BY <1>2
  <1>6. lent \in Models \union {NoModel} /\ (~asks => lent \in Models) /\ <<>> \in Definitions
    BY ReadFacts DEF ModelInv, PolicyInv
  <1>7. /\ p \in Preparations /\ p.spawn = prep[a].spawn /\ p.banned = prep[a].banned
        /\ p.at = (IF asks THEN "sync" ELSE "resolve") /\ p.path = path /\ p.inherited = lent
    BY ZenonT(60), <1>1, <1>4, <1>6 DEF Preparations, Stages
  <1>8. prep[a] # NoPrep
    BY DEF Climb, NoPrep
  <1>9. UNCHANGED <<file, published, surface, other, owner, recorded, first, live>> /\ known' \in Definitions
    BY <1>1 DEF Climb, PrepUnchanged, Preparations
  <1>10. asks => Nearest(path) \in Children
    <2>1. Head(path) \in PathStep
      BY <1>4
    <2>2. Spawner[Head(path).agent] \in Children \union {Root}
      BY <2>1, ModelAssumption DEF PathStep
    <2> QED BY <2>2 DEF Nearest
  <1>11. /\ p.at \in {"sync", "resolve"} /\ (p.at = "sync" => asks) /\ (p.at = "resolve" => ~asks)
    BY <1>7
  <1>12. /\ p.path # <<>> /\ (p.at = "sync" => Nearest(p.path) \in Children)
         /\ (p.at = "resolve" => p.inherited \in Models)
    BY <1>4, <1>6, <1>7, <1>10, <1>11
  <1>13. p.at \notin {"capture", "captured"}
    BY <1>11
  <1> QED BY ZenonT(60), <1>5, <1>7, <1>8, <1>9, <1>11, <1>12, <1>13, PrepMoves

LEMMA SyncKeeps ==
  ASSUME ModelInv, NEW a \in Children, Sync(a)
  PROVE  ModelInv'
  <1> PICK source : source = Nearest(prep[a].path)
    OBVIOUS
  <1>1. UNCHANGED <<file, published, surface, other, owner, known, recorded, first, live>>
        /\ known' \in Definitions
    BY DEF Sync, PrepUnchanged, ModelInv, PolicyInv
  <1>2. CASE Asleep(source)
    BY <1>1, <1>2, PrepFailsKeeps DEF Sync
  <1>3. CASE ~Asleep(source)
    <2> PICK p : p = [prep[a] EXCEPT !.at = "resolve", !.inherited = live[source]]
      OBVIOUS
    <2>1. prep' = [prep EXCEPT ![a] = p] /\ prep[a].at = "sync" /\ prep[a] # NoPrep
      BY <1>3 DEF Sync, NoPrep
    <2>2. prep[a] \in Preparations /\ Sound(prep[a], first[a], recorded[a], live[a], published.excluded)
      BY SameHere DEF ModelInv
    <2>3. live[source] \in Models
      <3>1. source \in Children
        BY <2>1, <2>2 DEF Sound
      <3> QED BY <3>1, <1>3 DEF ModelInv, Asleep, AgentsInv
    <2>4. /\ p \in Preparations /\ p.spawn = prep[a].spawn /\ p.banned = prep[a].banned
          /\ p.at = "resolve" /\ p.path = prep[a].path /\ p.inherited \in Models
      BY <2>2, <2>3 DEF Preparations, Stages
    <2>5. p.path # <<>>
      BY <2>1, <2>2, <2>4 DEF Sound
    <2> QED BY <1>1, <2>1, <2>4, <2>5, PrepMoves
  <1> QED BY <1>2, <1>3

LEMMA LongIsNotEmpty ==
  ASSUME NEW S, NEW q \in Seq(S), Len(q) > 0
  PROVE  q # <<>>
  OBVIOUS

LEMMA TailOfLonger ==
  ASSUME NEW S, NEW q \in Seq(S), Len(q) > 1
  PROVE  Tail(q) \in Seq(S) /\ Tail(q) # <<>>
  <1>1. Tail(q) \in Seq(S) /\ Len(Tail(q)) > 0
    OBVIOUS
  <1> QED BY <1>1, LongIsNotEmpty

LEMMA ResolveNextKeeps ==
  ASSUME ModelInv, NEW a \in Children, ResolveNext(a)
  PROVE  ModelInv'
  <1> PICK top : top = Head(prep[a].path)
    OBVIOUS
  <1> PICK got : got = Resolve(top.agent, top.sel, prep[a].inherited, published.excluded, known)
    OBVIOUS
  <1>1. UNCHANGED <<file, published, surface, other, owner, known, recorded, first, live>>
        /\ known' \in Definitions
    BY DEF ResolveNext, PrepUnchanged, ModelInv, PolicyInv
  <1>2. prep[a] \in Preparations /\ Sound(prep[a], first[a], recorded[a], live[a], published.excluded)
        /\ prep[a].at = "resolve" /\ prep[a] # NoPrep
    BY SameHere DEF ModelInv, ResolveNext, NoPrep
  <1>3. prep[a].path \in Seq(PathStep) /\ prep[a].path # <<>> /\ prep[a].inherited \in Models
    BY <1>2 DEF Sound, Preparations
  <1>4. top \in PathStep
    BY <1>3
  <1>5. CASE ~got.ok
    BY <1>1, <1>5, PrepFailsKeeps DEF ResolveNext
  <1>6. ASSUME got.ok
        PROVE  /\ got.selection \in Selections
               /\ got.selection.preset => got.selection.model = Virtual
               /\ got.selection.model = prep[a].inherited
                    \/ ~Excluded(published.excluded, got.selection.model)
    BY SMTT(30), <1>3, <1>4, <1>6, ResolveFacts DEF PathStep
  <1>7. CASE got.ok /\ Len(prep[a].path) > 1
    <2> PICK p : p = [prep[a] EXCEPT !.path = Tail(prep[a].path), !.inherited = got.selection.model]
      BY SMTT(30)
    <2>1. prep' = [prep EXCEPT ![a] = p]
      BY ZenonT(60), <1>7 DEF ResolveNext
    <2>2. Tail(prep[a].path) \in Seq(PathStep) /\ Tail(prep[a].path) # <<>>
      BY SMTT(30), <1>3, <1>7, TailOfLonger
    <2>3. got.selection.model \in Models
      BY ZenonT(60), <1>6, <1>7 DEF Selections
    <2>4. /\ p \in Preparations /\ p.spawn = prep[a].spawn /\ p.banned = prep[a].banned
          /\ p.at = "resolve" /\ p.path # <<>> /\ p.inherited \in Models
      BY ZenonT(60), <1>2, <2>2, <2>3 DEF Preparations
    <2> QED BY ZenonT(60), <1>1, <1>2, <2>1, <2>4, PrepMoves
  <1>8. CASE got.ok /\ ~(Len(prep[a].path) > 1)
    <2> PICK p : p = [prep[a] EXCEPT !.at = "capture", !.path = <<>>, !.sel = got.selection]
      OBVIOUS
    <2>1. prep' = [prep EXCEPT ![a] = p]
      BY ZenonT(60), <1>8 DEF ResolveNext
    <2>2a. got.selection \in AnySelection
      BY ZenonT(60), <1>6, <1>8 DEF AnySelection
    <2>2b. <<>> \in Seq(PathStep)
      OBVIOUS
    <2>2. got.selection \in AnySelection /\ <<>> \in Seq(PathStep)
      BY ZenonT(60), <2>2a, <2>2b
    <2>3. /\ p \in Preparations /\ p.spawn = prep[a].spawn /\ p.banned = prep[a].banned
          /\ p.at = "capture" /\ p.inherited = prep[a].inherited /\ p.sel = got.selection
      BY <1>2, <2>2 DEF Preparations, Stages
    <2>4. \A m \in p.banned : Excluded(published.excluded, m)
      BY <1>2, <2>3 DEF Sound
    <2> QED BY ZenonT(60), <1>1, <1>2, <1>3, <1>6, <1>8, <2>1, <2>3, <2>4, PrepMoves
  <1> QED BY <1>5, <1>7, <1>8

\* What is recorded is what was chosen.
LEMMA RecordingFacts ==
  ASSUME NEW rec \in SessionRecord, NEW sel \in Selections, sel.preset => sel.model = Virtual
  PROVE  /\ Recording(rec, sel) \in SessionRecord /\ Recorded(Recording(rec, sel)) = sel
         /\ Recording(rec, sel).model \in Models /\ Recording(rec, sel).model # NoModel
  <1> PICK now : now = Recording(rec, sel)
    OBVIOUS
  <1>1. NoModel \notin Models /\ sel.model \in Models /\ sel.preset \in BOOLEAN
        /\ sel = [model |-> sel.model, preset |-> sel.preset]
    BY ModelAssumption DEF Selections
  <1>2. CASE Recorded(rec) = sel
    BY <1>1, <1>2 DEF Recording, Recorded
  <1>3. CASE Recorded(rec) # sel
    <2>1. now = [model |-> sel.model,
                 mode  |-> IF sel.model # Virtual THEN rec.mode
                           ELSE IF sel.preset THEN "preset" ELSE "explicit"]
      BY <1>3 DEF Recording
    <2>2. now \in SessionRecord /\ now.model = sel.model
      BY <1>1, <2>1 DEF SessionRecord
    <2>3. (now.model = Virtual /\ now.mode = "preset") = sel.preset
      BY <1>1, <2>1
    <2> QED BY <1>1, <2>2, <2>3 DEF Recorded
  <1> QED BY <1>2, <1>3

LEMMA KeepKeeps ==
  ASSUME ModelInv, NEW a \in Children, Keep(a)
  PROVE  ModelInv'
  <1> PICK guidance : guidance = Guidance(published.excluded, known')
    OBVIOUS
  <1> PICK rec : rec = Recording(recorded[a], prep[a].sel)
    OBVIOUS
  <1>1. /\ prep[a] \in Preparations /\ Sound(prep[a], first[a], recorded[a], live[a], published.excluded)
        /\ prep[a].at = "captured" /\ prep[a] # NoPrep /\ recorded[a] \in SessionRecord
        /\ recorded' = [recorded EXCEPT ![a] = rec] /\ guidance \subseteq Models
    BY SameHere DEF ModelInv, Keep, NoPrep, Guidance
  <1>2. prep[a].sel \in Selections /\ (prep[a].sel.preset => prep[a].sel.model = Virtual)
    BY <1>1 DEF Sound
  <1>3. rec \in SessionRecord /\ Recorded(rec) = prep[a].sel /\ rec.model \in Models /\ rec.model # NoModel
    BY <1>1, <1>2, RecordingFacts
  <1>4. PolicyInv'
    <2>1. known' \in Definitions
      BY <1>1 DEF Keep, Preparations
    <2> QED BY <2>1, PolicyStays DEF ModelInv, Keep, PrepUnchanged
  <1>5. live[a] = NoModel /\ first[a] = NoFirst /\ live' = live /\ published' = published
    BY <1>1 DEF Sound, Keep, PrepUnchanged
  <1>6. CASE prep[a].spawn
    <2> PICK f : f = [sel |-> prep[a].sel, snapshot |-> guidance]
      OBVIOUS
    <2>1. first' = [first EXCEPT ![a] = f] /\ prep' = [prep EXCEPT ![a] = NoPrep]
      BY <1>6 DEF Keep
    <2>2. f \in [sel : AnySelection, snapshot : SUBSET Models] /\ f.sel = Recorded(rec)
      BY <1>1, <1>2, <1>3 DEF AnySelection
    <2>3. Sound(NoPrep, f, rec, live[a], published.excluded)
      BY <1>3, <1>5, <2>2, NoPrepFacts DEF ModelInv
    <2>4. NoPrep \in Preparations /\ AgentsInv /\ live = [live EXCEPT ![a] = live[a]]
          /\ live[a] \in Models \union {NoModel}
      BY NoPrepFacts, SameHere DEF ModelInv
    <2>5. live' = [live EXCEPT ![a] = live[a]]
      BY <1>5, <2>4
    <2>6. AgentsInv'
      BY <1>1, <1>3, <1>5, <2>1, <2>2, <2>3, <2>4, <2>5, OneAgentMoves
    <2> QED BY <1>4, <2>6 DEF ModelInv
  <1>7. CASE ~prep[a].spawn
    <2> PICK p : p = [prep[a] EXCEPT !.at = "boot", !.read = <<>>]
      OBVIOUS
    <2>1. first' = first /\ prep' = [prep EXCEPT ![a] = p]
      BY <1>7 DEF Keep
    <2>2. /\ p \in Preparations /\ p.at = "boot" /\ p.spawn = prep[a].spawn /\ p.sel = prep[a].sel
          /\ p.banned = prep[a].banned /\ p.inherited = prep[a].inherited /\ p.cached = prep[a].cached
      <3>1. <<>> \in Definitions
        BY ModelAssumption
      <3> QED BY <1>1, <3>1 DEF Preparations, Stages
    <2>3. Sound(p, first[a], rec, live[a], published.excluded)
      BY <1>1, <1>3, <1>5, <1>7, <2>2 DEF Sound
    <2> QED BY ZenonT(60), <1>1, <1>3, <1>4, <1>5, <2>1, <2>2, <2>3, SameHere, OneAgentMoves DEF ModelInv
  <1> QED BY <1>6, <1>7

LEMMA ReadyKeeps ==
  ASSUME ModelInv, NEW a \in Children, Ready(a)
  PROVE  ModelInv'
  <1> PICK runs : runs = prep[a].sel.model
    OBVIOUS
  <1>1. /\ prep[a] \in Preparations /\ Sound(prep[a], first[a], recorded[a], live[a], published.excluded)
        /\ prep[a].at = "boot" /\ prep[a] # NoPrep /\ recorded[a] \in SessionRecord
        /\ live' = [live EXCEPT ![a] = runs] /\ prep' = [prep EXCEPT ![a] = NoPrep]
        /\ UNCHANGED <<first, recorded, published>>
    BY SameHere DEF ModelInv, Ready, PrepUnchanged, NoPrep
  <1>2. PolicyInv'
    BY PolicyStays DEF ModelInv, Ready, PrepUnchanged, PolicyInv
  <1>3. runs = recorded[a].model /\ runs \in Models \union {NoModel} /\ first[a] = NoFirst
    BY <1>1 DEF Sound, Recorded, SessionRecord
  <1>4. Sound(NoPrep, first[a], recorded[a], runs, published.excluded)
    BY <1>3, NoPrepFacts DEF ModelInv
  <1> QED BY <1>1, <1>2, <1>3, <1>4, NoPrepFacts, SameHere, OneAgentMoves DEF ModelInv

-----------------------------------------------------------------------------
\* A step of a live Runtime: its Agent prepares nothing.
LEMMA LiveMoves ==
  ASSUME ModelInv, NEW a \in Children, ~Asleep(a),
         UNCHANGED <<file, published, known, surface, other, owner, first, prep>>,
         NEW rec \in SessionRecord, recorded' = [recorded EXCEPT ![a] = rec],
         NEW runs \in {rec.model, NoModel}, live' = [live EXCEPT ![a] = runs],
         rec.model # NoModel
  PROVE  ModelInv'
  <1>1. PolicyInv'
    BY PolicyStays DEF ModelInv, PolicyInv
  <1>2. prep[a] = NoPrep /\ first[a] = NoFirst
    BY SameHere DEF ModelInv, Asleep, Sound
  <1>3. Sound(NoPrep, first[a], rec, runs, published.excluded) /\ runs \in Models \union {NoModel}
    BY <1>2, NoPrepFacts DEF ModelInv, SessionRecord
  <1>4. /\ AgentsInv /\ first' = [first EXCEPT ![a] = first[a]] /\ prep' = [prep EXCEPT ![a] = NoPrep]
        /\ first[a] \in [sel : AnySelection, snapshot : SUBSET Models] /\ NoPrep \in Preparations
        /\ published' = published
    BY <1>2, SameHere, NoPrepFacts DEF ModelInv
  <1> HIDE DEF NoPrep
  <1>5. AgentsInv'
    BY <1>3, <1>4, OneAgentMoves
  <1> QED BY <1>1, <1>5 DEF ModelInv

LEMMA LiveKeeps ==
  ASSUME ModelInv, NEW a \in Children, LiveStep(a)
  PROVE  ModelInv'
  <1>1. /\ recorded[a] \in SessionRecord /\ recorded = [recorded EXCEPT ![a] = recorded[a]]
        /\ live = [live EXCEPT ![a] = live[a]] /\ live[a] \in Models \union {NoModel}
        /\ live[a] # NoModel => live[a] = recorded[a].model
    BY SameHere DEF ModelInv, Sound
  <1>2. NoModel \notin Models /\ Virtual \in Models
    BY ModelAssumption DEF Models
  <1>3. EndsPreset(recorded[a]) \in SessionRecord /\ EndsPreset(recorded[a]).model = recorded[a].model
    BY <1>1 DEF EndsPreset, SessionRecord
  <1>4. ASSUME NEW m \in Models, Select(a, m) PROVE ModelInv'
    <2> PICK ended : ended = EndsPreset(recorded[a])
      OBVIOUS
    <2> PICK rec : rec = [ended EXCEPT !.model = m]
      OBVIOUS
    <2>1. rec \in SessionRecord /\ rec.model = m /\ rec.model # NoModel
      BY <1>2, <1>3 DEF SessionRecord
    <2>2. recorded' = [recorded EXCEPT ![a] = rec] /\ live' = [live EXCEPT ![a] = m] /\ ~Asleep(a)
      BY <1>4 DEF Select
    <2>3. UNCHANGED <<file, published, known, surface, other, owner, first, prep>>
      BY <1>4 DEF Select, LiveUnchanged
    <2> QED BY <2>1, <2>2, <2>3, LiveMoves
  <1>5. CASE SelectThinking(a)
    <2> PICK rec : rec = EndsPreset(recorded[a])
      OBVIOUS
    <2>1. recorded' = [recorded EXCEPT ![a] = rec] /\ live' = live /\ ~Asleep(a)
      BY <1>5 DEF SelectThinking
    <2>2. UNCHANGED <<file, published, known, surface, other, owner, first, prep>>
      BY <1>5 DEF SelectThinking, LiveUnchanged
    <2>3. live' = [live EXCEPT ![a] = live[a]] /\ live[a] = rec.model /\ rec.model # NoModel
      BY <1>1, <1>3, <2>1 DEF Asleep
    <2> QED BY <1>3, <2>1, <2>2, <2>3, LiveMoves
  <1>6. CASE Ends(a)
    <2>1. recorded' = [recorded EXCEPT ![a] = recorded[a]] /\ live' = [live EXCEPT ![a] = NoModel] /\ ~Asleep(a)
      BY <1>1, <1>6 DEF Ends
    <2>2. UNCHANGED <<file, published, known, surface, other, owner, first, prep>>
      BY <1>6 DEF Ends, LiveUnchanged
    <2>3. recorded[a].model # NoModel
      BY <1>1, <2>1 DEF Asleep
    <2> QED BY <1>1, <2>1, <2>2, <2>3, LiveMoves
  <1>7. ASSUME NEW stays, Route(a, stays) PROVE ModelInv'
    <2>1. recorded' = [recorded EXCEPT ![a] = recorded[a]] /\ live' = [live EXCEPT ![a] = live[a]]
          /\ live[a] = Virtual /\ ~Asleep(a)
      BY <1>1, <1>2, <1>7 DEF Route, Asleep
    <2>2. UNCHANGED <<file, published, known, surface, other, owner, first, prep>>
      BY <1>7 DEF Route, LiveUnchanged
    <2>3. live[a] = recorded[a].model /\ recorded[a].model # NoModel
      BY <1>1, <2>1 DEF Asleep
    <2> QED BY <1>1, <2>1, <2>2, <2>3, LiveMoves
  <1> QED BY <1>4, <1>5, <1>6, <1>7 DEF LiveStep

LEMMA AdmitOwnerKeeps ==
  ASSUME ModelInv, NEW reload \in BOOLEAN, AdmitOwner(reload)
  PROVE  ModelInv'
  <1>1. /\ prep' = [a \in Children |-> NoPrep] /\ first' = [a \in Children |-> NoFirst]
        /\ live' = [a \in Children |-> NoModel] /\ recorded' = recorded
        /\ surface' = Closed /\ UNCHANGED <<file, other, owner>>
        /\ known' = DefinitionsRead(file) /\ published' = Reads(IF reload THEN published ELSE Default)
    BY DEF AdmitOwner
  <1>2. published' \in Policies /\ known' \in Definitions
    BY <1>1, ReadFacts DEF ModelInv, PolicyInv
  <1>3. PolicyInv'
    BY <1>1, <1>2 DEF ModelInv, PolicyInv, SurfaceShape, Closed
  <1>4. ASSUME NEW a \in Children PROVE Sound(NoPrep, NoFirst, recorded[a], NoModel, published'.excluded)
    BY NoPrepFacts DEF ModelInv
  <1>5. NoPrep \in Preparations /\ NoFirst \in [sel : AnySelection, snapshot : SUBSET Models]
    BY NoPrepFacts DEF ModelInv
  <1> HIDE DEF NoPrep
  <1>6. AgentsInv'
    BY <1>1, <1>4, <1>5 DEF ModelInv, AgentsInv
  <1> QED BY <1>3, <1>6 DEF ModelInv

LEMMA ModelInitHolds == SelectionInit => ModelInv
  <1> SUFFICES ASSUME SelectionInit PROVE ModelInv
    OBVIOUS
  <1>1. PICK d \in Definitions : file = Text(TRUE, [excluded |-> {}, virtual |-> d])
    BY DEF SelectionInit
  <1>2. file.policy \in Policies /\ file \in [ok : BOOLEAN, policy : Policies] /\ file.policy.virtual \in Definitions
    BY <1>1 DEF Text, Policies
  <1>3. PolicyInv
    BY <1>2, ModelAssumption DEF SelectionInit, PolicyInv, SurfaceShape, Closed, NoSave
  <1>4. ASSUME NEW rec, NEW entries PROVE Sound(NoPrep, NoFirst, rec, NoModel, entries)
    BY <1>3, NoPrepFacts
  <1>5. NoPrep \in Preparations /\ NoFirst \in [sel : AnySelection, snapshot : SUBSET Models]
    BY <1>3, NoPrepFacts
  <1>6. [model |-> NoModel, mode |-> "none"] \in SessionRecord
    BY DEF SessionRecord
  <1> HIDE DEF NoPrep
  <1>7. AgentsInv
    BY <1>4, <1>5, <1>6 DEF SelectionInit, AgentsInv
  <1> QED BY <1>3, <1>7 DEF ModelInv

LEMMA ModelNextKeeps == ModelInv /\ [SelectionNext]_modelVars => ModelInv'
  <1> SUFFICES ASSUME ModelInv, [SelectionNext]_modelVars PROVE ModelInv'
    OBVIOUS
  <1>1. CASE MenuStep
    BY <1>1, MenuKeeps
  <1>2. ASSUME NEW a \in Children, PrepStep(a) PROVE ModelInv'
    <2>1. CASE PrepFails(a)
      BY <2>1, PrepFailsKeeps DEF PrepFails, PrepUnchanged
    <2> QED BY <1>2, <2>1, SpawnKeeps, StartSessionKeeps, ReadDefinitionsKeeps, ClimbKeeps, SyncKeeps,
               ResolveNextKeeps, KeepKeeps, ReadyKeeps DEF PrepStep
  <1>3. ASSUME NEW a \in Children, LiveStep(a) PROVE ModelInv'
    BY <1>3, LiveKeeps
  <1>4. ASSUME NEW x, Recapture(x) PROVE ModelInv'
    BY <1>4, ReadFacts, PolicyStays, AgentsStay DEF ModelInv, Recapture, Captures
  <1>5. ASSUME NEW m \in Models, SelectOwner(m) PROVE ModelInv'
    BY <1>5, AgentsStay DEF ModelInv, SelectOwner, LiveUnchanged, PolicyInv, SurfaceShape
  <1>6. ASSUME NEW reload \in BOOLEAN, AdmitOwner(reload) PROVE ModelInv'
    BY <1>6, AdmitOwnerKeeps
  <1>7. CASE UNCHANGED modelVars
    BY <1>7, AgentsStay DEF ModelInv, modelVars, PolicyInv, SurfaceShape
  <1> QED BY <1>1, <1>2, <1>3, <1>4, <1>5, <1>6, <1>7 DEF SelectionNext

\* What a preparation has at each stage, and what nothing else touches meanwhile, holds in
\* every reachable state, with any Agents, models, policies and edits of them.
THEOREM PreparationsAreSound == SelectionSpec => []ModelInv
  BY ModelInitHolds, ModelNextKeeps, PTL DEF SelectionSpec

\* #prepareSession never resolves a model that was excluded throughout the preparation,
\* unless the Agent inherits it.
THEOREM BansAreAlwaysFollowed == SelectionSpec => []BansAreFollowed
  <1>1. ModelInv => BansAreFollowed
    BY DEF ModelInv, AgentsInv, Sound, BansAreFollowed
  <1> QED BY <1>1, PreparationsAreSound, PTL

\* What a Runtime is launched with, now or after its boot was deferred, and what it runs on,
\* is what the session of its Agent records.
THEOREM SelectionsAreRecorded == SelectionSpec => []SelectionIsRecorded
  <1>1. ModelInv => SelectionIsRecorded
    BY DEF ModelInv, AgentsInv, Sound, SelectionIsRecorded, Asleep
  <1> QED BY <1>1, PreparationsAreSound, PTL

-----------------------------------------------------------------------------
(* The Owner.  A Workflow that served and is not completely shut down has  *)
(* its session's entry in the registry, so an empty entry, which is what a *)
(* new coordinator starts from, says that all of them are.  One that never *)
(* served is the present attachment's, until its shutdown ended.           *)

Attachment ==
  [n : O!Attachments, bound : Sessions, session : Sessions \union {NoSession},
   stage : {"idle", "capture", "captured", "cleanup", "bind", "recover", "initialize", "rollback",
            "settled"},
   outcome : {"pending", "inactive", "blocked", "admitted"}, identified : BOOLEAN]
WorkflowRecord == [session : Sessions \union {NoSession},
                   state : {"absent", "building", "open", "closing", "closed", "broken"},
                   served : BOOLEAN]

OwnerTypes ==
  /\ attached \in Attachment
  /\ workflow \in [O!Attachments -> WorkflowRecord]
  /\ registry \in [Sessions -> 0..MaxAttachments]

\* The attachment that admits a session, and how far it is.
AdmittingInv ==
  /\ attached.stage # "idle" => attached.session \in Sessions
  /\ attached.stage = "idle" => attached.session = NoSession
  /\ told # "none" => attached.stage = "settled"
  /\ attached.stage \in {"bind", "recover", "initialize", "rollback"} => registry[attached.session] = 0
  /\ attached.stage = "initialize" =>
       /\ workflow[attached.n].state = "building" /\ ~workflow[attached.n].served
       /\ workflow[attached.n].session = attached.session
  /\ attached.stage = "rollback" =>
       ~workflow[attached.n].served /\ workflow[attached.n].session = attached.session
  /\ \A n \in O!Attachments :
       \/ n > attached.n
       \/ n = attached.n /\ attached.stage \notin {"initialize", "rollback", "settled"}
       => workflow[n].state = "absent" /\ ~workflow[n].served

RegisteredInv ==
  \A n \in O!Attachments :
    /\ workflow[n].state = "building" =>
         n = attached.n /\ attached.stage = "initialize" /\ workflow[n].session = attached.session
    /\ workflow[n].state = "closing" /\ ~workflow[n].served =>
         n = attached.n /\ attached.stage = "rollback"
    /\ workflow[n].state = "absent" => workflow[n].session = NoSession
    /\ workflow[n].state = "open" => workflow[n].served
    /\ workflow[n].served => workflow[n].session \in Sessions
    /\ workflow[n].served /\ workflow[n].state # "closed" => registry[workflow[n].session] = n

OwnerInv == OwnerTypes /\ AdmittingInv /\ RegisteredInv

LEMMA OwnerInitHolds == O!AdmissionInit => OwnerInv
  <1> SUFFICES ASSUME O!AdmissionInit PROVE OwnerInv
    OBVIOUS
  <1>1. PICK s \in Sessions : attached = O!New(1, s)
    BY DEF O!AdmissionInit
  <1>2. 1 \in O!Attachments /\ 0 \in 0..MaxAttachments
    BY AttachmentAssumption DEF O!Attachments
  <1>3. OwnerTypes
    BY <1>1, <1>2 DEF O!AdmissionInit, O!New, O!NoWorkflow, OwnerTypes, Attachment, WorkflowRecord
  <1>4. AdmittingInv
    BY <1>1 DEF O!AdmissionInit, O!New, O!NoWorkflow, AdmittingInv
  <1>5. RegisteredInv
    BY DEF O!AdmissionInit, O!NoWorkflow, RegisteredInv
  <1> QED BY <1>3, <1>4, <1>5 DEF OwnerInv

\* The attachment goes on and the Workflows stay.
LEMMA StageMoves ==
  ASSUME OwnerInv, NEW c \in Attachment, attached' = c, c.n = attached.n,
         UNCHANGED <<workflow, registry>>,
         c.stage # "idle" /\ c.session \in Sessions,
         c.session = attached.session \/ attached.stage = "idle",
         told' = told, told # "none" => c.stage = "settled",
         c.stage \in {"bind", "recover"} => registry[c.session] = 0,
         c.stage \notin {"initialize", "rollback"}, attached.stage # "initialize",
         attached.stage = "rollback" => workflow[attached.n].state # "closing",
         attached.stage \in {"rollback", "settled"} => c.stage = "settled"
  PROVE  OwnerInv'
  <1>1. OwnerTypes'
    BY DEF OwnerInv, OwnerTypes
  <1>2. AdmittingInv'
    BY DEF OwnerInv, AdmittingInv, OwnerTypes, Attachment
  <1>3. RegisteredInv'
    BY DEF OwnerInv, RegisteredInv
  <1> QED BY <1>1, <1>2, <1>3 DEF OwnerInv

\* A Workflow that is open, or closing, goes on with its shutdown.
LEMMA ShutdownKeeps ==
  ASSUME OwnerInv, NEW n \in O!Attachments, UNCHANGED <<attached, registry>>,
         told' = told \/ attached.stage = "settled",
         NEW st \in {"closing", "closed", "broken"}, workflow[n].state \in {"open", "closing"},
         workflow' = [workflow EXCEPT ![n].state = st]
  PROVE  OwnerInv'
  <1> PICK w : w = [workflow[n] EXCEPT !.state = st]
    OBVIOUS
  <1>1. workflow' = [workflow EXCEPT ![n] = w] /\ w \in WorkflowRecord /\ w.state = st
        /\ w.session = workflow[n].session /\ w.served = workflow[n].served
        /\ workflow[n] \in WorkflowRecord
    BY DEF OwnerInv, OwnerTypes, WorkflowRecord
  <1>2. workflow'[n] = w /\ \A k \in O!Attachments : k # n => workflow'[k] = workflow[k]
    BY <1>1 DEF OwnerInv, OwnerTypes
  <1>3. OwnerTypes'
    BY <1>1 DEF OwnerInv, OwnerTypes
  <1>4. AdmittingInv'
    BY <1>1, <1>2 DEF OwnerInv, AdmittingInv
  <1>5. RegisteredInv'
    BY <1>1, <1>2 DEF OwnerInv, RegisteredInv
  <1> QED BY <1>3, <1>4, <1>5 DEF OwnerInv

\* A step that changes only told, captured, the bridge or the turn.
LEMMA OwnerStays ==
  ASSUME OwnerInv, UNCHANGED <<attached, workflow, registry>>,
         told' = told \/ attached.stage = "settled"
  PROVE  OwnerInv'
  BY DEF OwnerInv, OwnerTypes, AdmittingInv, RegisteredInv

\* The attachment reaches another stage with the session it admits.
LEMMA StageFacts ==
  ASSUME OwnerInv, attached.stage # "idle",
         NEW st \in {"captured", "cleanup", "bind", "recover", "initialize", "rollback", "settled"},
         \/ O!At(st)
         \/ st = "settled" /\ \E out \in {"inactive", "blocked", "admitted"} : O!Settles(out)
         \/ attached' = [attached EXCEPT !.stage = st, !.identified = TRUE]
  PROVE  /\ attached' \in Attachment /\ attached'.n = attached.n /\ attached'.stage = st
         /\ attached'.session = attached.session /\ attached.session \in Sessions
         /\ attached.n \in O!Attachments /\ (told # "none" => attached.stage = "settled")
         /\ registry[attached.session] \in 0..MaxAttachments
  BY ZenonT(60) DEF OwnerInv, OwnerTypes, AdmittingInv, Attachment, O!At, O!Settles

LEMMA SessionStartKeeps ==
  ASSUME OwnerInv, NEW s, O!SessionStart(s)
  PROVE  OwnerInv'
  <1> PICK c : c = [attached EXCEPT !.session = s, !.stage = "capture", !.outcome = "pending"]
    OBVIOUS
  <1>1. attached' = c /\ s \in Sessions /\ attached.session = NoSession /\ told = "none"
    BY DEF O!SessionStart, O!Starts, OwnerInv, OwnerTypes, Attachment
  <1>2. attached.stage = "idle"
    BY <1>1, AttachmentAssumption DEF OwnerInv, AdmittingInv
  <1>3. c \in Attachment /\ c.n = attached.n /\ c.stage = "capture" /\ c.session \in Sessions
    BY <1>1 DEF OwnerInv, OwnerTypes, Attachment
  <1> QED BY <1>1, <1>2, <1>3, StageMoves DEF O!SessionStart

LEMMA CleanUpKeeps ==
  ASSUME OwnerInv, O!CleanUp
  PROVE  OwnerInv'
  <1> PICK previous : previous = registry[attached.session]
    OBVIOUS
  <1>1. attached.stage = "captured" /\ registry' = registry /\ told' = told
    BY DEF O!CleanUp
  <1>2. CASE previous = 0
    <2>1. O!At("bind") /\ workflow' = workflow
      BY <1>2 DEF O!CleanUp, O!Previous, O!Session
    <2> QED BY <1>1, <1>2, <2>1, StageFacts, StageMoves
  <1>3. CASE previous # 0
    <2>1. O!At("cleanup") /\ O!Shutdown(previous)
      BY <1>3 DEF O!CleanUp, O!Previous, O!Session
    <2>2. OwnerInv /\ registry[attached.session] \in 0..MaxAttachments /\ previous \in O!Attachments
      BY <1>1, <1>3, <2>1, StageFacts DEF O!Attachments
    <2>3. workflow' \in [O!Attachments -> WorkflowRecord]
      BY <2>1, <2>2 DEF OwnerInv, OwnerTypes, O!Shutdown, WorkflowRecord
    <2>4. ASSUME NEW k \in O!Attachments
          PROVE  /\ workflow'[k].session = workflow[k].session /\ workflow'[k].served = workflow[k].served
                 /\ \/ workflow'[k].state = workflow[k].state
                    \/ workflow[k].state = "open" /\ workflow'[k].state = "closing"
      BY <2>1, <2>2 DEF OwnerInv, OwnerTypes, O!Shutdown, WorkflowRecord
    <2>5. /\ attached' \in Attachment /\ attached'.n = attached.n /\ attached'.stage = "cleanup"
          /\ attached'.session = attached.session /\ attached.session \in Sessions /\ told = "none"
      BY <1>1, <2>1, StageFacts
    <2>6. OwnerTypes'
      BY <1>1, <2>3, <2>5 DEF OwnerInv, OwnerTypes
    <2>7. AdmittingInv'
      BY <1>1, <2>4, <2>5 DEF OwnerInv, AdmittingInv
    <2>8. RegisteredInv'
      BY <1>1, <2>4, <2>5 DEF OwnerInv, RegisteredInv
    <2> QED BY <2>6, <2>7, <2>8 DEF OwnerInv
  <1> QED BY <1>2, <1>3

LEMMA CleanedUpKeeps ==
  ASSUME OwnerInv, O!CleanedUp
  PROVE  OwnerInv'
  <1> PICK previous : previous = registry[attached.session]
    OBVIOUS
  <1>1. attached.stage = "cleanup" /\ workflow' = workflow /\ told' = told
        /\ workflow[previous].state \in {"closed", "broken"}
    BY DEF O!CleanedUp, O!Previous, O!Session
  <1>2. CASE O!Forgets(previous)
    <2>1. O!At("bind") /\ registry' = [registry EXCEPT ![attached.session] = 0] /\ workflow[previous].state = "closed"
      BY <1>2 DEF O!CleanedUp, O!Previous, O!Session, O!Forgets
    <2>2. /\ attached' \in Attachment /\ attached'.n = attached.n /\ attached'.stage = "bind"
          /\ attached'.session = attached.session /\ attached.session \in Sessions /\ told = "none"
      BY <1>1, <2>1, StageFacts
    <2>3. OwnerTypes'
      BY <1>1, <2>1, <2>2, AttachmentAssumption DEF OwnerInv, OwnerTypes
    <2>4. registry'[attached.session] = 0 /\ \A s \in Sessions \ {attached.session} : registry'[s] = registry[s]
      BY <2>1, <2>2 DEF OwnerInv, OwnerTypes
    <2>5. AdmittingInv'
      BY <1>1, <2>2, <2>4 DEF OwnerInv, AdmittingInv
    <2>6. RegisteredInv'
      BY <1>1, <2>1, <2>2, <2>4 DEF OwnerInv, RegisteredInv
    <2> QED BY <2>3, <2>5, <2>6 DEF OwnerInv
  <1>3. CASE ~O!Forgets(previous)
    <2>1. O!Settles("blocked") /\ registry' = registry
      BY <1>3 DEF O!CleanedUp, O!Previous, O!Session, O!Blocks
    <2> QED BY <1>1, <2>1, StageFacts, StageMoves
  <1> QED BY <1>2, <1>3

\* The coordinator of an attachment changes with the attachment's stage.
LEMMA CoordinatorMoves ==
  ASSUME OwnerInv, attached.stage \in {"recover", "initialize"},
         NEW st \in {"initialize", "rollback", "settled"},
         attached' \in Attachment, attached'.n = attached.n, attached'.stage = st,
         attached'.session = attached.session, told' = told,
         NEW w \in WorkflowRecord, workflow' = [workflow EXCEPT ![attached.n] = w],
         w.session = attached.session,
         \/ st = "initialize" /\ w.state = "building" /\ ~w.served /\ registry' = registry
         \/ st = "rollback" /\ w.state = "closing" /\ ~w.served /\ registry' = registry
         \/ st = "settled" /\ w.state = "open" /\ w.served
              /\ registry' = [registry EXCEPT ![attached.session] = attached.n]
  PROVE  OwnerInv'
  <1> PICK n, s : n = attached.n /\ s = attached.session
    OBVIOUS
  <1>1. n \in O!Attachments /\ s \in Sessions /\ registry[s] = 0 /\ told = "none"
    BY DEF OwnerInv, OwnerTypes, AdmittingInv, Attachment
  <1>2. workflow'[n] = w /\ \A k \in O!Attachments : k # n => workflow'[k] = workflow[k]
    BY <1>1 DEF OwnerInv, OwnerTypes
  <1>3. registry' \in [Sessions -> 0..MaxAttachments] /\ \A r \in Sessions \ {s} : registry'[r] = registry[r]
    BY <1>1 DEF OwnerInv, OwnerTypes, O!Attachments
  <1>4. (st # "settled" => registry'[s] = 0) /\ (st = "settled" => registry'[s] = n)
    BY <1>1 DEF OwnerInv, OwnerTypes
  <1>5. OwnerTypes'
    BY <1>1, <1>2, <1>3 DEF OwnerInv, OwnerTypes
  <1>6. AdmittingInv'
    <2>1. ASSUME NEW k \in O!Attachments, k > n PROVE workflow'[k].state = "absent" /\ ~workflow'[k].served
      <3>1. k # n /\ workflow[k].state = "absent" /\ ~workflow[k].served
        BY <1>1, <2>1, AttachmentAssumption DEF OwnerInv, AdmittingInv, O!Attachments
      <3> QED BY <1>2, <3>1
    <2>2. attached'.stage # "idle" /\ attached'.session \in Sessions /\ attached'.stage = st
      BY <1>1
    <2>3. (st = "initialize" => workflow'[n].state = "building" /\ ~workflow'[n].served
                               /\ workflow'[n].session = s /\ registry'[s] = 0)
        /\ (st = "rollback" => ~workflow'[n].served /\ workflow'[n].session = s /\ registry'[s] = 0)
      BY <1>2, <1>4
    <2> QED BY <1>1, <2>1, <2>2, <2>3 DEF AdmittingInv
  <1>7. RegisteredInv'
    <2> SUFFICES ASSUME NEW k \in O!Attachments
                 PROVE  /\ workflow'[k].state = "building" =>
                             k = attached'.n /\ attached'.stage = "initialize" /\ workflow'[k].session = attached'.session
                        /\ workflow'[k].state = "closing" /\ ~workflow'[k].served =>
                             k = attached'.n /\ attached'.stage = "rollback"
                        /\ workflow'[k].state = "absent" => workflow'[k].session = NoSession
                        /\ workflow'[k].state = "open" => workflow'[k].served
                        /\ workflow'[k].served => workflow'[k].session \in Sessions
                        /\ workflow'[k].served /\ workflow'[k].state # "closed" => registry'[workflow'[k].session] = k
      BY DEF RegisteredInv
    <2>1. CASE k = n
      BY <1>1, <1>2, <1>4, <2>1
    <2>2. CASE k # n
      <3>1. workflow'[k] = workflow[k] /\ workflow[k].state # "building" /\ k # 0
            /\ ~(workflow[k].state = "closing" /\ ~workflow[k].served)
        BY <1>2, <2>2, AttachmentAssumption DEF OwnerInv, RegisteredInv, O!Attachments
      <3>2. workflow[k].served /\ workflow[k].state # "closed" => workflow[k].session # s
        BY <1>1, <3>1 DEF OwnerInv, RegisteredInv
      <3> QED BY <1>3, <3>1, <3>2 DEF OwnerInv, RegisteredInv
    <2> QED BY <2>1, <2>2
  <1> QED BY <1>5, <1>6, <1>7 DEF OwnerInv

LEMMA RecoverKeeps ==
  ASSUME OwnerInv, O!Recover
  PROVE  OwnerInv'
  <1>1. attached.stage = "recover" /\ registry' = registry /\ told' = told
    BY DEF O!Recover
  <1>2. CASE O!Blocks /\ workflow' = workflow
    BY <1>1, <1>2, StageFacts, StageMoves DEF O!Blocks
  <1>3. CASE O!At("initialize") /\ workflow' = [workflow EXCEPT ![attached.n] =
                                      [session |-> attached.session, state |-> "building", served |-> FALSE]]
    <2> PICK w : w = [session |-> attached.session, state |-> "building", served |-> FALSE]
      OBVIOUS
    <2>1. /\ attached' \in Attachment /\ attached'.n = attached.n /\ attached'.stage = "initialize"
          /\ attached'.session = attached.session /\ attached.session \in Sessions
      BY <1>1, <1>3, StageFacts
    <2>2. w \in WorkflowRecord /\ w.session = attached.session /\ w.state = "building" /\ ~w.served
      BY <2>1 DEF WorkflowRecord
    <2>3. workflow' = [workflow EXCEPT ![attached.n] = w]
      BY <1>3
    <2> QED BY <1>1, <2>1, <2>2, <2>3, CoordinatorMoves
  <1> QED BY <1>2, <1>3 DEF O!Recover, O!Session

LEMMA InitializeKeeps ==
  ASSUME OwnerInv, O!Initialize
  PROVE  OwnerInv'
  <1>1. attached.stage = "initialize" /\ told' = told
    BY DEF O!Initialize
  <1>2. CASE /\ O!Settles("admitted")
             /\ workflow' = [workflow EXCEPT ![attached.n] =
                               [session |-> attached.session, state |-> "open", served |-> TRUE]]
             /\ registry' = [registry EXCEPT ![attached.session] = attached.n]
    <2> PICK w : w = [session |-> attached.session, state |-> "open", served |-> TRUE]
      OBVIOUS
    <2>1. /\ attached' \in Attachment /\ attached'.n = attached.n /\ attached'.stage = "settled"
          /\ attached'.session = attached.session /\ attached.session \in Sessions
      BY <1>1, <1>2, StageFacts
    <2>2. w \in WorkflowRecord /\ w.session = attached.session /\ w.state = "open" /\ w.served
      BY <2>1 DEF WorkflowRecord
    <2>3. workflow' = [workflow EXCEPT ![attached.n] = w]
      BY <1>2
    <2> QED BY <1>1, <1>2, <2>1, <2>2, <2>3, CoordinatorMoves
  <1>3. CASE /\ O!At("rollback") /\ registry' = registry
             /\ workflow' = [workflow EXCEPT ![attached.n].state = "closing"]
    <2> PICK w : w = [workflow[attached.n] EXCEPT !.state = "closing"]
      OBVIOUS
    <2>1. /\ attached' \in Attachment /\ attached'.n = attached.n /\ attached'.stage = "rollback"
          /\ attached'.session = attached.session /\ attached.n \in O!Attachments
      BY <1>1, <1>3, StageFacts
    <2>2. workflow[attached.n].session = attached.session /\ ~workflow[attached.n].served
          /\ workflow[attached.n] \in WorkflowRecord
      BY <1>1, <2>1 DEF OwnerInv, AdmittingInv, OwnerTypes
    <2>3. w \in WorkflowRecord /\ w.session = attached.session /\ w.state = "closing" /\ ~w.served
      BY <2>2 DEF WorkflowRecord
    <2>4. workflow' = [workflow EXCEPT ![attached.n] = w]
      BY <1>3
    <2> QED BY <1>1, <1>3, <2>1, <2>3, <2>4, CoordinatorMoves
  <1> QED BY <1>2, <1>3 DEF O!Initialize, O!Session

LEMMA AttachKeeps ==
  ASSUME OwnerInv, NEW s \in Sessions, O!Attach(s)
  PROVE  OwnerInv'
  <1> PICK c : c = O!New(attached.n + 1, s)
    OBVIOUS
  <1>1. /\ attached' = c /\ told # "none" /\ attached.n < MaxAttachments /\ told' = "none"
        /\ UNCHANGED <<workflow, registry>>
    BY DEF O!Attach
  <1>2. attached.stage = "settled" /\ attached.n \in O!Attachments
    BY <1>1 DEF OwnerInv, AdmittingInv, OwnerTypes, Attachment
  <1>3. c \in Attachment /\ c.n = attached.n + 1 /\ c.stage = "idle" /\ c.session = NoSession
    BY <1>1, <1>2, AttachmentAssumption DEF O!New, Attachment, O!Attachments
  <1>4. OwnerTypes'
    BY <1>1, <1>3 DEF OwnerInv, OwnerTypes
  <1>5. AdmittingInv'
    <2>1. ASSUME NEW n \in O!Attachments, n >= attached.n + 1
          PROVE  workflow[n].state = "absent" /\ ~workflow[n].served
      <3>1. n > attached.n
        BY <1>2, <2>1, AttachmentAssumption DEF O!Attachments
      <3> QED BY <3>1 DEF OwnerInv, AdmittingInv
    <2>2. \A n \in O!Attachments : n > c.n \/ n = c.n => n >= attached.n + 1
      BY <1>2, <1>3, AttachmentAssumption DEF O!Attachments
    <2> QED BY <1>1, <1>3, <2>1, <2>2 DEF AdmittingInv
  <1>6. RegisteredInv'
    BY <1>1, <1>2 DEF OwnerInv, RegisteredInv
  <1> QED BY <1>4, <1>5, <1>6 DEF OwnerInv

LEMMA TellShutdownKeeps ==
  ASSUME OwnerInv, NEW kind, O!TellShutdown(kind)
  PROVE  OwnerInv'
  <1>1. attached.stage = "settled" /\ UNCHANGED <<attached, registry>> /\ attached.n \in O!Attachments
    BY DEF O!TellShutdown, OwnerInv, OwnerTypes, Attachment
  <1>2. CASE workflow' = workflow
    BY <1>1, <1>2, OwnerStays
  <1>3. CASE workflow[attached.n].state = "open"
             /\ workflow' = [workflow EXCEPT ![attached.n].state = "closing"]
    BY <1>1, <1>3, ShutdownKeeps
  <1> QED BY <1>2, <1>3 DEF O!TellShutdown, O!Shutdown

LEMMA OwnerNextKeeps == OwnerInv /\ [O!AdmissionNext]_O!admissionVars => OwnerInv'
  <1> SUFFICES ASSUME OwnerInv, [O!AdmissionNext]_O!admissionVars PROVE OwnerInv'
    OBVIOUS
  <1>1. ASSUME NEW s \in Sessions, O!Publish(s) PROVE OwnerInv'
    BY <1>1, OwnerStays DEF O!Publish
  <1>2. CASE O!Inactive
    BY <1>2, StageFacts, StageMoves DEF O!Inactive
  <1>3. CASE O!Capture
    BY <1>3, StageFacts, StageMoves DEF O!Capture
  <1>4. CASE O!RejectHost
    <2>1. CASE attached.stage = "capture"
      BY <1>4, <2>1, StageFacts, StageMoves DEF O!RejectHost, O!Blocks
    <2>2. CASE attached.stage # "capture"
      BY <1>4, <2>2, OwnerStays DEF O!RejectHost
    <2> QED BY <2>1, <2>2
  <1>5. CASE O!Identify
    <2>1. attached.stage = "bind" /\ UNCHANGED <<told, workflow, registry>>
      BY <1>5 DEF O!Identify
    <2>2. registry[attached.session] = 0
      BY <2>1 DEF OwnerInv, AdmittingInv
    <2> QED BY <1>5, <2>1, <2>2, StageFacts, StageMoves DEF O!Identify, O!Blocks
  <1>6. CASE O!RolledBack
    BY <1>6, StageFacts, StageMoves DEF O!RolledBack, O!Blocks
  <1>7. ASSUME NEW n \in O!Attachments, NEW how \in {"closed", "broken"}, O!ShutdownEnds(n, how)
        PROVE  OwnerInv'
    BY <1>7, ShutdownKeeps DEF O!ShutdownEnds
  <1>8. CASE O!Turn
    BY <1>8, OwnerStays DEF O!Turn
  <1>9. CASE UNCHANGED O!admissionVars
    BY <1>9, OwnerStays DEF O!admissionVars
  <1> QED BY <1>1, <1>2, <1>3, <1>4, <1>5, <1>6, <1>7, <1>8, <1>9, SessionStartKeeps, AttachKeeps,
             CleanUpKeeps, CleanedUpKeeps, RecoverKeeps, InitializeKeeps, TellShutdownKeeps
          DEF O!AdmissionNext

\* The registry of the process accounts for every Workflow that is not shut down, through
\* any number of reloads, replacements and failures.
THEOREM OwnersAreRegistered == O!AdmissionSpec => []OwnerInv
  BY OwnerInitHolds, OwnerNextKeeps, PTL DEF O!AdmissionSpec

\* initializeOwnerWorkflow never builds a coordinator while a Workflow that the session had
\* before is not completely shut down, except for one that was never admitted and failed to
\* shut down.
THEOREM OneWorkflowLives == O!AdmissionSpec => []OneLiveWorkflow
  <1>1. OwnerInv => OneLiveWorkflow
    <2> SUFFICES ASSUME OwnerInv, NEW n \in O!Attachments, NEW k \in O!Attachments, n # k,
                        workflow[n].session = workflow[k].session, workflow[n].session # NoSession,
                        workflow[n].state \in {"building", "open"}
                 PROVE  \/ workflow[k].state = "closed"
                        \/ workflow[k].state = "broken" /\ ~workflow[k].served
      BY DEF OneLiveWorkflow, O!OneLiveWorkflow
    <2>1. registry[workflow[n].session] \in {0, n} /\ n # 0 /\ k # 0
      BY AttachmentAssumption DEF OwnerInv, RegisteredInv, AdmittingInv, O!Attachments
    <2>2. CASE workflow[k].served
      <3>1. workflow[k].state # "closed" => registry[workflow[n].session] = k
        BY <2>2 DEF OwnerInv, RegisteredInv
      <3> QED BY <2>1, <3>1
    <2>3. CASE ~workflow[k].served
      <3>1. workflow[k].state \in {"absent", "building", "open", "closing", "closed", "broken"}
        BY DEF OwnerInv, OwnerTypes, WorkflowRecord
      <3>2. workflow[k].state \notin {"absent", "open"}
        BY <2>3 DEF OwnerInv, RegisteredInv
      <3>3. ASSUME workflow[k].state \in {"building", "closing"} PROVE FALSE
        <4>1. k = attached.n /\ attached.stage \in {"initialize", "rollback"}
          BY <2>3, <3>3 DEF OwnerInv, RegisteredInv
        <4>2. registry[attached.session] = 0 /\ workflow[k].session = attached.session
          BY <4>1 DEF OwnerInv, AdmittingInv
        <4>3. workflow[n].state = "open" /\ workflow[n].served
          BY <4>1 DEF OwnerInv, RegisteredInv
        <4>4. registry[workflow[n].session] = n
          BY <4>3 DEF OwnerInv, RegisteredInv
        <4> QED BY <2>1, <4>2, <4>4
      <3> QED BY <2>3, <3>1, <3>2, <3>3
    <2> QED BY <2>2, <2>3
  <1> QED BY <1>1, OwnersAreRegistered, PTL
=============================================================================
