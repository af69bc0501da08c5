--------------------------- MODULE MCRigelTooling ---------------------------
(* Instances for TLC of the components beside the core: the eval harness,    *)
(* the fleet, the design check, the opinions about a repository.  They share *)
(* nothing, so a behaviour moves one of them and leaves the others where     *)
(* they start.  A comparison of arms keeps nothing: a behaviour makes one.   *)
EXTENDS RigelNightly, RigelJudges, RigelChampion, RigelFleet, RigelContract, RigelBlast,
        RigelDesign, RigelDoctor, RigelKnowledge, TLC

CONSTANTS a1, api, worker, web, get, post, note, topic, h1, f1, f2, v1, v2, bin,
          shop, depot, order

OneAc == {a1}
OneOrTwo == {1, 2}

Rated(pp, pf, fp, ff) == [pp |-> pp, pf |-> pf, fp |-> fp, ff |-> ff]

\* No item, one label throughout, a rater who always says PASS or FAIL, and
\* agreement at and next to every threshold.
SmallMatrices ==
  {Rated(0, 0, 0, 0), Rated(20, 0, 0, 0),
   Rated(18, 2, 0, 0), Rated(1, 0, 1, 0), Rated(0, 1, 0, 1),
   Rated(9, 1, 1, 9), Rated(8, 2, 2, 8), Rated(7, 3, 3, 7), Rated(7, 4, 3, 6)}

\* Up to three trials, one of them the tenth, each graded on three checks or cut
\* short; and a single trial graded on six.
SomeArms ==
  LET Grade(all) == [status |-> "COMPLETE", checks |-> [k \in 1..3 |-> all]]
      T == {Grade("PASS"), Grade("FAIL"), [status |-> "ERRORED", checks |-> << >>],
            [status |-> "COMPLETE", checks |-> (1 :> "PASS") @@ (2 :> "FAIL")]}
      Six(v) == 1 :> [status |-> "COMPLETE", checks |-> [k \in 1..6 |-> v[k]]]
  IN UNION {[D -> T] : D \in SUBSET {1, 2, 10}}
     \cup {Six(v) : v \in {[k \in 1..6 |-> IF k <= f THEN "FAIL" ELSE "PASS"] : f \in {0, 1, 6}}}

Titles == (api :> "Orders API") @@ (worker :> "Billing API") @@ (web :> Untitled)

\* One service publishes under docs/generated, one from its root, one vendors.
MixedFleet == (api :> "express") @@ (worker :> "nestjs") @@ (web :> "nextjs")

SomeSpecs == {{"read endpoint"}, {"read endpoint", "write endpoint", "entity"}}

\* note and topic/note, each with a heading or without: to cite the first is to
\* cite the end of the second.
TopicFirst == (topic :> 1) @@ (note :> 2)
TopicNote == {<<topic, note>>}
BundledNotes == topic :> {h1}
SomeLibraries == {(note :> {h1}) @@ (topic :> {}), note :> {}, topic :> {h1}, topic :> {}}

SomeDesigns ==
  [covers : {{"authorization", "rate-limiting"}, Trigger},
   cites : {{}, {[note |-> note, anchor |-> h1]}, {[note |-> note, anchor |-> NoAnchor]},
            {[note |-> topic, anchor |-> h1]}},
   written : {"well"}]
  \cup [covers : {Trigger}, cites : {{}}, written : {"hastily", "garbled"}]

\* The second release edits one check script and drops the other, and knows one
\* more schema.
Versions == <<[p \in Path |-> v1], [p \in Path |-> IF p = f1 THEN v2 ELSE Absent]>>
Schemas == <<2, 3>>

OneWaiver == {[path |-> f1, sha256 |-> v2, expires |-> 0, complete |-> TRUE]}

\* package.json with something opaque, or without the runner; and gate.sh with one
\* step commented out.
SomeGates ==
  LET Npm(g) == [r \in Part |-> IF r = "gate" THEN g ELSE IF r = "gate:chain" THEN {f1, f2} ELSE {}]
      Wired(names, calls) == [names |-> names, calls |-> calls, ci |-> "runs the gate"]
  IN {Wired(Npm({"opaque"}), Npm({"opaque"})), Wired(Npm({f1}), Npm({f1})),
      Wired(Only("shell", {f1, f2}), Only("shell", {f1}))}

\* Both services are checked out in directories of the same name.
OtherName == [s \in Repo |-> shop]

\* Nothing tells one endpoint from another.
Symmetry == Permutations({get, post})

VARIABLE moving  \* the component this behaviour is about

Components == {"nightly", "judges", "champion", "fleet", "contract", "blast", "design",
               "health", "knowledge"}

Init ==
  /\ moving \in Components
  /\ NightlyInit /\ JudgeInit /\ ChampionInit /\ FleetInit /\ ContractInit /\ BlastInit
  /\ DesignInit /\ HealthInit /\ KnowledgeInit
  /\ moving # "health" => gate = CHOOSE g \in Born : TRUE

evalVars == <<nightlyVars, judgeVars, championVars>>
repoVars == <<fleetVars, contractVars, blastVars>>
noteVars == <<designVars, healthVars, knowledgeVars>>

EvalNext ==
  \/ moving = "nightly" /\ NightlyNext /\ UNCHANGED <<judgeVars, championVars>>
  \/ moving = "judges" /\ JudgeNext /\ UNCHANGED <<nightlyVars, championVars>>
  \/ moving = "champion" /\ ChampionInit /\ ChampionNext /\ UNCHANGED <<nightlyVars, judgeVars>>

RepoNext ==
  \/ moving = "fleet" /\ FleetNext /\ UNCHANGED <<contractVars, blastVars>>
  \/ moving = "contract" /\ ContractNext /\ UNCHANGED <<fleetVars, blastVars>>
  \/ moving = "blast" /\ BlastNext /\ UNCHANGED <<fleetVars, contractVars>>

NoteNext ==
  \/ moving = "design" /\ DesignNext /\ UNCHANGED <<healthVars, knowledgeVars>>
  \/ moving = "health" /\ HealthNext /\ UNCHANGED <<designVars, knowledgeVars>>
  \/ moving = "knowledge" /\ KnowledgeNext /\ UNCHANGED <<designVars, healthVars>>

Next ==
  /\ UNCHANGED moving
  /\ \/ EvalNext /\ UNCHANGED <<repoVars, noteVars>>
     \/ RepoNext /\ UNCHANGED <<evalVars, noteVars>>
     \/ NoteNext /\ UNCHANGED <<evalVars, repoVars>>

Spec == Init /\ [][Next]_<<moving, evalVars, repoVars, noteVars>>
=============================================================================
