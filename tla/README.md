# A verification of create-rigel in TLA+

create-rigel scaffolds a repository from a template (or a company layer on top
of one), or adopts an existing one, and stays responsible for the files it
placed: it records what it wrote, brings those files forward with
`create-rigel update`, and leaves the owner's work alone. Inside the repository
it installs a set of scripts that decide whether work may pass: the gate, the
red-green proof and the acceptance vector, the regression demand, the contract
gate. A third part, the eval harness, measures the templates themselves.

This directory models the parts where a promise spans several commands, several
actors or a crash, checks them with TLC on small instances, and proves the
central properties with TLAPS for every value of the constants: every invariant
and every action property a passing run checks has a theorem.
`PROJECT.json` maps every definition to the source lines it stands for.

## Inventory

| Component | State it keeps | Operations | Talks to | What is hard |
|---|---|---|---|---|
| Provenance record: `lib/manifest.mjs`, `ownership.json` | `.rigel/manifest.json`: hash per managed file, `deletedByUser`, `baseline`, layer | build, rewrite, read, list edited files | written by scaffold, adopt, update; read by update, verify, doctor | the record must say what Rigel wrote, never merely what is there |
| Update: `lib/update.mjs`, `cmdUpdate` in `cli.js` | working tree, `.rigel-new` sidecars, the record | plan (three-way over BASE, MINE, THEIRS), apply file by file, re-record | materialised release, git status, owner | crash between copies and record; owner saving meanwhile; deletions and edits remembered over many versions |
| Placement and adopt: `lib/install.mjs`, `cmdAdopt` | working tree, `.pre-rigel` copies, the record | plan, move aside, place, claim, baseline | owner's files, release | no record exists until the end, so a resumed run must recognise its own files |
| Scaffolding, layers: `cli.js`, `lib/layer.mjs` | new tree, record, layer reference | materialise, overlay, record | git, update | what a later update compares against |
| Acceptance: `redgreen-record.mjs`, `ac-vector.mjs`, `lib/rigel-evals.mjs` | jest report, `.rigel/redgreen/*`, `.rigel/ac-results/*` | record red, grade | spec, hold-out tests, runner | stale or missing reports; order of proving, building, editing, grading |
| Gate and failure log: `gate.mjs`, `gate.sh`, `record-failure.mjs`, `debug-regression.mjs` and their ports | `gate-failures.jsonl`, `.rigel/regressions/*` | run the chain, append once per commit, demand a test on recurrence | git HEAD, plan, tests | read-then-append; demands raised when the bug is gone |
| Lessons: `curate-scan.mjs`, `verify-promotion.mjs` and their ports | lessons with `seen`, `last_seen`, status | scan, curate, promote, delete | same failure log | one count made of failures of one plan, of no plan, of merged lessons; dates that are older than the failure |
| rigel-verify, doctor: `rigel-verify.mjs`, `rigel_verify.py`, `lib/doctor.mjs` | none; none; read record, disk, waivers, sidecars, package.json, gate.sh block the gate; describe health | manifest, update, gate chain | two programs answering one question from one tree |
| Knowledge: `lib/knowledge.mjs`, `rigel-knowledge.mjs`, `lib/candidates.mjs` | glossary in layer and services | check anchors, propose terms, publish, lay down at scaffold | sources, layer, gate | each service holds only its own terms to the code, and knows its name from its directory |
| Contract gate: `contract-gate.mjs`, `contract_gate.py` | exported `openapi.json`, `.oasdiff-ignore` | freshness, exemptions, breaking change, declared impact | oasdiff, git, specs | the export rewrites the file it compares |
| Spec grilling: `lib/grill.mjs`, `grill-record.mjs` | grill record per spec | check, record | spec | the record outlives the text it was made from |
| Golden nightly: `run-trial.mjs`, `golden-nightly.mjs`, `score.mjs`, `regress.mjs`, `load-golden.mjs` | trial files in a directory per commit, baseline, report | run k trials, score, compare, set a baseline | an agent and its budget, the template's gate, a human | left-over and errored trials, thresholds, a baseline that must not follow the runs |
| Judges and champion: `calibrate.mjs`, `promotion-check.mjs`, `parity.mjs`, `champion.mjs` | calibration report, `judge-config.json` | agreement beyond chance, promotion, parity, sign test | humans who label | agreement that is not skill; reports that grow old; pairs that meet by place |
| Service map and impact: `lib/map.mjs`, `lib/impact.mjs`, `cli.js` | facts, their copies in the layer, the index, its copies in the services | facts, map build, scaffold and update, impact | contracts, layer | four caches refreshed by hand; an update that removes what the scaffold laid; two providers of one API |
| Blast radius: `lib/blast.mjs`, hook | import graph, files shown in this session | rank, deny once, list importers | an agent's edits | cycles, ties, a graph that changes under the hook |
| Design notes: `lib/design.mjs`, `lib/decisions.mjs`, `mcp/design-notes.mjs` | notes, committed index, the server's index | index, check, search, read | spec, CI | three ages of the same notes on two machines |
| Linters and reports: `resume.mjs`, `syntax.mjs`, `silent.mjs`, `mcp.mjs`, `pipeline.mjs` | none | read and print | working tree | little: functions of their input |
| Templates, golden solutions | data | | | |

Nothing in create-rigel runs two threads. Its concurrency is between a command
and the person, agent or editor working in the same tree, and between commands
run one after another over months, any of which may die half-way. That is where
the hazards in `PROJECT.json` are.

## Modules

| Module | Models | Composes |
|---|---|---|
| `RigelPlans` | the pure decisions: `planInstall`, `planUpdate`, `buildManifest`, `rewriteManifest` over trees | |
| `OwnershipLedger` | the abstract promise: who wrote a path last, what Rigel placed, what it owns, which deletions are final | |
| `RigelUpdate` | the life of a repository: scaffold or adopt, edits, commits, releases, update step by step, crashes | `RigelPlans`; refines `OwnershipLedger` |
| `RigelUpdate_proofs` | theorems about it | |
| `RigelAdopt` | one adoption step by step: moves, copies, manifest, deaths (also inside a copy), other flags, races with the owner | `RigelPlans` |
| `RigelAdopt_proofs` | theorems about it | |
| `RigelAcceptance` | redgreen-record and ac-vector over one report file, the hold-out, the spec and the code | |
| `RigelAcceptance_proofs` | theorems about it | |
| `RigelGate` | gates overlapping over one chain, under `gate.mjs` or `gate.sh`; the failure log, the regression demand and its proofs | |
| `RigelLessons` | the same log on its way into lessons: both scanners, `/curate`, promotion, deletion | composed with `RigelGate` in `MCRigelGate` |
| `RigelGate_proofs` | theorems about these two | |
| `RigelNightly` | one golden spec: admission, k trials and every way one can end, scoring, regression, baseline, report | |
| `RigelJudges` | calibration by kappa, promotion to blocking, parity of a cheaper grader | |
| `RigelChampion` | pairing of trials and the sign test between two arms | |
| `RigelEvals_proofs` | theorems about `RigelNightly` and `RigelChampion` | |
| `RigelFleet` | contract, facts, layer, index, copies: every hop between a provider and its consumers | |
| `RigelContract` | the contract gate and its port, run locally and by CI on a branch that changes | |
| `RigelBlast` | the import graph, its ranking, the hook | |
| `RigelDependents_proofs` | theorems about these three: who depends on a service, a contract, a file | |
| `RigelDesign` | what a spec owes, the design check on two machines, the notes server | |
| `RigelDoctor` | rigel-verify, its port and doctor over one repository | `RigelPlans` |
| `RigelKnowledge` | the glossary through services and layer, the knowledge step and its port, candidates, doctor | |
| `RigelOpinions_proofs` | theorems about `RigelDesign`, `RigelDoctor`, `RigelKnowledge` and `RigelJudges` | |
| `RigelInduction` | lemmas on numbers: least and greatest elements, induction over a set, recursive functions as iterations | used by the proofs about lessons, champion and blast radius |
| `MCRigelUpdate`, `MCRigelAdopt`, `MCRigelAcceptance`, `MCRigelGate`, `MCRigelTooling` | values for TLC | the last two put several components side by side |

The templates ship each script twice, in JavaScript and in Python. Where the two
read a situation differently, or walk through it in another order, both are
modelled, the port under the same name with `Py`; a repository has one of them.
The JavaScript templates carry copies of most scripts: the map names the Express
copy, and for a definition that is only a part of another one a copy with the
same text in the NestJS or Next.js template.

### State and actions against the code

*Trees.* A tree is a function from `Path` to a content or `Absent`; a recorded
sha256 is the content it was taken of (hashing is taken to be injective). The
glob rules of `ownership.json` become the set `Managed`; `CORE_RE` and
`HARNESS_RE` become `Core` and `Harness`.

*RigelUpdate.* `disk`, `sidecar` are the working tree; `recorded`,
`deletedByUser`, `baseline`, `layer` are the fields of the manifest; `shipped`
is what `materialize()` yields from the released package; `running`, `theirs`,
`plan`, `mode`, `todo` are the locals of `cmdUpdate`. `PlanFromDisk` is
everything up to the early return "Already up to date", the dirty check
included; `CopyFile`, `WriteSidecar`, `RemoveFile` are the iterations of
`applyUpdate`, interleaved with the owner where `EditsWhileRunning`;
`RecordUpdate` is `rewriteManifest` and the write that follows. `Crash` ends
the command anywhere between. `lastWriter` and `placed` are history.

*RigelAdopt.* `Start` is the plan and the take-over decision, `MoveAside` one
`rename` to `.pre-rigel`, `Place` one copy, `WriteManifest` the end; `Throw` is
an early exit through the error handler, `Crash` and `CrashInCopy` the death of
the process, the latter leaving content `Torn` that is nobody's. `found` and
`aside` remember what the first run met.

*RigelAcceptance.* `tests[ac]` holds the kinds of tests titled with a
criterion: `real` ones fail until the criterion is met, `hollow` ones always
pass. `loading` are the criteria whose suite loads, `works` says whether the
runner gets as far as its report. `StartRed` and `StartVector` are the scripts
up to and including the test run, `RecordRed`, `RefuseRed`, `WriteVector` what
they do with the report; the developer acts in between. `ClearsReport` is the
one difference between templates: the Next.js copy of `runAcceptanceTests`
removes the old report first, the Express and NestJS copies do not. `accepted`,
`raced`, `fresh`, `blind`, `proven` are history that no action reads.

*RigelGate.* `runner` is the gate the template brought. `gate[g]` is where a run
stands: which step of `Chain`, whether an earlier one failed, and whether it is
about to spawn `record-failure`, or that script has read the log and is about to
append. `PassStep` and `FailStep` are the iterations of the loop, `After` the one
difference in control (gate.sh runs on), `ReadLog` and `AppendLine` (or
`AppendLinePy`, which looks the plan up last) the two halves of
`record-failure`, between which another gate may write. The step `Regression`
fails exactly while `Owed`, the answer of `debug-regression check`, is not
empty; other steps fail while they are `broken`. `RecordRed`, `RecordGreen` are
its other modes; a test may fail with the bug, pass always, or not run at all.
`EndPlan` is a plan leaving the active directory, with `/curate` emptying the
log under `ClearsLog`. `overlapped`, `rewritten` are history.

*RigelLessons.* `failures` is the log again, as curation sees it, `lessons` the
directory of lesson files, `current` and `active` the newest plan. `Scan` is
`curate-scan`: what to create, which lessons to increment, what is ambiguous,
ready, stale. `ReadLessons` and `CurrentPlan` are the reading that comes first,
where the ports differ (`seen: 1 # times` is NaN in one and 0 in the other).
`Curate` is `/curate` writing that down: an ambiguous signature goes to one of
its lessons or to none, and of two increments of one lesson the later write
stays. A plan may also end uncurated, and a human seeds, merges, distils,
promotes and deletes. `occasions` and `shared` are history.

*RigelNightly.* `dir` is `evals/trials/<spec>-<commit>`, `baseline` the committed
scorecard, `night` where `golden-nightly` stands. `StartNight` checks what
`load-golden` admits; `RunTrial` is `run-trial` with its endings (complete,
crashed, over budget); `ScoreAndReport` is `score`, `regress` and the report in
one; `NightDies` leaves what is on disk; `NewCommit` names another directory,
`AcceptBaseline` is the human. `trusted` is history.

*RigelJudges, RigelChampion.* A matrix counts how often two raters said PASS or
FAIL; kappa is compared with a threshold by multiplying out, so that nothing is
rounded. `RunPromotionCheck` reads the mode and the cited report as they are
that month. A directory of trials maps the numbers in their file names to trials.
`Place` is where `loadRun`, which sorts the names as text, puts a trial;
`Meetings` are the pairs of trials at one place, `Won` the checks that one of
them passed and the other failed, and `Significant` is the sign test.
`eval-lib.mjs` sums logarithms in floating point; the model counts the outcomes
exactly (`BinomialCdf` of `Outcomes`, from the rows of Pascal's triangle in
`Choose`).

*RigelFleet.* One variable per copy: `specs`, `facts`, `factsDir`, `index`,
`map`; `laid` is what the manifest of a service records of its copy of the
index. `Export`, `ApiSync`, `CmdFacts`, `CopyFacts`, `CmdMapBuild` are the hops
up, each by hand and at any time. Down there are two ways only: `Scaffold`, the
overlay of the layer's `knowledge/map` on a new repository, and `CopyMap`, a
copy by hand. `CmdUpdate` brings no index: it compares with the built-in
template, which has none, and removes the one that is as recorded (finding 2).
`PublishedAt` is where a stack's export puts its contract, which `ExtractFacts`
does not know. `vendored` is history.

*RigelContract.* `code`, `worktree`, `head`, `main` are four ages of one
contract. `LocalGate` exports into the worktree and decides there; `MergeAfterCI`
decides on a fresh checkout of `head`, and what it passes becomes `main`. A
contract is the set of its endpoints, and oasdiff the difference of two sets
less what `.oasdiff-ignore` names. `merged` is history.

*RigelBlast.* `imports` is the graph, `shown` the hook's memory of the session.
`HotSet` ranks by transitive importers up to `Depth`, level by level.

*RigelDesign.* A corpus is a function from notes to the headings of each. `own`
is the developer's, `refs` the committed `design-refs.json`, `server` the index
the notes server built at its start. `NoteMeant` is the note a citation means:
the one of that path, or else the first, in the order the corpus is walked
(`Walk`), whose path ends in it (`EndsIn`); a citation may name a section of it
or none. `CheckHere` and `CheckOnCI` are one check with and without a corpus;
whatever it reads changes only together with forgetting its verdict.

*RigelDoctor.* The record is that of `RigelPlans`, with waivers. `VerifyExit` is
rigel-verify's exit code for a way of reading files and a date: `Verify` reads
any file and takes the date in UTC, `VerifyPy` reads text and takes the date
where it runs, `GateVerifyPy` is the step of gate.sh, which calls it only if
there is a manifest. The two dates move on their own, a day apart at most.
`understood` is the schema the repository's own verifier knows, `Understands`
the one doctor's release does. `ProvenanceBad`, `IntegrityBad`, `WiringBad` are
doctor's sections. A gate is the text of package.json's `gate` and `gate:chain`
or of scripts/gate.sh; `names` is what occurs in each, which is what doctor
looks at (`Invoked`), `calls` what of it is a step (`Steps`). `Update` is a whole
`create-rigel update` by `PlanUpdate` and `RewriteManifest`, the same operators
the model of update uses, so this module also says what verifier and doctor
make of that update.

*RigelKnowledge.* `sources[s][t]` is where a service defines a term: in `src/`,
there in bytes that are not UTF-8, or beside package.json. `entries` is its
glossary, whose files may be text, other bytes, or unreadable; `layer` is the
company's. `Mjs` and `Py` are what each port reads. `KnowledgeStep` and
`KnowledgeStepPy` are the gate's step, `DoctorKnowledge` doctor's use of the same
function, `Proposals` what `candidates` prints, `Proposed` the entry that
`/backfill-knowledge` shows for it. `ScaffoldService` lays the layer's whole
glossary; afterwards entries are copied and deleted by hand, and
`DeleteEntries` is also what an update does to entries that are as it recorded
them, since no template ships any. `carries[s]` says whether `knowledge/` and the
library that the step imports are there. `Checkout[s]` is the directory name,
from which the step takes the service's name.

## Runs

| Run | Question | Instance |
|---|---|---|
| `update_safety` | Are deletions final, edits safe, divergences surfaced, and is the ledger implemented? | 2 managed files, 2 versions and 1 owner content, 2 releases, 2 edits, 1 crash, both conflict modes, no edits during an update |
| `update_raced` | What still holds when files are saved during an update, and do untouched files catch up? | 1 managed and 1 seed file, a layer, same bounds |
| `adopt` | Is adoption honest, convergent, non-destructive, and does it get through? | a core, a harness and a seed file, 2 deaths, 1 edit, 1 release |
| `acceptance` | Is what ac-vector accepts built, are proofs kept, is proven work accepted? | 2 criteria, 3 edits, old report left in place |
| `gate` | Does a demand need two commits, and does a passed regression check mean pinned failures? Are lessons promoted when earned and reported stale when quiet? | a failing check and the regression check, either runner, 2 gates, 2 commits, 2 plans; or 2 lessons and 2 signatures over 3 plans |
| `tooling` | Does an alarm mean replication, and keep ringing? Is trust in a judge earned, advice fair, the map free of phantoms and complete, a break permitted, the ranking right, a green design check backed, do verifier, doctor and knowledge step agree? | one component per behaviour, see below |
| `update_clobbers`, `update_drops_layer`, `update_baseline`, `update_crash`, `adopt_loses_backup`, `acceptance_unseen` | Does the code keep what a comment promises? It does not: see Findings | the same modules, smaller instances |

Two runs put components that share no state side by side. A behaviour is about
one of them: `learning` (in `gate`) and `moving` (in `tooling`) pick it in the
initial state and never change, the other components stay where they start. The
states of such a run are the sum of its components', and a property of one of
them means what it would mean in a run of its own.

Deadlock is not checked: every one of these programs may simply be left alone,
and the bounds stop the environment.

*Why the bounds are enough.* All decisions are made path by path, and paths
meet only through the set-valued record, the order of the copies, and the early
return; two paths show every such meeting. Two releases are needed to act on a
record an update wrote, and two owner edits to change something and then change
or delete it again. Contents are compared only for equality: a decision
compares at most three (BASE, MINE, THEIRS), so two shipped versions and one of
the owner's give every pattern. A second death during adoption meets every kind
of remnant the first can leave. For acceptance, three edits give the longest
interesting chain (build, break, and lose the runner) and two criteria let one
be proven while the other is not. For the gate, two gates are what a race for
the log takes and two commits what a demand takes; since a plan may end between
commits, a failure also recurs after the log was emptied. `Tested` limits for
which signatures somebody writes tests. For lessons, two lessons and two
signatures give every way of sharing, `StaleAfter = 2` with three plans gives a
lesson that is quiet and one that is not, and three occasions are what promotion
takes. In `tooling`: one criterion beside the gate check, one or two trials and
three nights, so that leftovers of a longer night meet a shorter one and a
baseline is older than a regression; matrices at and next to every threshold of
kappa; arms of up to three trials with every ending, the tenth among them, whose file
sorts before the second, three checks each, and a single trial with six, where
advice first becomes possible; three services, of which one publishes under
docs/generated and one in its root, one without a title; two exports or syncs;
two endpoints; three sources and a test, with up to two imports each; two notes,
one path the end of the other, four states of the library; two managed files,
two releases with their schemas, of which the second edits one file and drops
the other, one waiver, two days, npm gates and gate.sh, three acts of owners; two
services checked out under one name, one term, two slips (a slip is a change of
code, a file re-encoded or lost, an opt-out). The whole is about 586,000 states
and takes four minutes. Gates in `RigelGate` and endpoints are interchangeable,
and so are the two signatures: permuting them is the symmetry TLC uses, and no
property it is used with is about liveness.
Everything listed under *Proved* holds without any of these bounds, for the sets
and numbers the named assumptions allow.

Every property is checked to depend on the code: for each there is a
mutant in the module (an operator marked "Mutant") that makes TLC find it
violated.

## Fairness

`UntouchedFilesCatchUp` and `RecordCatchesUp` assume an update that is started
again and again with `--allow-dirty` and whose loop goes on while it is alive.
`AdoptGetsThrough` assumes that adoption with `--force-core` is tried again
after it died, and that its loop goes on. `ProvenWorkIsAccepted` assumes that a
script that was started ends and that somebody grades now and then; grading
competes with repeated proving for its turn, hence strong fairness on
`StartVector`. Nothing is assumed about owners, releases or crashes except that
the bounds run out.

## Proved

All of it for any set of paths, contents, layers, criteria and any bounds, from
the named assumptions on constants alone.

*RigelUpdate.* `TypeCorrect`; `ProvenanceInvariant`; from it
`OwnershipIsAuthorship`, `DeletedIsNotOwned`, `DeletionsAreFinal`,
`EditsSurviveUpdates`, `DivergenceIsSurfaced`, `AuthorshipIsOwnership` and
`ImplementsLedger`, the refinement of `OwnershipLedger`. None of these is inductive alone: whether a
copy may touch a path depends on a plan made some steps ago. `ProvenanceInv`
adds what links the plan to the present: an update not running has nothing to
do (`JobInv`), the disk under a running update is what the plan saw except
where it has already worked (`PlanStillHolds`), and nothing that diverges has
dropped out of the plan (`NothingHidden`). `AuthorshipIsOwnership` needs one
thing more: what Rigel placed is recorded, or the running update is about to
record it (`ClaimedOrAboutToBe`).

*RigelAdopt.* `AdoptTypeCorrect`; `AdoptionInvariant`; from it
`AdoptionIsHonest`, `InterruptedAdoptionConverges`, `AdoptionOverwritesNothing`.
The strengthening is `Resumable`: after any number of deaths every path is
either as it was found, moved aside, or already Rigel's, so that a new plan
made from bytes alone completes the old one.

*RigelAcceptance.* `TypeCorrect`; `AcceptanceHolds`; from it `AcceptedBuilt`
and `ProofsKept`, for both values of `ClearsReport`. `AcceptanceInv` needs
three links: the record and the grades agree (`RecordsAgree`), a criterion seen
to fail has no hollow test and gets none (`RedIsReal`, from the hold-out), and
a grading script nothing interfered with looks at the tree as it is
(`GradingIsCurrent`). It also says that an acceptance rests on a fresh report
exactly when a run started now would: otherwise starting another run could turn
a stale acceptance into a fresh one.

*RigelGate.* `TypeCorrect`; `GateInvariant`; from it `NoDemandForOneFailure`
and `CheckPins`, for any chain, any number of gates, commits and plans. That a
demand needs two commits follows from the log, but only while a gate that has
looked and not yet written is alone: `OncePerCommit` says both, and `overlapped`
marks the histories in which it was not. `RedIsReal` carries what `red` has seen
to the moment `check` trusts it.

*RigelLessons.* `LessonType`; `LessonInvariant`; from it `PromotionsAreEarned` and
`StaleAreQuiet`, for any signatures, lessons and plans. A count is a number in a
file, and nothing in the file says which failures it stands for. `LessonInv`
divides time at the end of the plan `k` in which the log was last emptied: what a
lesson has counted happened before (`CountsAreOld`), what the log holds happened
after (`LinesAreNew`), and nothing that happened after is missing from it
(`NewAreLogged`). A scan adds the second to the first, and since no occasion is
on both sides of `k` the sum is at most the number of occasions there were; a
signature moved to another lesson takes its occasions along. While a plan is
active the log reaches back before it (`NotCuratedYet`), so that one plan is not
counted twice. For staleness a lesson that was always alone with one signature
remembers the newest curated plan in which that failed (`AloneRemember`): later
ones are in the log, where the scan sees them.

*RigelNightly.* `AlarmsReplicated`, `AlarmsKeepRinging`, `GreenEarned`, for any
criteria and any values of `--k`. `NightlyInv` says that a baseline is what the
first run or a human made of it and that the trials of a directory can be
counted; the properties of a report then follow when it is written.

*RigelChampion.* `AdviceFair`, for arms of any trials and any checks. With the
same trials in both directories a trial's place is the same in both, however
names sort, so that it meets its own number (`PlaceAmongFinished`, the mutant,
would shift it by what crashed). That advice is mirrored is the symmetry of the
test. That it takes a lead of six is a fact about coins: at most `k` heads of
`2k + 5` are never rarer than one in forty (`FiveApart`), because two more coins
and one more head leave at least four times as many outcomes (`CdfQuadruples`),
and fewer coins make it likelier (`CloseIsLikely`). A lead of five is therefore
never significant, however many pairs were compared.

*RigelFleet.* `NoPhantoms` and `ImpactFinds`, for any services, stacks and titles.
`FleetInv` says it of every hop: what a repository states of itself, what the
layer holds of it, what the index and each copy of it claim were all true of
something vendored. `NamesTell` is why titles must differ. `ImpactFinds` is the
other direction: where no hop up is left to make, the index can only be one in
which the provider of a titled contract is the one that published it, if it
publishes under docs/generated, and one in which it has no consumer, if not.

*RigelContract.* `PortsAgree`: gate and port pass the same trees, for all inputs
of both. From it `PermittedBreaks` and `MainCurrent`.

*RigelBlast.* `BlastType` and `HotAreHottest`, for any finite sets of files, any
imports, cut, floor and depth. What has been seen after `d` levels of the
breadth-first search from a file is what reaches it in at most `d` imports
(`BreadthFirst`, `SeenReach`): the search walks edges backwards from the file,
the definition of a user forwards from the user, and the two meet at the first
import (`FirstImport`). No file is on two levels, so the levels' lengths add up
to the number of users (`CountIsSeen`, `CountIsUsers`). Ranking by count and
then by name is a strict order; whoever is ahead has fewer ahead of him
(`AheadNested`), so at most `Cut` files have fewer than `Cut` ahead
(`RankedFirst`).

*RigelOpinions_proofs.* `VerdictsAreCurrent` (a design verdict still shown is
the one a check would give now), and from it `GreenBacked` and `Announced`.
`HealthType`, and from it `Agreement`: its state part compares the programs case
by case, and for its action part `UpdatesKeepGreen` shows of any update of a green
repository without sidecars what record and tree are afterwards. `KnowledgeType`,
that nothing ships before the scaffold (`ScaffoldedFirst`), what the two ports
read (`PortsRead`), and from these `VocabularyHeld`, for any directory names.
`TrustEarned`, for any matrices of natural numbers: kappa is at least a positive
threshold only if both raters used both labels.

*How induction is done.* The library's induction rules take an operator as a
parameter, which no installed prover instantiates. `RigelInduction` derives from
the library's well-foundedness of the numbers that a set of numbers has a least
element, from that induction over a *set* (`AllNumbers`), and from that, by
gluing together its finite beginnings, that an equation like those of `Choose`,
`BinomialCdf`, `Dependents` and `Within` defines a function (`Iteration`,
`Total`). The proofs about recursive functions above are instances: the set is
that of the numbers for which the fact holds.

*Assumptions.* Besides finiteness and the disjointness of values that stand for
different things: `NoneAssumption` (no service is called `None`),
`ValuesOfLessons` (the marks for no plan and an unreadable count are no numbers,
the one for no lesson is no signature), `ArmsAssumption` (a run is a finite sequence of
trials with finitely many checks). All of them hold of any input of the code.

*Only model-checked:* the three liveness properties that hold
(`UntouchedFilesCatchUp`, `AdoptGetsThrough`, `ProvenWorkIsAccepted`; liveness
under fairness and ENABLED are out of the prover's reach), and the violations.

## Findings

1. `update_clobbers`: re-recording hashes edited files too, so an edit becomes
   BASE and the update after next overwrites it (`lib/update.mjs:236`).
2. `update_drops_layer`: an update compares with the built-in template only and
   undoes a company layer (`cli.js:408`), its service map and glossary included:
   `lib/map.mjs:4`, `cli.js:498` and `lib/doctor.mjs:236` say that update brings
   the map.
3. `update_baseline`: the baseline of an adopted repository never reaches the
   planner (`cli.js:412`).
4. `update_crash`: an update that died before its manifest is never recorded by
   a later one, which returns early (`cli.js:428`).
5. `adopt_loses_backup`: a repeated take-over renames Rigel's remnant over the
   owner's saved file (`cli.js:229`).
6. `acceptance_unseen`: a suite that does not load proves all of its criteria
   red (`redgreen-record.mjs:62`).

Each is quoted against the comment it contradicts in `PROJECT.json`.
`AcceptedIsBuilt` and `EditsSinceRecordSurvive` are the strongest forms the code
does keep; their conditions (a fresh report, failures that were seen, edits
since the record, nobody saving during an update) are where findings 1 and 6
and the stale-report hazard begin.

Conditions of other properties mark the same kind of place, without a run of
their own:

- `StaleIsQuiet` speaks of lessons that were always alone with one signature: an
  ambiguous signature increments nothing, so a lesson that recurred in this very
  run can be reported stale (`curate-scan.mjs:126`).
- A `seen` that is no number is NaN in one scanner and 0 in the other; of two
  increments of one lesson the one written last stays.
- `GreenIsEarned` says that no finished trial failed: a spec all of whose trials
  errored is reported green as well (`golden-nightly.mjs:71`).
- `HotIsHottest` bounds the hot set by `Cut`, not by the 15% of `blast.mjs:20`:
  one file is always hot, and in a small repository that is more.
- `NoPhantomConsumer` and `ImpactFindsConsumers` need different API titles; the
  exporter's default title is the same for every service.
- `ImpactFindsConsumers` asks that the provider holds the present index, laid by
  its scaffold or copied by hand: no command refreshes it. And it says both what
  impact finds and what it does not: the comment at `lib/map.mjs:21` has a root
  `openapi.json` vendored, but the NestJS and FastAPI exports write theirs
  there, so such a service provides nothing to the map, is its own contract's
  consumer, and `impact` names nobody.
- `AdviceIsFair` counts pairs of a trial and a check. `champion.mjs:11-13` has a
  single pair or an unreplicated difference not clear the test: a single pair does
  not, but one trial graded on six checks is a lead of six, and two directories
  with different trials pair trials of different numbers.
- `BreaksByPermission` leaves out a main without a contract: a break goes through
  in two merges when the first deletes the contract.
- `GreenIsBacked` promises nothing for a malformed refs file, which is read as no
  index at all, nor agreement of check and server on different corpora. A citation
  outlives its note if another note's path ends in it: it then means that one.
- `OpinionsAgree` lists where the opinions differ. The ports take the date in UTC
  (`rigel-verify.mjs:68`) and at home (`rigel_verify.py:84`), so on one day they
  judge a waiver differently; gate.sh skips the verifier without a manifest, where
  the npm gate exits 2; doctor knows the schema of its own release, the verifier
  that of the repository's; doctor takes a check for run whose name occurs in the
  gate, in a comment too; and `create-rigel update`, its fix for deleted files,
  never restores one. That an update keeps green a verifier that was green is
  all it says of updates: what the record becomes of an edit is finding 1.
- `VocabularyIsHeld` speaks of the terms a checkout answers for, by its directory's
  name: under another name a service's own terms are skipped. `candidates.mjs:8-9`
  says that a proposed anchor resolves; a symbol defined outside `src/`, `app/` and
  `lib/` does not, and is excepted. Entries the Python port cannot decode are
  skipped by it, and a term whose entry cannot be read is proposed again, against
  `candidates.mjs:56`. An unowned term of the layer fails a fresh service.

## Abstractions, and what is not modelled

- One update at a time, one script at a time. Two updates of one tree at once
  have no lock in the code and are not claimed to work.
- The release does not change under a running update: `materialize()` has
  copied it before the plan is made.
- A copy is one step in `RigelUpdate`; that it may be cut short is modelled in
  `RigelAdopt`. Writing the manifest is one step in both.
- git is only its answer to `git status --porcelain`.
- A layer's `seed/`, its `knowledge/` but for map and glossary, prompts, stack choice, progress logs and
  all output are left out.
- A criterion's tests are edited only through `/write-spec`, as the hold-out
  hook enforces; the hook itself is agent configuration outside the sources.
- In `RigelGate` a plan is always active and HEAD always exists; without a HEAD
  `record-failure` does not look for duplicates. A regression test fails exactly
  while the check it was written for fails, or never, or does not run. Curation
  happens at the end of a plan, as the templates' `docs/design-docs/memory.md`
  prescribes, in one step; nothing in the sources clears the log, so that
  `/curate` does is the assumption `ClearsLog`. Which greps the steps of `gate.sh`
  are is left out: a step passes or fails.
- Lessons: overdue deadlines and the check of a deleted body are left out.
  `INVESTIGATED` and `VERIFIED`, between `OBSERVED` and `DISTILLED`, are states
  the scan does not look for, and are passed over.
- Evals: one golden spec stands for all, which share nothing; tokens and wording
  are left out. The agent is any outcome its trial can have.
- Map: capabilities and infrastructure names are carried along and decide
  nothing. Blast radius: what an import statement looks like is left out.
- Contract gate: warnings; what oasdiff calls breaking is an endpoint that left.
- Design: headings are members of a set; search, suggestions and the framing of
  requests are left out. Knowledge: ranking and parsing.
- Doctor is modelled where it judges (provenance, integrity, wiring, knowledge);
  its placement and convergence sections only describe. A gate.sh that names
  nothing looks like none; that a step is reached at all (gate.sh ends early
  without `src/`) is left out; nobody edits the verifier itself.
- Not modelled: spec grilling, the reports `resume` and `pipeline`, the linters
  over text (syntax, silent failures, MCP), the templates' application code. The
  linters decide how a line reads and keep no state; the reports are read by
  nobody; the templates are data to Rigel. Grilling has state, a record that is
  not bound to the text it was made from, and is the next candidate.

## Plan

1. Grilling as an extension of `RigelAcceptance`: a record, the spec it was made
   from, and the edits between; its binding to the text as an invariant.
2. Liveness as far as the prover goes: for each of the three properties the
   invariant that the scheduled step is possible, and a measure it decreases,
   both as action properties.
3. The lemmas of `RigelInduction` for recursion over finite sets, where a later
   model needs one.
