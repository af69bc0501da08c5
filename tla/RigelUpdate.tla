---------------------------- MODULE RigelUpdate ----------------------------
(***************************************************************************)
(* The life of one repository under provenance: it is born by a scaffold   *)
(* or by `create-rigel adopt`, its owner edits it, new versions of the     *)
(* template are released, and `create-rigel update` brings it forward.     *)
(*                                                                         *)
(* cmdUpdate is not one step.  It reads the manifest and hashes the disk   *)
(* (PlanFromDisk), then touches the files of the plan one at a time        *)
(* (CopyFile, WriteSidecar, RemoveFile) and writes the manifest last       *)
(* (RecordUpdate).  It may die between any two of these (Crash), and       *)
(* nothing stops an editor from saving a file meanwhile                    *)
(* (EditsWhileRunning).                                                    *)
(*                                                                         *)
(* The variables down to todo are the program's and the repository's; the *)
(* ones after it only observe, and bound the runs.                         *)
(***************************************************************************)
EXTENDS RigelPlans, Naturals

CONSTANTS RigelContent,      \* what Rigel's versions and layers may ship
          Core, Harness,     \* paths CORE_RE / HARNESS_RE match
          Layers,            \* managed/ overlays a company layer may bring
          Modes,             \* the --conflict modes in use
          EditsWhileRunning, \* may the owner save files during an update?
          MaxReleases, MaxEdits, MaxCrashes   \* bounds

ASSUME RigelContentAssumption == RigelContent \subseteq Content
ASSUME CoreAssumption == Core \cup Harness \subseteq Managed
ASSUME LayersAssumption == Layers \subseteq [Path -> RigelContent \cup {Absent}]
ASSUME ModesAssumption == Modes \subseteq {"sidecar", "theirs"}
ASSUME BoundsAssumption == {MaxReleases, MaxEdits, MaxCrashes} \subseteq Nat
ASSUME EditsAssumption == EditsWhileRunning \in BOOLEAN

VARIABLES
  disk,          \* the working tree
  sidecar,       \* sidecar[p] is the file <p>.rigel-new
  born,          \* .rigel/manifest.json exists
  recorded,      \* manifest.files
  deletedByUser, \* manifest.deletedByUser
  baseline,      \* manifest.baseline
  clean,         \* `git status --porcelain` prints nothing
  shipped,       \* what materialize() produces from the released package
  running,       \* an update is past its checks
  theirs,        \* the running update's materialised version
  plan,          \* the running update's plan
  mode,          \* the running update's conflict mode
  todo,          \* the files of the plan it has not touched yet
  layer,         \* the layer the repository was scaffolded with
  lastWriter,    \* who last changed each path
  placed,        \* paths Rigel wrote, or found identical to what it ships
  releases, edits, crashes

manifestVars == <<born, recorded, deletedByUser, baseline>>
jobVars == <<running, theirs, plan, mode, todo>>
boundVars == <<releases, edits, crashes>>
vars == <<disk, sidecar, manifestVars, clean, shipped, jobVars, layer,
          lastWriter, placed, boundVars>>

RigelTree == [Path -> RigelContent \cup {Absent}]
Writer == {"nobody", "user", "rigel"}

TypeOK ==
  /\ disk \in Tree /\ sidecar \in Tree
  /\ born \in BOOLEAN /\ clean \in BOOLEAN /\ running \in BOOLEAN
  /\ recorded \in Tree /\ Present(recorded) \subseteq Managed
  /\ deletedByUser \subseteq Path /\ baseline \subseteq Path
  /\ shipped \in RigelTree /\ layer \in RigelTree /\ theirs \in RigelTree
  /\ plan \in UpdatePlan /\ mode \in {"sidecar", "theirs"}
  /\ todo \subseteq Path
  /\ lastWriter \in [Path -> Writer] /\ placed \subseteq Path
  /\ releases \in Nat /\ edits \in Nat /\ crashes \in Nat

\* A directory somebody may already have filled, and no Rigel in it yet.
Init ==
  /\ disk \in Tree /\ sidecar = EmptyTree
  /\ born = FALSE /\ recorded = EmptyTree
  /\ deletedByUser = {} /\ baseline = {} /\ clean = TRUE
  /\ shipped \in RigelTree /\ layer = EmptyTree
  /\ running = FALSE /\ theirs = EmptyTree /\ plan = NoPlan
  /\ mode = "sidecar" /\ todo = {}
  /\ lastWriter = [p \in Path |-> IF disk[p] = Absent THEN "nobody" ELSE "user"]
  /\ placed = {} /\ releases = 0 /\ edits = 0 /\ crashes = 0

-----------------------------------------------------------------------------
(* Birth. *)

\* applyLayer's managed/ overlay: every file of it is written over the base.
Overlay(base, over) ==
  [p \in Path |-> IF over[p] = Absent THEN base[p] ELSE over[p]]

(* main(): an empty directory receives the template and the layer, and     *)
(* every managed file of the result is recorded.                           *)
Scaffold(over) ==
  /\ ~born /\ Present(disk) = {}
  /\ disk' = Overlay(shipped, over)
  /\ recorded' = BuildManifest(disk', Present(disk'))
  /\ born' = TRUE /\ layer' = over
  /\ lastWriter' = [p \in Path |-> IF disk'[p] = Absent THEN lastWriter[p] ELSE "rigel"]
  /\ placed' = Present(disk')
  /\ clean' = FALSE
  /\ UNCHANGED <<sidecar, deletedByUser, baseline, shipped, jobVars, boundVars>>

(* cmdAdopt, when it runs through: what is absent is placed, what is       *)
(* identical is claimed, what differs is declined unless a flag takes it   *)
(* over.  RigelAdopt opens this step up.                                   *)
Adopt(forceCore, takeHarness) ==
  LET first    == PlanInstall(shipped, disk)
      core     == first.declined \cap Core
      stale    == (first.declined \cap Harness) \ Core
      takeOver == (IF forceCore THEN core ELSE {})
                  \cup (IF takeHarness THEN stale ELSE {})
      written  == first.added \cup takeOver
  IN /\ ~born
     /\ forceCore \/ core = {}
     /\ disk' = [p \in Path |-> IF p \in written THEN shipped[p] ELSE disk[p]]
     /\ recorded' = BuildManifest(disk', written \cup first.identical)
     /\ baseline' = first.declined \ takeOver
     /\ born' = TRUE
     /\ lastWriter' = [p \in Path |-> IF p \in written THEN "rigel" ELSE lastWriter[p]]
     /\ placed' = written \cup first.identical
     /\ clean' = FALSE
     /\ UNCHANGED <<sidecar, deletedByUser, shipped, jobVars, layer, boundVars>>

-----------------------------------------------------------------------------
(* The owner of the repository, git, and the release of a new version. *)

UserMayAct == born /\ (running => EditsWhileRunning)

\* Any save or deletion: an edit, a revert, taking over a sidecar's content.
UserWrites(p, c) ==
  /\ UserMayAct /\ edits < MaxEdits /\ disk[p] # c
  /\ disk' = [disk EXCEPT ![p] = c]
  /\ lastWriter' = [lastWriter EXCEPT ![p] = "user"]
  /\ edits' = edits + 1 /\ clean' = FALSE
  /\ UNCHANGED <<sidecar, manifestVars, shipped, jobVars, layer, placed,
                 releases, crashes>>

UserDeletesSidecar(p) ==
  /\ UserMayAct /\ sidecar[p] # Absent
  /\ sidecar' = [sidecar EXCEPT ![p] = Absent] /\ clean' = FALSE
  /\ UNCHANGED <<disk, manifestVars, shipped, jobVars, layer, lastWriter,
                 placed, boundVars>>

GitCommit ==
  /\ UserMayAct /\ ~clean /\ clean' = TRUE
  /\ UNCHANGED <<disk, sidecar, manifestVars, shipped, jobVars, layer,
                 lastWriter, placed, boundVars>>

\* A running update has materialised its version: a release in the middle of
\* it is the same as one right after.
Release(tree) ==
  /\ ~running /\ releases < MaxReleases /\ tree # shipped
  /\ shipped' = tree /\ releases' = releases + 1
  /\ UNCHANGED <<disk, sidecar, manifestVars, clean, jobVars, layer,
                 lastWriter, placed, edits, crashes>>

-----------------------------------------------------------------------------
(* create-rigel update. *)

Copies(pl, m) == pl.overwrite \cup pl.added \cup (IF m = "theirs" THEN pl.conflict ELSE {})
Sidecars(pl, m) == IF m = "theirs" THEN {} ELSE pl.conflict

(* Mutant: a plan that only deletes is taken for "nothing to do". *)
WorkWithoutRemovals(pl) == pl.overwrite \cup pl.added \cup pl.conflict

\* The four lists cmdUpdate's `total` counts; the others touch nothing.
Work(pl) == pl.overwrite \cup pl.added \cup pl.removed \cup pl.conflict

(* Up to `if (total === 0) return`.  planUpdate is called without the      *)
(* manifest's baseline, so its default, the empty list, is what it sees.   *)
PlanFromDisk(allowDirty, m) ==
  /\ born /\ ~running
  /\ clean \/ allowDirty
  /\ theirs' = ManagedOnly(shipped)
  /\ plan' = PlanUpdate(recorded, ManagedOnly(disk), theirs', deletedByUser, {})
  /\ Work(plan') # {}
  /\ running' = TRUE /\ mode' = m /\ todo' = Work(plan')
  /\ UNCHANGED <<disk, sidecar, manifestVars, clean, shipped, layer,
                 lastWriter, placed, boundVars>>

\* applyUpdate's copy(p): overwrite and added first, then conflicts in order.
CopyFile(p) ==
  /\ running /\ p \in todo \cap Copies(plan, mode)
  /\ p \in plan.conflict => todo \cap (plan.overwrite \cup plan.added) = {}
  /\ disk' = [disk EXCEPT ![p] = theirs[p]]
  /\ lastWriter' = [lastWriter EXCEPT ![p] = "rigel"]
  /\ placed' = placed \cup {p}
  /\ todo' = todo \ {p} /\ clean' = FALSE
  /\ UNCHANGED <<sidecar, manifestVars, shipped, running, theirs, plan, mode,
                 layer, boundVars>>

(* Mutant: a sidecar already lying there is not refreshed. *)
WriteSidecarOnce(p) ==
  /\ running /\ p \in todo \cap Sidecars(plan, mode)
  /\ todo \cap Copies(plan, mode) = {}
  /\ sidecar' = [sidecar EXCEPT ![p] = IF @ = Absent THEN theirs[p] ELSE @]
  /\ todo' = todo \ {p} /\ clean' = FALSE
  /\ UNCHANGED <<disk, manifestVars, shipped, running, theirs, plan, mode,
                 layer, lastWriter, placed, boundVars>>

\* copy(p, `${p}.rigel-new`)
WriteSidecar(p) ==
  /\ running /\ p \in todo \cap Sidecars(plan, mode)
  /\ todo \cap Copies(plan, mode) = {}
  /\ sidecar' = [sidecar EXCEPT ![p] = theirs[p]]
  /\ todo' = todo \ {p} /\ clean' = FALSE
  /\ UNCHANGED <<disk, manifestVars, shipped, running, theirs, plan, mode,
                 layer, lastWriter, placed, boundVars>>

\* rm(p, { force: true }), after everything has been written.
RemoveFile(p) ==
  /\ running /\ p \in todo \cap plan.removed
  /\ todo \subseteq plan.removed
  /\ disk' = [disk EXCEPT ![p] = Absent]
  /\ lastWriter' = [lastWriter EXCEPT ![p] = "rigel"]
  /\ todo' = todo \ {p} /\ clean' = FALSE
  /\ UNCHANGED <<sidecar, manifestVars, shipped, running, theirs, plan, mode,
                 layer, placed, boundVars>>

Idle ==
  /\ running' = FALSE /\ theirs' = EmptyTree /\ plan' = NoPlan
  /\ mode' = "sidecar" /\ todo' = {}

\* The manifest is rewritten last, from the disk as it is now.
RecordUpdate ==
  /\ running /\ todo = {}
  /\ recorded' = RewriteManifest(recorded, disk, plan.overwrite \cup plan.added)
  /\ deletedByUser' = deletedByUser \cup plan.skippedDeleted
  /\ clean' = FALSE /\ Idle
  /\ UNCHANGED <<disk, sidecar, born, baseline, shipped, layer, lastWriter,
                 placed, boundVars>>

\* The process dies: what it did stays done, the manifest is the old one.
Crash ==
  /\ running /\ crashes < MaxCrashes
  /\ crashes' = crashes + 1 /\ Idle
  /\ UNCHANGED <<disk, sidecar, manifestVars, clean, shipped, layer,
                 lastWriter, placed, releases, edits>>

-----------------------------------------------------------------------------
Apply == \E p \in Path : CopyFile(p) \/ WriteSidecar(p) \/ RemoveFile(p)

Next ==
  \/ \E over \in Layers : Scaffold(over)
  \/ \E forceCore, takeHarness \in BOOLEAN : Adopt(forceCore, takeHarness)
  \/ \E p \in Path, c \in MaybeContent : UserWrites(p, c)
  \/ \E p \in Path : UserDeletesSidecar(p)
  \/ GitCommit
  \/ \E tree \in RigelTree : Release(tree)
  \/ \E allowDirty \in BOOLEAN, m \in Modes : PlanFromDisk(allowDirty, m)
  \/ Apply
  \/ RecordUpdate
  \/ Crash

Spec == Init /\ [][Next]_vars

-----------------------------------------------------------------------------
(* What must hold. *)

(* Every path the manifest claims was put there by Rigel, or was found     *)
(* byte-identical to what Rigel ships: sitting in a managed directory is   *)
(* not enough, however many updates have run and wherever they died        *)
(* (rewriteManifest's contract).                                           *)
OwnsOnlyWhatItPlaced == Present(recorded) \subseteq placed

(* A deletion that was recorded and ownership exclude each other: a path   *)
(* in deletedByUser is not in manifest.files, or verify would demand a     *)
(* file that update refuses to write.  Needs the repository to be left     *)
(* alone while an update runs.                                             *)
DeletedNeverOwned ==
  EditsWhileRunning \/ Present(recorded) \cap deletedByUser = {}

(* A deletion that reached the manifest is final: no later scaffold, plan  *)
(* or copy of Rigel's brings the file back, only its owner does (PLAN-008: *)
(* "deleted by user: do not resurrect").                                   *)
NeverRevived ==
  [][\A p \in deletedByUser :
       disk'[p] \notin {disk[p], Absent} => lastWriter'[p] = "user"]_vars

(* What the owner changed since the record was last written is not touched *)
(* by an update, planned from an older look at the disk or not, unless     *)
(* --conflict=theirs asked for it.                                         *)
EditsSinceRecordSurvive ==
  [][\A p \in Path :
       (/\ born /\ ~EditsWhileRunning
        /\ disk[p] \notin {Absent, recorded[p], disk'[p]})
       => \/ lastWriter'[p] = "user"
          \/ p \in plan.conflict /\ mode = "theirs"]_vars

(* When an update records itself, every file that differs from the version *)
(* it brought is one upstream did not change, or has this version beside   *)
(* it as a sidecar: no divergence passes in silence.                       *)
DivergenceSurfaced ==
  [][(running /\ ~running' /\ crashes' = crashes /\ ~EditsWhileRunning)
     => \A p \in Candidates(theirs, deletedByUser) :
          disk[p] \notin {Absent, theirs[p]}
          => theirs[p] \in {recorded[p], sidecar[p]}]_vars

(* The converse of OwnsOnlyWhatItPlaced: what Rigel put into a managed     *)
(* path, and nobody touched since, is in the record as it is.  It holds    *)
(* while no update was interrupted and none ran with --conflict=theirs     *)
(* (which writes new paths without claiming them).                         *)
PlacedIsOwned ==
  (~running /\ crashes = 0 /\ "theirs" \notin Modes)
  => \A p \in Managed \cap Present(disk) :
       lastWriter[p] = "rigel" => recorded[p] = disk[p]

(* The invariant these rest on, which is inductive.  Before its birth a    *)
(* repository has no record.  A running update still has to do only what   *)
(* it planned, has placed what it will claim, and writes to no path whose  *)
(* deletion is, or is about to be, recorded.                               *)
Unborn ==
  ~born => /\ ~running /\ placed = {} /\ deletedByUser = {}
           /\ Present(recorded) = {}

JobInv ==
  running => /\ todo \subseteq Work(plan)
             /\ plan.overwrite \cup plan.added \subseteq placed \cup todo
             /\ plan.overwrite \cup plan.added \cup plan.conflict
                  \subseteq Candidates(theirs, deletedByUser \cup plan.skippedDeleted)
             /\ plan.removed \subseteq Present(recorded)
             /\ plan.removed \cap (plan.overwrite \cup plan.added) = {}

\* Left alone, the disk still is what the plan was made from, wherever the
\* update has not been yet.
PlanStillHolds ==
  (running /\ ~EditsWhileRunning)
  => /\ \A p \in todo \cap (plan.overwrite \cup plan.removed) : disk[p] = recorded[p]
     /\ \A p \in todo \cap plan.added : disk[p] = Absent
     /\ \A p \in plan.skippedDeleted \ deletedByUser : disk[p] = Absent

\* ... and wherever it has been or need not go, no divergence is left.
NothingHidden ==
  (running /\ ~EditsWhileRunning)
  => \A p \in Candidates(theirs, deletedByUser) \ todo :
       disk[p] \in {Absent, theirs[p]} \/ theirs[p] \in {recorded[p], sidecar[p]}

ProvenanceInv ==
  /\ TypeOK
  /\ OwnsOnlyWhatItPlaced
  /\ DeletedNeverOwned
  /\ Unborn
  /\ JobInv
  /\ PlanStillHolds
  /\ NothingHidden

(* The detailed program keeps the ledger's promise. *)
Ledger == INSTANCE OwnershipLedger
            WITH present <- Present(disk), writer <- lastWriter,
                 owned <- Present(recorded), gone <- deletedByUser

KeepsLedger == Ledger!LedgerSpec

(* Somebody keeps running update (the scheduled update rigel-verify speaks *)
(* of), and an update that was started goes on unless it dies.             *)
FairSpec ==
  /\ Spec
  /\ WF_vars(\E m \in Modes : PlanFromDisk(TRUE, m))
  /\ WF_vars(Apply) /\ WF_vars(RecordUpdate)

(* A file Rigel owns and nobody touched does not stay behind for ever:     *)
(* once releases, edits and crashes stop, whatever still matches its       *)
(* record matches the released version, which for a dropped file means it  *)
(* is gone.                                                                *)
UntouchedFilesCatchUp ==
  <>[](\A p \in Present(recorded) \ deletedByUser :
         disk[p] = recorded[p] => disk[p] = ManagedOnly(shipped)[p])

-----------------------------------------------------------------------------
(* What the repository's comments and documents say, and the code does not *)
(* do.                                                                     *)

(* lib/update.mjs: "both changed: sidecar, never clobber".  Content only   *)
(* the owner can have written is replaced or removed by its owner only.    *)
NeverClobbersEdit ==
  [][\A p \in Path :
       (born /\ disk[p] \in Content \ RigelContent /\ disk'[p] # disk[p])
       => lastWriter'[p] = "user" \/ mode = "theirs"]_vars

(* PLAN-008: "update works identically for a company layer and a built-in  *)
(* one".  A layer's file nobody edited is still there after an update that *)
(* knows of no newer layer.                                                *)
LayerSurvivesUpdate ==
  [][\A p \in Path :
       (layer[p] # Absent /\ disk[p] = layer[p] /\ disk'[p] # disk[p])
       => lastWriter'[p] = "user"]_vars

(* lib/update.mjs: a baselined file is "left alone, reported, never a      *)
(* sidecar".                                                               *)
BaselineNeverSidecar ==
  \A p \in baseline \ Present(recorded) : sidecar[p] = Absent

(* lib/manifest.mjs: the record is the "sha256 of EXACTLY what Rigel       *)
(* wrote", so that rigel-verify's `edited` names only what somebody        *)
(* edited.  Whatever dies in between, if the scheduled update keeps being  *)
(* run, a file nobody touched after Rigel wrote it ends up in the record   *)
(* as Rigel wrote it.                                                      *)
RecordCatchesUp ==
  <>[](\A p \in Managed \cap Present(disk) :
         lastWriter[p] = "rigel" => recorded[p] = disk[p])
=============================================================================
