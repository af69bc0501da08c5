----------------------------- MODULE RigelPlans -----------------------------
(***************************************************************************)
(* The pure decisions of provenance: which files a placement or an update  *)
(* may touch, and what the manifest claims afterwards.  Nothing here       *)
(* writes: lib/manifest.mjs, lib/install.mjs and lib/update.mjs take these *)
(* decisions from three maps and act on them later (RigelUpdate,           *)
(* RigelAdopt).                                                            *)
(*                                                                         *)
(* A file is its content: sha256 is taken to be injective, so a recorded   *)
(* hash is the content it was taken of.  Absent is null / undefined / "no  *)
(* such file".  The globs of ownership.json are fixed when a repository is *)
(* born and only tell managed paths from the others: Managed is the set of *)
(* paths classify() calls 'managed'.                                       *)
(***************************************************************************)
EXTENDS FiniteSets

CONSTANTS Path,      \* repo-relative paths
          Managed,   \* the paths classify() calls 'managed'
          Content,   \* what a file may hold
          Absent     \* no file, no recorded hash

ASSUME ManagedAssumption == Managed \subseteq Path
ASSUME AbsentAssumption == Absent \notin Content

MaybeContent == Content \cup {Absent}

\* A directory tree, or the "files" map of a manifest.
Tree == [Path -> MaybeContent]

EmptyTree == [p \in Path |-> Absent]

Present(tree) == {p \in Path : tree[p] # Absent}

\* managedOnly(hashes, ownership)
ManagedOnly(tree) == [p \in Path |-> IF p \in Managed THEN tree[p] ELSE Absent]

-----------------------------------------------------------------------------
(* planInstall: first contact with a directory. *)

(* Mutant: only what is newly written is claimed. *)
PlanInstallClaimsNewOnly(src, dest) ==
  [added     |-> Present(src) \ Present(dest),
   identical |-> {},
   declined  |-> {p \in Present(src) \cap Present(dest) : dest[p] # src[p]}]

(* Mutant: a file with the same bytes is written again. *)
PlanInstallRewritesIdentical(src, dest) ==
  LET same == {p \in Present(src) : dest[p] = src[p]}
  IN [added     |-> (Present(src) \ Present(dest)) \cup same,
      identical |-> {},
      declined  |-> (Present(src) \cap Present(dest)) \ same]

PlanInstall(src, dest) ==
  [added     |-> Present(src) \ Present(dest),
   identical |-> {p \in Present(src) : dest[p] = src[p]},
   declined  |-> {p \in Present(src) \cap Present(dest) : dest[p] # src[p]}]

(* Mutant: everything already on disk is claimed, not only what is         *)
(* identical to what Rigel ships.                                          *)
BuildManifestClaimingAll(root, owned) == ManagedOnly(root)

(* Mutant: the ownership classes are not consulted. *)
BuildManifestUnclassified(root, owned) ==
  [p \in Path |-> IF p \in owned THEN root[p] ELSE Absent]

\* buildManifest with `owned`: the hash of every managed path in it.  The
\* greenfield case (owned = null: the whole disk) passes Present(root).
BuildManifest(root, owned) ==
  [p \in Path |-> IF p \in owned THEN ManagedOnly(root)[p] ELSE Absent]

-----------------------------------------------------------------------------
(* planUpdate: BASE = recorded, MINE = mine, THEIRS = theirs. *)

UpdatePlan == [overwrite : SUBSET Path, drifted : SUBSET Path,
               conflict : SUBSET Path, added : SUBSET Path,
               removed : SUBSET Path, keptModified : SUBSET Path,
               skippedDeleted : SUBSET Path, declined : SUBSET Path]

NoPlan == [overwrite |-> {}, drifted |-> {}, conflict |-> {}, added |-> {},
           removed |-> {}, keptModified |-> {}, skippedDeleted |-> {},
           declined |-> {}]

(* Mutant: a recorded deletion is forgotten. *)
CandidatesIgnoringDeletions(theirs, deletedByUser) == Present(theirs)

\* What the new version ships and the user has not thrown away.
Candidates(theirs, deletedByUser) == Present(theirs) \ deletedByUser

(* Mutant: being in the record is taken for being untouched. *)
UntouchedIfRecorded(recorded, mine) == Present(recorded) \cap Present(mine)

\* MINE == BASE
Untouched(recorded, mine) ==
  {p \in Present(recorded) : mine[p] = recorded[p]}

PlanUpdate(recorded, mine, theirs, deletedByUser, baseline) ==
  LET known   == Present(recorded)
      shipped == Candidates(theirs, deletedByUser)
      differ  == {p \in shipped \cap Present(mine) : mine[p] # theirs[p]}
      edited  == (differ \cap known) \ Untouched(recorded, mine)
      dropped == (known \ Present(theirs)) \cap Present(mine)
      current == {p \in known : theirs[p] = recorded[p]}
  IN [added          |-> (shipped \ known) \ Present(mine),
      declined       |-> (differ \ known) \cap baseline,
      overwrite      |-> differ \cap Untouched(recorded, mine),
      drifted        |-> edited \cap current,
      conflict       |-> ((differ \ known) \ baseline) \cup (edited \ current),
      removed        |-> dropped \cap Untouched(recorded, mine),
      keptModified   |-> dropped \ Untouched(recorded, mine),
      skippedDeleted |-> (Present(theirs) \ shipped)
                         \cup ((shipped \cap known) \ Present(mine))]

(* Mutant: the disk walk rewriteManifest once did, before ownership was    *)
(* tied to authorship.                                                     *)
RewriteManifestByProximity(recorded, root, written) == ManagedOnly(root)

(* Mutant: what this update added is forgotten. *)
RewriteManifestOldOnly(recorded, root, written) ==
  BuildManifest(root, Present(recorded))

(* Mutant: a recorded file that is gone keeps its old hash. *)
RewriteManifestKeepingMissing(recorded, root, written) ==
  [p \in Path |-> IF p \in Present(recorded) \ Present(root) THEN recorded[p]
                  ELSE BuildManifest(root, Present(recorded) \cup written)[p]]

(* rewriteManifest: every path already recorded, and every path this       *)
(* update wrote, is re-hashed from disk if it is managed and still there.  *)
RewriteManifest(recorded, root, written) ==
  BuildManifest(root, Present(recorded) \cup written)
=============================================================================
