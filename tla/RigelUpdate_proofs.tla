------------------------ MODULE RigelUpdate_proofs ------------------------
(***************************************************************************)
(* Proofs about RigelUpdate for every set of paths, contents and layers,   *)
(* any bounds, and updates that die or race with an editor anywhere.       *)
(***************************************************************************)
EXTENDS RigelUpdate, TLAPS

-----------------------------------------------------------------------------
(* Facts about the plans. *)

(* A tree restricted to managed paths is a tree, and so is what            *)
(* buildManifest records; what it records is managed, claimed and there.   *)
LEMMA BuildManifestFacts ==
  ASSUME NEW root \in Tree, NEW claimed \in SUBSET Path
  PROVE  /\ BuildManifest(root, claimed) \in Tree
         /\ \A p \in Path : BuildManifest(root, claimed)[p] # Absent
              => p \in Managed /\ p \in claimed /\ root[p] # Absent
  BY DEF BuildManifest, ManagedOnly, Tree, MaybeContent

(* Restricting a tree of Rigel's to managed paths leaves a tree of Rigel's *)
LEMMA ManagedOnlyFacts ==
  /\ \A tree \in RigelTree : ManagedOnly(tree) \in RigelTree
  /\ \A tree \in Tree : ManagedOnly(tree) \in Tree
  /\ RigelTree \subseteq Tree
  /\ EmptyTree \in RigelTree
  BY RigelContentAssumption
  DEF ManagedOnly, RigelTree, Tree, MaybeContent, EmptyTree

(* An update plan is a record of sets of paths. *)
LEMMA PlanType ==
  ASSUME NEW rec, NEW ours, NEW new, NEW del, NEW base
  PROVE  PlanUpdate(rec, ours, new, del, base) \in UpdatePlan
  BY DEF PlanUpdate, UpdatePlan, Present, Candidates, Untouched

LEMMA NoPlanType == NoPlan \in UpdatePlan
  BY DEF NoPlan, UpdatePlan

-----------------------------------------------------------------------------
(* TypeOK is inductive. *)

LEMMA TypeStep == TypeOK /\ [Next]_vars => TypeOK'
<1> SUFFICES ASSUME TypeOK, [Next]_vars
             PROVE  TypeOK'
  OBVIOUS
<1>1. ASSUME NEW over \in Layers, Scaffold(over)
      PROVE  TypeOK'
  <2>1. over \in RigelTree
    BY LayersAssumption DEF RigelTree
  <2>2. disk' \in Tree /\ Present(disk') \in SUBSET Path
    BY <1>1, <2>1, ManagedOnlyFacts DEF TypeOK, Scaffold, Overlay, Tree, RigelTree, Present
  <2>3. recorded' \in Tree /\ Present(recorded') \subseteq Managed
    BY <1>1, <2>2, BuildManifestFacts DEF Scaffold, Present
  <2>4. QED
    BY <1>1, <2>1, <2>2, <2>3
    DEF TypeOK, Scaffold, jobVars, boundVars, Present, Writer
<1>2. ASSUME NEW forceCore \in BOOLEAN, NEW takeHarness \in BOOLEAN,
             Adopt(forceCore, takeHarness)
      PROVE  TypeOK'
  <2> DEFINE first == PlanInstall(shipped, disk)
             takeOver == (IF forceCore THEN first.declined \cap Core ELSE {})
                         \cup (IF takeHarness THEN (first.declined \cap Harness) \ Core ELSE {})
             written == first.added \cup takeOver
  <2>1. /\ first.added \subseteq Path /\ first.identical \subseteq Path
        /\ first.declined \subseteq Path
    BY DEF PlanInstall, Present
  <2>2. disk' \in Tree
    BY <1>2, <2>1, ManagedOnlyFacts DEF TypeOK, Adopt, Tree
  <2>3. written \cup first.identical \in SUBSET Path
    BY <2>1
  <2>4. recorded' = BuildManifest(disk', written \cup first.identical)
    BY <1>2 DEF Adopt
  <2>5. recorded' \in Tree /\ Present(recorded') \subseteq Managed
    BY <2>2, <2>3, <2>4, BuildManifestFacts DEF Present
  <2>6. placed' \subseteq Path /\ baseline' \subseteq Path
    BY <1>2, <2>1, <2>3 DEF Adopt
  <2>7. lastWriter' \in [Path -> Writer] /\ born' \in BOOLEAN /\ clean' \in BOOLEAN
    BY <1>2 DEF Adopt, TypeOK, Writer
  <2>8. UNCHANGED <<sidecar, deletedByUser, shipped, jobVars, layer, boundVars>>
    BY <1>2 DEF Adopt
  <2>9. QED
    BY <2>2, <2>5, <2>6, <2>7, <2>8 DEF TypeOK, jobVars, boundVars
<1>3. ASSUME NEW p \in Path, NEW c \in MaybeContent, UserWrites(p, c)
      PROVE  TypeOK'
  <2>1. disk' \in Tree
    BY <1>3 DEF TypeOK, UserWrites, Tree
  <2>2. lastWriter' \in [Path -> Writer]
    BY <1>3 DEF TypeOK, UserWrites, Writer
  <2>3. edits' \in Nat
    BY <1>3 DEF TypeOK, UserWrites
  <2>4. clean' \in BOOLEAN
    BY <1>3 DEF UserWrites
  <2>5. UNCHANGED <<sidecar, manifestVars, shipped, jobVars, layer, placed,
                    releases, crashes>>
    BY <1>3 DEF UserWrites
  <2>6. QED
    BY <2>1, <2>2, <2>3, <2>4, <2>5 DEF TypeOK, manifestVars, jobVars, Present
<1>4. ASSUME NEW p \in Path, UserDeletesSidecar(p)
      PROVE  TypeOK'
  BY <1>4 DEF TypeOK, UserDeletesSidecar, manifestVars, jobVars, boundVars, Tree,
              MaybeContent, Present
<1>5. CASE GitCommit
  BY <1>5 DEF TypeOK, GitCommit, manifestVars, jobVars, boundVars, Present
<1>6. ASSUME NEW tree \in RigelTree, Release(tree)
      PROVE  TypeOK'
  BY <1>6 DEF TypeOK, Release, manifestVars, jobVars, Present
<1>7. ASSUME NEW allowDirty \in BOOLEAN, NEW m \in Modes, PlanFromDisk(allowDirty, m)
      PROVE  TypeOK'
  <2>1. theirs' \in RigelTree
    BY <1>7, ManagedOnlyFacts DEF TypeOK, PlanFromDisk
  <2>2. plan' \in UpdatePlan
    BY <1>7, PlanType DEF PlanFromDisk
  <2>3. todo' \subseteq Path
    BY <1>7, <2>2 DEF PlanFromDisk, Work, UpdatePlan
  <2>4. mode' \in {"sidecar", "theirs"}
    BY <1>7, ModesAssumption DEF PlanFromDisk
  <2>5. QED
    BY <1>7, <2>1, <2>2, <2>3, <2>4
    DEF TypeOK, PlanFromDisk, manifestVars, boundVars, Present
<1>8. ASSUME NEW p \in Path, CopyFile(p)
      PROVE  TypeOK'
  <2>1. theirs[p] \in MaybeContent
    BY RigelContentAssumption DEF TypeOK, RigelTree, MaybeContent
  <2>2. QED
    BY <1>8, <2>1 DEF TypeOK, CopyFile, manifestVars, boundVars, Tree, Writer, Present
<1>9. ASSUME NEW p \in Path, WriteSidecar(p)
      PROVE  TypeOK'
  <2>1. theirs[p] \in MaybeContent
    BY RigelContentAssumption DEF TypeOK, RigelTree, MaybeContent
  <2>2. QED
    BY <1>9, <2>1 DEF TypeOK, WriteSidecar, manifestVars, boundVars, Tree, Present
<1>10. ASSUME NEW p \in Path, RemoveFile(p)
       PROVE  TypeOK'
  BY <1>10 DEF TypeOK, RemoveFile, manifestVars, boundVars, Tree, MaybeContent,
               Writer, Present
<1>11. CASE RecordUpdate
  <2>1. Present(recorded) \cup (plan.overwrite \cup plan.added) \in SUBSET Path
    BY DEF TypeOK, Present, UpdatePlan
  <2>2. recorded' \in Tree /\ Present(recorded') \subseteq Managed
    BY <1>11, <2>1, BuildManifestFacts DEF TypeOK, RecordUpdate, RewriteManifest, Present
  <2>3. deletedByUser' \subseteq Path
    BY <1>11 DEF TypeOK, RecordUpdate, UpdatePlan
  <2>4. QED
    BY <1>11, <2>2, <2>3, ManagedOnlyFacts, NoPlanType
    DEF TypeOK, RecordUpdate, Idle, boundVars
<1>12. CASE Crash
  <2>1. /\ theirs' \in RigelTree /\ plan' \in UpdatePlan
        /\ running' \in BOOLEAN /\ mode' \in {"sidecar", "theirs"} /\ todo' \subseteq Path
    BY <1>12, ManagedOnlyFacts, NoPlanType DEF Crash, Idle
  <2>2. crashes' \in Nat
    BY <1>12 DEF TypeOK, Crash
  <2>3. UNCHANGED <<disk, sidecar, manifestVars, clean, shipped, layer,
                    lastWriter, placed, releases, edits>>
    BY <1>12 DEF Crash
  <2>4. QED
    BY <2>1, <2>2, <2>3 DEF TypeOK, manifestVars, Present
<1>13. CASE UNCHANGED vars
  BY <1>13 DEF TypeOK, vars, manifestVars, jobVars, boundVars, Present
<1>14. QED
  BY <1>1, <1>2, <1>3, <1>4, <1>5, <1>6, <1>7, <1>8, <1>9, <1>10, <1>11, <1>12,
     <1>13 DEF Next, Apply

LEMMA InitType == Init => TypeOK
<1> SUFFICES ASSUME Init
             PROVE  TypeOK
  OBVIOUS
<1>1. Present(EmptyTree) = {}
  BY DEF Present, EmptyTree
<1>2. lastWriter \in [Path -> Writer]
  BY DEF Init, Writer
<1>3. QED
  BY <1>1, <1>2, ManagedOnlyFacts, NoPlanType DEF Init, TypeOK

(* Every variable keeps its type, and only managed paths are ever          *)
(* recorded: the seed and user files of ownership.json stay out of the     *)
(* manifest through births, updates and crashes.                           *)
THEOREM TypeCorrect == Spec => []TypeOK
  BY InitType, TypeStep, PTL DEF Spec

-----------------------------------------------------------------------------
(* What a plan made from the disk says about the disk. *)

LEMMA PlanFacts ==
  ASSUME NEW rec \in Tree, Present(rec) \subseteq Managed,
         NEW root \in Tree, NEW new, NEW ship \in RigelTree, new = ManagedOnly(ship),
         NEW del \in SUBSET Path,
         NEW pl, pl = PlanUpdate(rec, ManagedOnly(root), new, del, {})
  PROVE  /\ pl.overwrite \cup pl.added \cup pl.conflict
              \subseteq Candidates(new, del \cup pl.skippedDeleted)
         /\ pl.removed \subseteq Present(rec)
         /\ pl.removed \cap (pl.overwrite \cup pl.added) = {}
         /\ \A p \in pl.overwrite \cup pl.removed : root[p] = rec[p]
         /\ \A p \in pl.added : root[p] = Absent
         /\ \A p \in pl.skippedDeleted \ del : root[p] = Absent
         /\ \A p \in Candidates(new, del) \ Work(pl) :
              root[p] \in {Absent, new[p]} \/ new[p] = rec[p]
<1> DEFINE ours == ManagedOnly(root)
           known == Present(rec)
           shp == Candidates(new, del)
           differ == {p \in shp \cap Present(ours) : ours[p] # new[p]}
           edited == (differ \cap known) \ Untouched(rec, ours)
           current == {p \in known : new[p] = rec[p]}
           dropped == (known \ Present(new)) \cap Present(ours)
<1>1. \A p \in Managed : ours[p] = root[p]
  BY ManagedAssumption DEF ManagedOnly
<1>2. Present(new) \subseteq Managed /\ shp \subseteq Present(new) /\ shp \cap del = {}
  BY DEF Present, ManagedOnly, Candidates
<1>3. /\ pl.added = (shp \ known) \ Present(ours)
      /\ pl.overwrite = differ \cap Untouched(rec, ours)
      /\ pl.conflict = ((differ \ known) \ {}) \cup (edited \ current)
      /\ pl.removed = dropped \cap Untouched(rec, ours)
      /\ pl.skippedDeleted = (Present(new) \ shp) \cup ((shp \cap known) \ Present(ours))
  BY DEF PlanUpdate
<1> HIDE DEF ours, shp
<1>4. /\ differ \subseteq shp \cap Present(ours)
      /\ Untouched(rec, ours) \subseteq known
      /\ \A p \in Untouched(rec, ours) : ours[p] = rec[p]
  BY DEF Untouched
<1>5. \A p \in Path : ours[p] = Absent <=> p \notin Present(ours)
  BY DEF Present
<1>6. known \subseteq Path /\ Present(new) \subseteq Path
  BY DEF Present
<1>7. pl.overwrite \cup pl.added \cup pl.conflict
        \subseteq Candidates(new, del \cup pl.skippedDeleted)
  BY <1>2, <1>3, <1>4 DEF Candidates
<1>8. pl.removed \subseteq known /\ pl.removed \cap (pl.overwrite \cup pl.added) = {}
  BY <1>2, <1>3, <1>4
<1>9. \A p \in pl.overwrite \cup pl.removed : root[p] = rec[p]
  BY <1>1, <1>3, <1>4
<1>10. \A p \in pl.added : root[p] = Absent
  BY <1>1, <1>2, <1>3, <1>5, <1>6
<1>11. \A p \in pl.skippedDeleted \ del : root[p] = Absent
  <2>1. Present(new) \ shp \subseteq del
    BY DEF shp, Candidates
  <2>2. QED
    BY <1>1, <1>2, <1>3, <1>5, <1>6, <2>1
<1>12. \A p \in shp \ Work(pl) : root[p] \in {Absent, new[p]} \/ new[p] = rec[p]
  <2> SUFFICES ASSUME NEW p \in shp, p \notin Work(pl),
                      root[p] # Absent, root[p] # new[p]
               PROVE  new[p] = rec[p]
    OBVIOUS
  <2>1. p \in Managed /\ p \in Path /\ ours[p] = root[p]
    BY <1>1, <1>2, <1>6
  <2>2. p \in differ
    BY <1>5, <2>1
  <2>3. p \notin pl.overwrite /\ p \notin pl.conflict
    BY DEF Work
  <2>4. p \in current
    BY <1>3, <2>2, <2>3
  <2>5. QED
    BY <2>4
<1>13. QED
  BY <1>7, <1>8, <1>9, <1>10, <1>11, <1>12 DEF shp

-----------------------------------------------------------------------------
(* The provenance invariant is inductive. *)

(* ProvenanceInv without its type part. *)
RecordInv == /\ OwnsOnlyWhatItPlaced /\ DeletedNeverOwned /\ Unborn
        /\ JobInv /\ PlanStillHolds /\ NothingHidden

LEMMA ScaffoldKeepsInv ==
  ASSUME TypeOK, TypeOK', RecordInv, NEW over \in Layers, Scaffold(over)
  PROVE  RecordInv'
<1>1. deletedByUser' = {} /\ ~running' /\ born'
  BY DEF RecordInv, Unborn, Scaffold, jobVars
<1>2. placed' = Present(disk') /\ Present(disk') \in SUBSET Path
  BY DEF Scaffold, Present
<1>3. Present(recorded') \subseteq Present(disk')
  BY <1>2, BuildManifestFacts DEF TypeOK, Scaffold, Present
<1>4. QED
  BY <1>1, <1>2, <1>3
  DEF RecordInv, OwnsOnlyWhatItPlaced, DeletedNeverOwned, Unborn, JobInv,
      PlanStillHolds, NothingHidden, Present

LEMMA AdoptKeepsInv ==
  ASSUME TypeOK, TypeOK', RecordInv, NEW forceCore \in BOOLEAN, NEW takeHarness \in BOOLEAN,
         Adopt(forceCore, takeHarness)
  PROVE  RecordInv'
<1>1. deletedByUser' = {} /\ ~running' /\ born'
  BY DEF RecordInv, Unborn, Adopt, jobVars
<1>2. placed' \in SUBSET Path /\ recorded' = BuildManifest(disk', placed')
  BY DEF Adopt, TypeOK
<1>3. Present(recorded') \subseteq placed'
  BY <1>2, BuildManifestFacts DEF TypeOK, Present
<1>4. QED
  BY <1>1, <1>3
  DEF RecordInv, OwnsOnlyWhatItPlaced, DeletedNeverOwned, Unborn, JobInv,
      PlanStillHolds, NothingHidden, Present

(* The owner's actions matter only between updates, or when the model      *)
(* promises nothing about a disk that is edited under an update.           *)
LEMMA OwnerKeepsInv ==
  ASSUME TypeOK, TypeOK', RecordInv, UserMayAct,
         UNCHANGED <<manifestVars, jobVars, placed>>
  PROVE  RecordInv'
<1>1. running => EditsWhileRunning
  BY DEF UserMayAct
<1>2. UNCHANGED <<born, recorded, deletedByUser, running, theirs, plan, mode, todo, placed>>
  BY DEF manifestVars, jobVars
<1>3. OwnsOnlyWhatItPlaced' /\ DeletedNeverOwned' /\ Unborn' /\ JobInv'
  BY <1>2 DEF RecordInv, OwnsOnlyWhatItPlaced, DeletedNeverOwned, Unborn, JobInv, Present
<1>4. PlanStillHolds' /\ NothingHidden'
  BY <1>1, <1>2 DEF PlanStillHolds, NothingHidden
<1>5. QED
  BY <1>3, <1>4 DEF RecordInv

LEMMA PlanKeepsInv ==
  ASSUME TypeOK, TypeOK', RecordInv, NEW allowDirty \in BOOLEAN, NEW m \in Modes,
         PlanFromDisk(allowDirty, m)
  PROVE  RecordInv'
<1>1. UNCHANGED <<disk, sidecar, born, recorded, deletedByUser, placed>> /\ born
  BY DEF PlanFromDisk, manifestVars
<1>2. theirs' = ManagedOnly(shipped) /\ todo' = Work(plan')
  BY DEF PlanFromDisk
<1>3. plan' = PlanUpdate(recorded, ManagedOnly(disk), theirs', deletedByUser, {})
  BY DEF PlanFromDisk
<1> DEFINE new == theirs'
           pl == plan'
<1>4. /\ pl.overwrite \cup pl.added \cup pl.conflict
            \subseteq Candidates(new, deletedByUser \cup pl.skippedDeleted)
      /\ pl.removed \subseteq Present(recorded)
      /\ pl.removed \cap (pl.overwrite \cup pl.added) = {}
      /\ \A p \in pl.overwrite \cup pl.removed : disk[p] = recorded[p]
      /\ \A p \in pl.added : disk[p] = Absent
      /\ \A p \in pl.skippedDeleted \ deletedByUser : disk[p] = Absent
      /\ \A p \in Candidates(new, deletedByUser) \ Work(pl) :
           disk[p] \in {Absent, new[p]} \/ new[p] = recorded[p]
  <2> HIDE DEF new, pl
  <2>1. /\ recorded \in Tree /\ Present(recorded) \subseteq Managed /\ disk \in Tree
        /\ shipped \in RigelTree /\ deletedByUser \in SUBSET Path
    BY DEF TypeOK
  <2>2. new = ManagedOnly(shipped)
        /\ pl = PlanUpdate(recorded, ManagedOnly(disk), new, deletedByUser, {})
    BY <1>2, <1>3 DEF new, pl
  <2>3. QED
    BY <2>1, <2>2, PlanFacts
<1>5. OwnsOnlyWhatItPlaced' /\ DeletedNeverOwned' /\ Unborn'
  BY <1>1 DEF RecordInv, OwnsOnlyWhatItPlaced, DeletedNeverOwned, Unborn, Present
<1>6. JobInv'
  <2>1. pl.overwrite \cup pl.added \subseteq Work(pl)
    BY DEF Work
  <2>2. QED
    BY <1>1, <1>2, <1>4, <2>1 DEF JobInv, Present
<1>7. PlanStillHolds'
  BY <1>1, <1>4 DEF PlanStillHolds
<1>8. NothingHidden'
  BY <1>1, <1>2, <1>4 DEF NothingHidden
<1>9. QED
  BY <1>5, <1>6, <1>7, <1>8 DEF RecordInv

(* Touching one file of the plan: it leaves todo, and everything else      *)
(* stays as planned.                                                       *)
LEMMA CopyKeepsInv ==
  ASSUME TypeOK, TypeOK', RecordInv, NEW q \in Path, CopyFile(q)
  PROVE  RecordInv'
<1>1. /\ running /\ q \in todo \cap Copies(plan, mode) /\ todo' = todo \ {q}
      /\ disk' = [disk EXCEPT ![q] = theirs[q]] /\ placed' = placed \cup {q}
      /\ UNCHANGED <<sidecar, born, recorded, deletedByUser, running, theirs, plan, mode>>
  BY DEF CopyFile, manifestVars
<1>2. /\ disk \in [Path -> MaybeContent]
      /\ \A p \in Path : p # q => disk'[p] = disk[p]
      /\ disk'[q] = theirs[q]
  BY <1>1 DEF TypeOK, Tree
<1>3. OwnsOnlyWhatItPlaced' /\ DeletedNeverOwned' /\ Unborn'
  BY <1>1 DEF RecordInv, OwnsOnlyWhatItPlaced, DeletedNeverOwned, Unborn, Present
<1>4. JobInv'
  BY <1>1 DEF RecordInv, JobInv, Present
<1>5. PlanStillHolds'
  <2>1. q \in plan.overwrite \cup plan.added \cup plan.conflict
    BY <1>1 DEF Copies
  <2>2. q \notin plan.skippedDeleted
    BY <1>1, <2>1 DEF RecordInv, JobInv, Candidates
  <2>3. todo \subseteq Path /\ plan.skippedDeleted \subseteq Path
    BY DEF TypeOK, UpdatePlan
  <2>4. QED
    BY <1>1, <1>2, <2>2, <2>3 DEF RecordInv, PlanStillHolds
<1>6. NothingHidden'
  <2>1. Candidates(theirs, deletedByUser) \subseteq Path
    BY DEF Candidates, Present
  <2>2. QED
    BY <1>1, <1>2, <2>1 DEF RecordInv, NothingHidden
<1>7. QED
  BY <1>3, <1>4, <1>5, <1>6 DEF RecordInv

LEMMA SidecarKeepsInv ==
  ASSUME TypeOK, TypeOK', RecordInv, NEW q \in Path, WriteSidecar(q)
  PROVE  RecordInv'
<1>1. /\ running /\ todo' = todo \ {q}
      /\ sidecar' = [sidecar EXCEPT ![q] = theirs[q]]
      /\ UNCHANGED <<disk, born, recorded, deletedByUser, running, theirs, plan, mode, placed>>
      /\ q \notin plan.overwrite \cup plan.added
  BY DEF WriteSidecar, manifestVars, Sidecars, Copies
<1>2. /\ sidecar \in [Path -> MaybeContent]
      /\ \A p \in Path : p # q => sidecar'[p] = sidecar[p]
      /\ sidecar'[q] = theirs[q]
  BY <1>1 DEF TypeOK, Tree
<1>3. OwnsOnlyWhatItPlaced' /\ DeletedNeverOwned' /\ Unborn'
  BY <1>1 DEF RecordInv, OwnsOnlyWhatItPlaced, DeletedNeverOwned, Unborn, Present
<1>4. JobInv'
  BY <1>1 DEF RecordInv, JobInv, Present
<1>5. PlanStillHolds'
  BY <1>1 DEF RecordInv, PlanStillHolds
<1>6. NothingHidden'
  <2>1. Candidates(theirs, deletedByUser) \subseteq Path
    BY DEF Candidates, Present
  <2>2. QED
    BY <1>1, <1>2, <2>1 DEF RecordInv, NothingHidden
<1>7. QED
  BY <1>3, <1>4, <1>5, <1>6 DEF RecordInv

LEMMA RemoveKeepsInv ==
  ASSUME TypeOK, TypeOK', RecordInv, NEW q \in Path, RemoveFile(q)
  PROVE  RecordInv'
<1>1. /\ running /\ todo' = todo \ {q} /\ q \in plan.removed
      /\ disk' = [disk EXCEPT ![q] = Absent]
      /\ UNCHANGED <<sidecar, born, recorded, deletedByUser, running, theirs, plan, mode, placed>>
  BY DEF RemoveFile, manifestVars
<1>2. /\ disk \in [Path -> MaybeContent]
      /\ \A p \in Path : p # q => disk'[p] = disk[p]
      /\ disk'[q] = Absent
  BY <1>1 DEF TypeOK, Tree
<1>3. OwnsOnlyWhatItPlaced' /\ DeletedNeverOwned' /\ Unborn'
  BY <1>1 DEF RecordInv, OwnsOnlyWhatItPlaced, DeletedNeverOwned, Unborn, Present
<1>4. JobInv'
  BY <1>1 DEF RecordInv, JobInv, Present
<1>5. PlanStillHolds'
  <2>1. todo \subseteq Path /\ plan.skippedDeleted \subseteq Path
    BY DEF TypeOK, UpdatePlan
  <2>2. QED
    BY <1>1, <1>2, <2>1 DEF RecordInv, PlanStillHolds
<1>6. NothingHidden'
  <2>1. Candidates(theirs, deletedByUser) \subseteq Path
    BY DEF Candidates, Present
  <2>2. QED
    BY <1>1, <1>2, <2>1 DEF RecordInv, NothingHidden
<1>7. QED
  BY <1>3, <1>4, <1>5, <1>6 DEF RecordInv

LEMMA RecordKeepsInv ==
  ASSUME TypeOK, TypeOK', RecordInv, RecordUpdate
  PROVE  RecordInv'
<1> DEFINE written == plan.overwrite \cup plan.added
<1>1. /\ running /\ ~running' /\ todo = {}
      /\ UNCHANGED <<disk, born, placed>>
      /\ recorded' = BuildManifest(disk, Present(recorded) \cup written)
      /\ deletedByUser' = deletedByUser \cup plan.skippedDeleted
  BY DEF RecordUpdate, Idle, RewriteManifest
<1>2. Present(recorded) \cup written \in SUBSET Path
  BY DEF TypeOK, UpdatePlan, Present
<1>3. \A p \in Present(recorded') :
        p \in Present(recorded) \cup written /\ disk[p] # Absent
  BY <1>1, <1>2, BuildManifestFacts DEF TypeOK, Present
<1>4. OwnsOnlyWhatItPlaced'
  <2>1. Present(recorded) \subseteq placed /\ written \subseteq placed
    BY <1>1 DEF RecordInv, OwnsOnlyWhatItPlaced, JobInv
  <2>2. QED
    BY <1>1, <1>3, <2>1 DEF OwnsOnlyWhatItPlaced
<1>5. DeletedNeverOwned'
  <2> SUFFICES ASSUME ~EditsWhileRunning,
                      NEW p \in Present(recorded'), p \in deletedByUser'
               PROVE  FALSE
    BY DEF DeletedNeverOwned
  <2>1. disk[p] # Absent
    BY <1>3
  <2>2. p \in deletedByUser
    BY <1>1, <2>1 DEF RecordInv, PlanStillHolds
  <2>3. p \notin Present(recorded)
    BY <2>2 DEF RecordInv, DeletedNeverOwned
  <2>4. p \in written
    BY <1>3, <2>3
  <2>5. QED
    BY <1>1, <2>2, <2>4 DEF RecordInv, JobInv, Candidates
<1>6. Unborn' /\ JobInv' /\ PlanStillHolds' /\ NothingHidden'
  <2>1. born
    BY <1>1 DEF RecordInv, Unborn
  <2>2. QED
    BY <1>1, <2>1 DEF Unborn, JobInv, PlanStillHolds, NothingHidden
<1>7. QED
  BY <1>4, <1>5, <1>6 DEF RecordInv

LEMMA CrashKeepsInv ==
  ASSUME TypeOK, TypeOK', RecordInv, Crash
  PROVE  RecordInv'
<1>1. running /\ ~running' /\ UNCHANGED <<born, recorded, deletedByUser, placed>>
  BY DEF Crash, Idle, manifestVars
<1>2. QED
  BY <1>1
  DEF RecordInv, OwnsOnlyWhatItPlaced, DeletedNeverOwned, Unborn, JobInv,
      PlanStillHolds, NothingHidden, Present

LEMMA InvStep == ProvenanceInv /\ [Next]_vars => ProvenanceInv'
<1> SUFFICES ASSUME TypeOK, RecordInv, [Next]_vars
             PROVE  TypeOK' /\ RecordInv'
  BY DEF ProvenanceInv, RecordInv
<1>1. TypeOK'
  BY TypeStep
<1>2. ASSUME NEW over \in Layers, Scaffold(over)
      PROVE  RecordInv'
  BY <1>1, <1>2, ScaffoldKeepsInv
<1>3. ASSUME NEW forceCore \in BOOLEAN, NEW takeHarness \in BOOLEAN,
             Adopt(forceCore, takeHarness)
      PROVE  RecordInv'
  BY <1>1, <1>3, AdoptKeepsInv
<1>4. ASSUME NEW p \in Path, NEW c \in MaybeContent, UserWrites(p, c)
      PROVE  RecordInv'
  <2>1. UserMayAct /\ UNCHANGED <<manifestVars, jobVars, placed>>
    BY <1>4 DEF UserWrites
  <2>2. QED
    BY <1>1, <2>1, OwnerKeepsInv
<1>5. ASSUME NEW p \in Path, UserDeletesSidecar(p)
      PROVE  RecordInv'
  <2>1. UserMayAct /\ UNCHANGED <<manifestVars, jobVars, placed>>
    BY <1>5 DEF UserDeletesSidecar
  <2>2. QED
    BY <1>1, <2>1, OwnerKeepsInv
<1>6. CASE GitCommit
  <2>1. UserMayAct /\ UNCHANGED <<manifestVars, jobVars, placed>>
    BY <1>6 DEF GitCommit
  <2>2. QED
    BY <1>1, <2>1, OwnerKeepsInv
<1>7. ASSUME NEW tree \in RigelTree, Release(tree)
      PROVE  RecordInv'
  <2>1. ~running /\ UNCHANGED <<born, recorded, deletedByUser, running, placed>>
    BY <1>7 DEF Release, manifestVars, jobVars
  <2>2. QED
    BY <2>1
    DEF RecordInv, OwnsOnlyWhatItPlaced, DeletedNeverOwned, Unborn, JobInv,
        PlanStillHolds, NothingHidden, Present
<1>8. ASSUME NEW allowDirty \in BOOLEAN, NEW m \in Modes, PlanFromDisk(allowDirty, m)
      PROVE  RecordInv'
  BY <1>1, <1>8, PlanKeepsInv
<1>9. ASSUME NEW p \in Path, CopyFile(p)
      PROVE  RecordInv'
  BY <1>1, <1>9, CopyKeepsInv
<1>10. ASSUME NEW p \in Path, WriteSidecar(p)
       PROVE  RecordInv'
  BY <1>1, <1>10, SidecarKeepsInv
<1>11. ASSUME NEW p \in Path, RemoveFile(p)
       PROVE  RecordInv'
  BY <1>1, <1>11, RemoveKeepsInv
<1>12. CASE RecordUpdate
  BY <1>1, <1>12, RecordKeepsInv
<1>13. CASE Crash
  BY <1>1, <1>13, CrashKeepsInv
<1>14. CASE UNCHANGED vars
  BY <1>1, <1>14
  DEF vars, manifestVars, jobVars, RecordInv, OwnsOnlyWhatItPlaced,
      DeletedNeverOwned, Unborn, JobInv, PlanStillHolds, NothingHidden, Present
<1>15. QED
  BY <1>1, <1>2, <1>3, <1>4, <1>5, <1>6, <1>7, <1>8, <1>9, <1>10, <1>11, <1>12,
     <1>13, <1>14 DEF Next, Apply

LEMMA InitInv == Init => ProvenanceInv
<1> SUFFICES ASSUME Init
             PROVE  ProvenanceInv
  OBVIOUS
<1>1. TypeOK
  BY InitType
<1>2. Present(recorded) = {} /\ placed = {} /\ deletedByUser = {} /\ ~running
  BY DEF Init, Present, EmptyTree
<1>3. QED
  BY <1>1, <1>2
  DEF ProvenanceInv, OwnsOnlyWhatItPlaced, DeletedNeverOwned, Unborn, JobInv,
      PlanStillHolds, NothingHidden

(* The record and a running update stay consistent at every step, however  *)
(* releases, edits, updates and crashes interleave: ProvenanceInv holds    *)
(* throughout.                                                             *)
THEOREM ProvenanceInvariant == Spec => []ProvenanceInv
  BY InitInv, InvStep, PTL DEF Spec

(* Ownership is authorship: for any history of births, edits, releases,    *)
(* updates and crashes, races with an editor included, the manifest claims *)
(* only what Rigel placed or found identical to what it ships.             *)
THEOREM OwnershipIsAuthorship == Spec => []OwnsOnlyWhatItPlaced
<1>1. ProvenanceInv => OwnsOnlyWhatItPlaced
  BY DEF ProvenanceInv
<1>2. QED
  BY <1>1, ProvenanceInvariant, PTL

(* In a repository left alone during updates, no path is both owned and    *)
(* recorded as deleted by the user.                                        *)
THEOREM DeletedIsNotOwned == Spec => []DeletedNeverOwned
<1>1. ProvenanceInv => DeletedNeverOwned
  BY DEF ProvenanceInv
<1>2. QED
  BY <1>1, ProvenanceInvariant, PTL

-----------------------------------------------------------------------------
(* What Rigel placed, it owns.  While an update runs, what it has already  *)
(* written is about to be recorded.                                        *)

ClaimedOrAboutToBe ==
  (crashes = 0 /\ "theirs" \notin Modes)
  => /\ running => mode \in Modes
     /\ \A p \in Managed \cap Present(disk) :
          lastWriter[p] = "rigel"
          => \/ recorded[p] = disk[p]
             \/ running /\ p \in (plan.overwrite \cup plan.added) \ todo

LEMMA BirthClaims ==
  ASSUME ProvenanceInv, TypeOK', ClaimedOrAboutToBe,
         \/ \E over \in Layers : Scaffold(over)
         \/ \E forceCore, takeHarness \in BOOLEAN : Adopt(forceCore, takeHarness)
  PROVE  ClaimedOrAboutToBe'
<1>1. ~born /\ ~running /\ Present(recorded) = {} /\ UNCHANGED <<jobVars, boundVars>>
  BY DEF ProvenanceInv, Unborn, Scaffold, Adopt
<1>2. ~running' /\ crashes' = crashes
  BY <1>1 DEF jobVars, boundVars
<1>3. CASE \E over \in Layers : Scaffold(over)
  <2>1. \A p \in Managed \cap Present(disk') : recorded'[p] = disk'[p]
    BY <1>3 DEF Scaffold, BuildManifest, ManagedOnly, Present
  <2> QED
    BY <1>2, <2>1 DEF ClaimedOrAboutToBe
<1>4. CASE \E forceCore, takeHarness \in BOOLEAN : Adopt(forceCore, takeHarness)
  <2>1. PICK written \in SUBSET Path, claimed \in SUBSET Path :
           /\ written \subseteq claimed
           /\ disk' = [p \in Path |-> IF p \in written THEN shipped[p] ELSE disk[p]]
           /\ recorded' = BuildManifest(disk', claimed)
           /\ lastWriter' = [p \in Path |-> IF p \in written THEN "rigel" ELSE lastWriter[p]]
    <3>1. PICK forceCore \in BOOLEAN, takeHarness \in BOOLEAN : Adopt(forceCore, takeHarness)
      BY <1>4
    <3> DEFINE first == PlanInstall(shipped, disk)
               core == first.declined \cap Core
               stale == (first.declined \cap Harness) \ Core
               takeOver == (IF forceCore THEN core ELSE {})
                           \cup (IF takeHarness THEN stale ELSE {})
               written == first.added \cup takeOver
    <3>2. first.added \subseteq Path /\ first.identical \subseteq Path /\ first.declined \subseteq Path
      BY DEF PlanInstall, Present
    <3>3. written \in SUBSET Path /\ written \cup first.identical \in SUBSET Path
      BY <3>2
    <3>4. /\ disk' = [p \in Path |-> IF p \in written THEN shipped[p] ELSE disk[p]]
          /\ recorded' = BuildManifest(disk', written \cup first.identical)
          /\ lastWriter' = [p \in Path |-> IF p \in written THEN "rigel" ELSE lastWriter[p]]
      BY <3>1 DEF Adopt
    <3> QED
      BY <3>3, <3>4
  <2>2. ASSUME crashes = 0, "theirs" \notin Modes, NEW p \in Managed \cap Present(disk'),
               lastWriter'[p] = "rigel"
        PROVE  recorded'[p] = disk'[p]
    <3>1. p \in Path /\ disk'[p] # Absent
      BY ManagedAssumption DEF Present
    <3>2. p \in written
      <4>1. ASSUME p \notin written PROVE FALSE
        <5>1. p \in Managed \cap Present(disk) /\ lastWriter[p] = "rigel"
          BY <2>1, <2>2, <3>1, <4>1 DEF Present
        <5>2. recorded[p] = disk[p]
          BY <1>1, <2>2, <5>1 DEF ClaimedOrAboutToBe
        <5> QED
          BY <1>1, <3>1, <5>1, <5>2 DEF Present
      <4> QED
        BY <4>1
    <3> QED
      BY <2>1, <3>1, <3>2 DEF BuildManifest, ManagedOnly
  <2> QED
    BY <1>2, <2>2 DEF ClaimedOrAboutToBe
<1> QED
  BY <1>3, <1>4

LEMMA ClaimStep == ProvenanceInv /\ ClaimedOrAboutToBe /\ [Next]_vars => ClaimedOrAboutToBe'
<1> SUFFICES ASSUME ProvenanceInv, ClaimedOrAboutToBe, [Next]_vars,
                    crashes' = 0, "theirs" \notin Modes
             PROVE  ClaimedOrAboutToBe'
  BY DEF ClaimedOrAboutToBe
<1>1. TypeOK /\ TypeOK'
  BY TypeStep DEF ProvenanceInv
<1>2. ASSUME \/ \E over \in Layers : Scaffold(over)
             \/ \E forceCore, takeHarness \in BOOLEAN : Adopt(forceCore, takeHarness)
      PROVE  ClaimedOrAboutToBe'
  BY <1>1, <1>2, BirthClaims
<1>3. ASSUME NEW q \in Path, NEW c \in MaybeContent, UserWrites(q, c)
      PROVE  ClaimedOrAboutToBe'
  <2>1. /\ disk' = [disk EXCEPT ![q] = c] /\ lastWriter' = [lastWriter EXCEPT ![q] = "user"]
        /\ UNCHANGED <<recorded, running, plan, mode, todo, crashes>>
    BY <1>3 DEF UserWrites, manifestVars, jobVars
  <2>2. lastWriter'[q] = "user"
    BY <1>1, <2>1 DEF TypeOK
  <2>3. \A p \in Path : p # q => disk'[p] = disk[p] /\ lastWriter'[p] = lastWriter[p]
    BY <1>1, <2>1 DEF TypeOK, Tree
  <2> QED
    BY <2>1, <2>2, <2>3, ManagedAssumption DEF ClaimedOrAboutToBe, Present
<1>4. ASSUME UNCHANGED <<disk, recorded, lastWriter, running, plan, mode, todo, crashes>>
      PROVE  ClaimedOrAboutToBe'
  BY <1>4 DEF ClaimedOrAboutToBe, Present
<1>5. ASSUME NEW allowDirty \in BOOLEAN, NEW m \in Modes, PlanFromDisk(allowDirty, m)
      PROVE  ClaimedOrAboutToBe'
  <2>1. ~running /\ mode' = m /\ UNCHANGED <<disk, recorded, lastWriter, crashes>>
    BY <1>5 DEF PlanFromDisk, manifestVars, boundVars
  <2> QED
    BY <2>1 DEF ClaimedOrAboutToBe, Present
<1>6. ASSUME NEW q \in Path, CopyFile(q)
      PROVE  ClaimedOrAboutToBe'
  <2>1. /\ running /\ q \in todo \cap Copies(plan, mode) /\ todo' = todo \ {q}
        /\ disk' = [disk EXCEPT ![q] = theirs[q]]
        /\ lastWriter' = [lastWriter EXCEPT ![q] = "rigel"]
        /\ UNCHANGED <<recorded, running, plan, mode, crashes>>
    BY <1>6 DEF CopyFile, manifestVars, boundVars
  <2>2. mode \in Modes /\ q \in plan.overwrite \cup plan.added
    BY <2>1 DEF ClaimedOrAboutToBe, Copies
  <2>3. \A p \in Path : p # q => disk'[p] = disk[p] /\ lastWriter'[p] = lastWriter[p]
    BY <1>1, <2>1 DEF TypeOK, Tree
  <2> QED
    BY <2>1, <2>2, <2>3, ManagedAssumption DEF ClaimedOrAboutToBe, Present
<1>7. ASSUME NEW q \in Path, WriteSidecar(q)
      PROVE  ClaimedOrAboutToBe'
  <2>1. todo' = todo \ {q} /\ UNCHANGED <<disk, recorded, lastWriter, running, plan, mode, crashes>>
    BY <1>7 DEF WriteSidecar, manifestVars, boundVars
  <2> QED
    BY <2>1 DEF ClaimedOrAboutToBe, Present
<1>8. ASSUME NEW q \in Path, RemoveFile(q)
      PROVE  ClaimedOrAboutToBe'
  <2>1. /\ todo' = todo \ {q} /\ disk' = [disk EXCEPT ![q] = Absent]
        /\ lastWriter' = [lastWriter EXCEPT ![q] = "rigel"]
        /\ UNCHANGED <<recorded, running, plan, mode, crashes>>
    BY <1>8 DEF RemoveFile, manifestVars, boundVars
  <2>2. disk'[q] = Absent
    BY <1>1, <2>1 DEF TypeOK, Tree
  <2>3. \A p \in Path : p # q => disk'[p] = disk[p] /\ lastWriter'[p] = lastWriter[p]
    BY <1>1, <2>1 DEF TypeOK, Tree
  <2> QED
    BY <2>1, <2>2, <2>3, ManagedAssumption DEF ClaimedOrAboutToBe, Present
<1>9. ASSUME RecordUpdate
      PROVE  ClaimedOrAboutToBe'
  <2>1. /\ running /\ ~running' /\ todo = {} /\ UNCHANGED <<disk, lastWriter, crashes>>
        /\ recorded' = BuildManifest(disk, Present(recorded) \cup (plan.overwrite \cup plan.added))
    BY <1>9 DEF RecordUpdate, Idle, RewriteManifest, boundVars
  <2>2. ASSUME NEW p \in Managed \cap Present(disk), lastWriter[p] = "rigel"
        PROVE  recorded'[p] = disk[p]
    <3>1. p \in Path /\ disk[p] # Absent
      BY ManagedAssumption DEF Present
    <3>2. p \in Present(recorded) \cup (plan.overwrite \cup plan.added)
      BY <2>1, <2>2, <3>1 DEF ClaimedOrAboutToBe, Present
    <3> QED
      BY <2>1, <3>1, <3>2 DEF BuildManifest, ManagedOnly
  <2> QED
    BY <2>1, <2>2 DEF ClaimedOrAboutToBe, Present
<1>10. ~Crash
  BY <1>1 DEF Crash, TypeOK
<1> QED
  BY <1>2, <1>3, <1>4, <1>5, <1>6, <1>7, <1>8, <1>9, <1>10
  DEF Next, Apply, vars, UserDeletesSidecar, GitCommit, Release, manifestVars, jobVars, boundVars

(* The converse of ownership is authorship: in a repository whose updates  *)
(* all ran through and kept sidecars, the manifest has every managed file  *)
(* Rigel wrote last, as it is.                                             *)
THEOREM AuthorshipIsOwnership == Spec => []PlacedIsOwned
<1>1. Init => ClaimedOrAboutToBe
  BY DEF Init, ClaimedOrAboutToBe, Present
<1>2. ClaimedOrAboutToBe => PlacedIsOwned
  BY DEF ClaimedOrAboutToBe, PlacedIsOwned
<1>3. QED
  BY <1>1, <1>2, ClaimStep, ProvenanceInvariant, PTL DEF Spec

-----------------------------------------------------------------------------
(* What a step may do to the files, in a state that satisfies the          *)
(* invariant.                                                              *)

(* A file changes in a step of a born repository only by its owner's hand, *)
(* by a copy of the plan, or by a removal of the plan.                     *)
LEMMA FileStep ==
  ASSUME TypeOK, [Next]_vars, NEW p \in Path, disk'[p] # disk[p]
  PROVE  \/ ~born
         \/ lastWriter'[p] = "user"
         \/ CopyFile(p) /\ disk'[p] = theirs[p]
         \/ RemoveFile(p) /\ disk'[p] = Absent
<1>1. disk \in [Path -> MaybeContent] /\ lastWriter \in [Path -> Writer]
  BY DEF TypeOK, Tree
<1>2. ASSUME NEW q \in Path, NEW c \in MaybeContent, UserWrites(q, c)
      PROVE  lastWriter'[p] = "user"
  BY <1>1, <1>2 DEF UserWrites
<1>3. ASSUME NEW q \in Path, CopyFile(q)
      PROVE  q = p /\ disk'[p] = theirs[p]
  BY <1>1, <1>3 DEF CopyFile
<1>4. ASSUME NEW q \in Path, RemoveFile(q)
      PROVE  q = p /\ disk'[p] = Absent
  BY <1>1, <1>4 DEF RemoveFile
<1>5. ASSUME NEW over \in Layers, Scaffold(over)
      PROVE  ~born
  BY <1>5 DEF Scaffold
<1>6. ASSUME NEW forceCore \in BOOLEAN, NEW takeHarness \in BOOLEAN,
             Adopt(forceCore, takeHarness)
      PROVE  ~born
  BY <1>6 DEF Adopt
<1>7. /\ \A q \in Path : ~UserDeletesSidecar(q) /\ ~WriteSidecar(q)
      /\ ~GitCommit /\ \A tree \in RigelTree : ~Release(tree)
      /\ \A allowDirty \in BOOLEAN, m \in Modes : ~PlanFromDisk(allowDirty, m)
      /\ ~RecordUpdate /\ ~Crash /\ ~UNCHANGED vars
  BY DEF UserDeletesSidecar, WriteSidecar, GitCommit, Release, PlanFromDisk,
         RecordUpdate, Crash, vars
<1>8. QED
  BY <1>2, <1>3, <1>4, <1>5, <1>6, <1>7 DEF Next, Apply

LEMMA RevivalStep ==
  ProvenanceInv /\ [Next]_vars
  => \A p \in deletedByUser :
       disk'[p] \notin {disk[p], Absent} => lastWriter'[p] = "user"
<1> SUFFICES ASSUME ProvenanceInv, [Next]_vars, NEW p \in deletedByUser,
                    disk'[p] # disk[p], disk'[p] # Absent
             PROVE  lastWriter'[p] = "user"
  OBVIOUS
<1>1. TypeOK /\ Unborn /\ JobInv /\ p \in Path
  BY DEF ProvenanceInv, TypeOK
<1>2. born
  BY <1>1 DEF Unborn
<1>3. ~CopyFile(p)
  <2> SUFFICES ASSUME CopyFile(p)
               PROVE  FALSE
    OBVIOUS
  <2>1. running /\ p \in plan.overwrite \cup plan.added \cup plan.conflict
    BY DEF CopyFile, Copies
  <2>2. QED
    BY <1>1, <2>1 DEF JobInv, Candidates
<1>4. QED
  BY <1>1, <1>2, <1>3, FileStep

(* Deletions are final: for every number of paths, versions and crashes,   *)
(* and even with files edited under a running update, no scaffold, plan or *)
(* copy brings back a file whose deletion the manifest records.            *)
THEOREM DeletionsAreFinal == Spec => NeverRevived
<1>1. ProvenanceInv /\ [Next]_vars
      => [\A p \in deletedByUser :
            disk'[p] \notin {disk[p], Absent} => lastWriter'[p] = "user"]_vars
  BY RevivalStep
<1>2. QED
  BY <1>1, ProvenanceInvariant, PTL DEF Spec, NeverRevived

LEMMA EditStep ==
  ProvenanceInv /\ [Next]_vars
  => \A p \in Path :
       (/\ born /\ ~EditsWhileRunning
        /\ disk[p] \notin {Absent, recorded[p], disk'[p]})
       => \/ lastWriter'[p] = "user"
          \/ p \in plan.conflict /\ mode = "theirs"
<1> SUFFICES ASSUME ProvenanceInv, [Next]_vars, NEW p \in Path,
                    born, ~EditsWhileRunning, disk[p] # Absent,
                    disk[p] # recorded[p], disk'[p] # disk[p],
                    lastWriter'[p] # "user"
             PROVE  p \in plan.conflict /\ mode = "theirs"
  OBVIOUS
<1>1. TypeOK /\ PlanStillHolds /\ JobInv
  BY DEF ProvenanceInv
<1>2. CopyFile(p) \/ RemoveFile(p)
  BY <1>1, FileStep
<1>3. ~RemoveFile(p)
  BY <1>1 DEF RemoveFile, PlanStillHolds
<1>4. running /\ p \in todo \cap Copies(plan, mode)
  BY <1>2, <1>3 DEF CopyFile
<1>5. p \notin plan.overwrite /\ p \notin plan.added
  BY <1>1, <1>4 DEF PlanStillHolds
<1>6. QED
  BY <1>4, <1>5 DEF Copies

(* The owner's edits since the last record survive every update of a       *)
(* repository that is left alone while the update runs, wherever an        *)
(* earlier update died, unless --conflict=theirs asked otherwise.          *)
THEOREM EditsSurviveUpdates == Spec => EditsSinceRecordSurvive
<1>1. ProvenanceInv /\ [Next]_vars
      => [\A p \in Path :
            (/\ born /\ ~EditsWhileRunning
             /\ disk[p] \notin {Absent, recorded[p], disk'[p]})
            => \/ lastWriter'[p] = "user"
               \/ p \in plan.conflict /\ mode = "theirs"]_vars
  BY EditStep
<1>2. QED
  BY <1>1, ProvenanceInvariant, PTL DEF Spec, EditsSinceRecordSurvive

LEMMA SurfacingStep ==
  ProvenanceInv /\ [Next]_vars
  => ((running /\ ~running' /\ crashes' = crashes /\ ~EditsWhileRunning)
      => \A p \in Candidates(theirs, deletedByUser) :
           disk[p] \notin {Absent, theirs[p]}
           => theirs[p] \in {recorded[p], sidecar[p]})
<1> SUFFICES ASSUME ProvenanceInv, [Next]_vars,
                    running, ~running', crashes' = crashes, ~EditsWhileRunning
             PROVE  \A p \in Candidates(theirs, deletedByUser) :
                      disk[p] \notin {Absent, theirs[p]}
                      => theirs[p] \in {recorded[p], sidecar[p]}
  OBVIOUS
<1>1. TypeOK /\ NothingHidden
  BY DEF ProvenanceInv
<1>2. ~Crash
  BY <1>1 DEF Crash, TypeOK
<1>3. /\ \A over \in Layers : ~Scaffold(over)
      /\ \A forceCore, takeHarness \in BOOLEAN : ~Adopt(forceCore, takeHarness)
  BY DEF Scaffold, Adopt, jobVars
<1>4. /\ \A p \in Path, c \in MaybeContent : ~UserWrites(p, c)
      /\ \A p \in Path : ~UserDeletesSidecar(p)
      /\ ~GitCommit /\ \A tree \in RigelTree : ~Release(tree)
  BY DEF UserWrites, UserDeletesSidecar, GitCommit, Release, jobVars
<1>5. /\ \A allowDirty \in BOOLEAN, m \in Modes : ~PlanFromDisk(allowDirty, m)
      /\ \A p \in Path : ~CopyFile(p) /\ ~WriteSidecar(p) /\ ~RemoveFile(p)
      /\ ~UNCHANGED vars
  BY DEF PlanFromDisk, CopyFile, WriteSidecar, RemoveFile, vars, jobVars
<1>6. RecordUpdate
  BY <1>2, <1>3, <1>4, <1>5 DEF Next, Apply
<1>7. todo = {}
  BY <1>6 DEF RecordUpdate
<1>8. QED
  BY <1>1, <1>7 DEF NothingHidden

(* No divergence passes in silence: an update of a repository left alone   *)
(* that records itself leaves no file that differs from its version,       *)
(* unless upstream did not change it or the version lies beside it.        *)
THEOREM DivergenceIsSurfaced == Spec => DivergenceSurfaced
<1>1. ProvenanceInv /\ [Next]_vars
      => [(running /\ ~running' /\ crashes' = crashes /\ ~EditsWhileRunning)
          => \A p \in Candidates(theirs, deletedByUser) :
               disk[p] \notin {Absent, theirs[p]}
               => theirs[p] \in {recorded[p], sidecar[p]}]_vars
  BY SurfacingStep
<1>2. QED
  BY <1>1, ProvenanceInvariant, PTL DEF Spec, DivergenceSurfaced

-----------------------------------------------------------------------------
(* RigelUpdate implements OwnershipLedger. *)

LEMMA LedgerStarts == Init => Ledger!LedgerInit
  BY DEF Init, Ledger!LedgerInit, Present, EmptyTree

LEMMA BirthIsContact ==
  ASSUME ProvenanceInv, ProvenanceInv', ~born, UNCHANGED deletedByUser,
         NEW written \in SUBSET Path, NEW same \in SUBSET Path,
         same \subseteq Present(disk), placed' = written \cup same,
         Present(disk') = Present(disk) \cup written,
         lastWriter' = [p \in Path |-> IF p \in written THEN "rigel" ELSE lastWriter[p]]
  PROVE  Ledger!LedgerNext
<1>1. Present(recorded) = {} /\ placed = {} /\ deletedByUser = {}
  BY DEF ProvenanceInv, Unborn
<1>2. Present(recorded') \in SUBSET Path /\ Present(recorded') \subseteq placed'
  BY DEF ProvenanceInv, OwnsOnlyWhatItPlaced, Present
<1>3. Ledger!Contact(written, same, Present(recorded'))
  BY <1>1, <1>2 DEF Ledger!Contact, Ledger!ChangedBy
<1>4. QED
  BY <1>2, <1>3 DEF Ledger!LedgerNext

LEMMA LedgerStep ==
  ProvenanceInv /\ ProvenanceInv' /\ [Next]_vars => [Ledger!LedgerNext]_(Ledger!ledgerVars)
<1> SUFFICES ASSUME ProvenanceInv, ProvenanceInv', [Next]_vars
             PROVE  Ledger!LedgerNext \/ UNCHANGED Ledger!ledgerVars
  OBVIOUS
<1>1. TypeOK /\ OwnsOnlyWhatItPlaced /\ Unborn /\ JobInv /\ OwnsOnlyWhatItPlaced'
  BY DEF ProvenanceInv
<1>2. /\ disk \in [Path -> MaybeContent] /\ theirs \in [Path -> RigelContent \cup {Absent}]
      /\ lastWriter \in [Path -> Writer]
  BY <1>1 DEF TypeOK, Tree, RigelTree
<1>3. ASSUME NEW over \in Layers, Scaffold(over)
      PROVE  Ledger!LedgerNext
  <2> DEFINE written == Present(disk')
  <2>1. /\ ~born /\ UNCHANGED deletedByUser /\ Present(disk) = {}
        /\ placed' = written \cup {}
    BY <1>3 DEF Scaffold
  <2>2. written \in SUBSET Path /\ {} \in SUBSET Path
    BY DEF Present
  <2>3. lastWriter' = [p \in Path |-> IF p \in written THEN "rigel" ELSE lastWriter[p]]
    BY <1>3 DEF Scaffold, Present
  <2>4. Present(disk') = Present(disk) \cup written
    BY <2>1
  <2> HIDE DEF written
  <2>5. QED
    BY <2>1, <2>2, <2>3, <2>4, BirthIsContact
<1>4. ASSUME NEW forceCore \in BOOLEAN, NEW takeHarness \in BOOLEAN,
             Adopt(forceCore, takeHarness)
      PROVE  Ledger!LedgerNext
  <2>1. ~born /\ UNCHANGED deletedByUser
    BY <1>4 DEF Adopt
  <2>2. PICK written \in SUBSET Path, same \in SUBSET Path :
          /\ written \subseteq Present(shipped) /\ same \subseteq Present(disk)
          /\ disk' = [p \in Path |-> IF p \in written THEN shipped[p] ELSE disk[p]]
          /\ placed' = written \cup same
          /\ lastWriter' = [p \in Path |-> IF p \in written THEN "rigel" ELSE lastWriter[p]]
    <3> DEFINE first == PlanInstall(shipped, disk)
               takeOver == (IF forceCore THEN first.declined \cap Core ELSE {})
                           \cup (IF takeHarness THEN (first.declined \cap Harness) \ Core
                                 ELSE {})
               wr == first.added \cup takeOver
    <3>1. /\ disk' = [p \in Path |-> IF p \in wr THEN shipped[p] ELSE disk[p]]
          /\ placed' = wr \cup first.identical
          /\ lastWriter' = [p \in Path |-> IF p \in wr THEN "rigel" ELSE lastWriter[p]]
      BY <1>4 DEF Adopt
    <3>2. /\ first.added \subseteq Present(shipped)
          /\ first.declined \subseteq Present(shipped)
          /\ first.identical \subseteq Present(disk)
      BY DEF PlanInstall, Present
    <3> HIDE DEF first
    <3>3. wr \subseteq Present(shipped)
      BY <3>2
    <3>4. Present(shipped) \subseteq Path /\ Present(disk) \subseteq Path
      BY DEF Present
    <3> HIDE DEF wr
    <3>5. QED
      BY <3>1, <3>2, <3>3, <3>4
  <2>3. Present(disk') = Present(disk) \cup written
    BY <2>2 DEF Present
  <2>4. QED
    BY <2>1, <2>2, <2>3, BirthIsContact
<1>5. ASSUME NEW p \in Path, NEW c \in MaybeContent, UserWrites(p, c)
      PROVE  Ledger!LedgerNext
  <2>1. Present(disk') \in SUBSET Path /\ {p} \in SUBSET Path
    BY DEF Present
  <2>2. /\ disk' = [disk EXCEPT ![p] = c] /\ lastWriter' = [lastWriter EXCEPT ![p] = "user"]
        /\ UNCHANGED <<recorded, deletedByUser, placed>>
    BY <1>5 DEF UserWrites, manifestVars
  <2>3. Present(disk') \ {p} = Present(disk) \ {p}
    BY <1>2, <2>2 DEF Present
  <2>4. Ledger!ChangedBy("user", {p})
    BY <1>2, <2>2 DEF Ledger!ChangedBy
  <2>5. Ledger!UserActs({p})
    BY <2>1, <2>2, <2>3, <2>4 DEF Ledger!UserActs, Present
  <2>6. QED
    BY <2>1, <2>5 DEF Ledger!LedgerNext
<1>6. ASSUME NEW p \in Path, CopyFile(p)
      PROVE  Ledger!LedgerNext
  <2>1. p \in Candidates(theirs, deletedByUser \cup plan.skippedDeleted)
    BY <1>1, <1>6 DEF CopyFile, Copies, JobInv
  <2>2. p \notin deletedByUser /\ theirs[p] # Absent
    BY <2>1 DEF Candidates, Present
  <2>3. /\ disk' = [disk EXCEPT ![p] = theirs[p]] /\ placed' = placed \cup {p}
        /\ lastWriter' = [lastWriter EXCEPT ![p] = "rigel"]
        /\ UNCHANGED <<recorded, deletedByUser>>
    BY <1>6 DEF CopyFile, manifestVars
  <2>4. Ledger!ChangedBy("rigel", {p})
    BY <1>2, <2>3 DEF Ledger!ChangedBy
  <2>5. Ledger!Put(p)
    BY <1>2, <2>2, <2>3, <2>4 DEF Ledger!Put, Present
  <2>6. QED
    BY <2>5 DEF Ledger!LedgerNext
<1>7. ASSUME NEW p \in Path, RemoveFile(p)
      PROVE  Ledger!LedgerNext
  <2>1. p \in Present(recorded)
    BY <1>1, <1>7 DEF RemoveFile, JobInv
  <2>2. /\ disk' = [disk EXCEPT ![p] = Absent]
        /\ lastWriter' = [lastWriter EXCEPT ![p] = "rigel"]
        /\ UNCHANGED <<recorded, deletedByUser, placed>>
    BY <1>7 DEF RemoveFile, manifestVars
  <2>3. Ledger!ChangedBy("rigel", {p})
    BY <1>2, <2>2 DEF Ledger!ChangedBy
  <2>4. Ledger!Delete(p)
    BY <1>2, <2>1, <2>2, <2>3 DEF Ledger!Delete, Present
  <2>5. QED
    BY <2>4 DEF Ledger!LedgerNext
<1>8. CASE RecordUpdate
  <2> DEFINE claimed == Present(recorded) \cup (plan.overwrite \cup plan.added)
  <2>1. claimed \in SUBSET Path /\ plan.skippedDeleted \in SUBSET Path
    BY <1>1 DEF TypeOK, UpdatePlan, Present
  <2>2. /\ recorded' = BuildManifest(disk, claimed)
        /\ deletedByUser' = deletedByUser \cup plan.skippedDeleted
        /\ UNCHANGED <<disk, lastWriter, placed>>
    BY <1>8 DEF RecordUpdate, RewriteManifest
  <2>3. Present(recorded') \subseteq Present(disk)
    BY <1>1, <2>1, <2>2, BuildManifestFacts DEF TypeOK, Present
  <2>4. Present(recorded') \subseteq placed /\ Present(recorded') \in SUBSET Path
    BY <1>1, <2>2 DEF OwnsOnlyWhatItPlaced, Present
  <2>5. Ledger!Settle(Present(recorded'), plan.skippedDeleted)
    BY <2>2, <2>3, <2>4 DEF Ledger!Settle, Present
  <2>6. QED
    BY <2>1, <2>4, <2>5 DEF Ledger!LedgerNext
<1>9. ASSUME UNCHANGED <<disk, lastWriter, recorded, deletedByUser, placed>>
      PROVE  UNCHANGED Ledger!ledgerVars
  BY <1>9 DEF Ledger!ledgerVars, Present
<1>10. ASSUME NEW p \in Path, UserDeletesSidecar(p) \/ WriteSidecar(p)
       PROVE  UNCHANGED <<disk, lastWriter, recorded, deletedByUser, placed>>
  BY <1>10 DEF UserDeletesSidecar, WriteSidecar, manifestVars
<1>11. ASSUME NEW tree \in RigelTree, Release(tree)
       PROVE  UNCHANGED <<disk, lastWriter, recorded, deletedByUser, placed>>
  BY <1>11 DEF Release, manifestVars
<1>12. ASSUME NEW allowDirty \in BOOLEAN, NEW m \in Modes, PlanFromDisk(allowDirty, m)
       PROVE  UNCHANGED <<disk, lastWriter, recorded, deletedByUser, placed>>
  BY <1>12 DEF PlanFromDisk, manifestVars
<1>13. ASSUME GitCommit \/ Crash \/ UNCHANGED vars
       PROVE  UNCHANGED <<disk, lastWriter, recorded, deletedByUser, placed>>
  BY <1>13 DEF GitCommit, Crash, manifestVars, vars
<1>14. QED
  BY <1>3, <1>4, <1>5, <1>6, <1>7, <1>8, <1>9, <1>10, <1>11, <1>12, <1>13
  DEF Next, Apply

(* The program, hashes, plans, sidecars and crashes included, does nothing *)
(* the ledger of ownership does not allow.                                 *)
THEOREM ImplementsLedger == Spec => KeepsLedger
  BY LedgerStarts, LedgerStep, ProvenanceInvariant, PTL
  DEF Spec, KeepsLedger, Ledger!LedgerSpec
=============================================================================
