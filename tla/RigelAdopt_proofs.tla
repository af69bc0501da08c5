------------------------- MODULE RigelAdopt_proofs -------------------------
(***************************************************************************)
(* Proofs about RigelAdopt for every tree, release and pair of flags, and  *)
(* for adoptions that die, throw or race with the owner anywhere.          *)
(***************************************************************************)
EXTENDS RigelAdopt, TLAPS

-----------------------------------------------------------------------------
(* Facts about placement plans and manifests. *)

(* The three lists of a placement plan split what Rigel ships: absent,     *)
(* identical, different.                                                   *)
LEMMA PlanInstallFacts ==
  ASSUME NEW src \in Tree, NEW dest \in Tree
  PROVE  LET pl == PlanInstall(src, dest)
         IN /\ pl.added \cup pl.identical \cup pl.declined = Present(src)
            /\ \A p \in pl.added : dest[p] = Absent
            /\ \A p \in pl.identical : dest[p] = src[p]
            /\ \A p \in pl.declined : dest[p] \notin {Absent, src[p]}
            /\ \A p \in Present(src) :
                 dest[p] \notin {Absent, src[p]} => p \in pl.declined
  BY DEF PlanInstall, Present

LEMMA RecordFacts ==
  ASSUME NEW root \in Tree, NEW claimed \in SUBSET Path
  PROVE  /\ BuildManifest(root, claimed) \in Tree
         /\ \A p \in Path : BuildManifest(root, claimed)[p]
              = IF p \in claimed \cap Managed THEN root[p] ELSE Absent
  BY DEF BuildManifest, ManagedOnly, Tree, MaybeContent

LEMMA RigelTreeFacts ==
  /\ RigelTree \subseteq Tree /\ EmptyTree \in Tree
  /\ \A tree \in RigelTree : \A p \in Path : tree[p] # Torn
  BY RigelContentAssumption, TornAssumption, AbsentAssumption
  DEF RigelTree, Tree, MaybeContent, EmptyTree

-----------------------------------------------------------------------------
(* TypeOK is inductive. *)

LEMMA AdoptTypeStep == TypeOK /\ [Next]_vars => TypeOK'
<1> SUFFICES ASSUME TypeOK, [Next]_vars
             PROVE  TypeOK'
  OBVIOUS
<1> USE DEF TypeOK
<1>1. ASSUME NEW forceCore \in BOOLEAN, NEW takeHarness \in BOOLEAN,
             Start(forceCore, takeHarness)
      PROVE  TypeOK'
  <2>1. LET pl == PlanInstall(shipped, disk)
        IN pl.added \subseteq Path /\ pl.identical \subseteq Path /\ pl.declined \subseteq Path
    BY DEF PlanInstall, Present
  <2>2. {moves, adds, claim, declined}' \subseteq SUBSET Path
    BY <1>1, <2>1 DEF Start, CoreCollisions, StaleHarness
  <2>3. UNCHANGED <<repoVars, shipped, found, aside, releases, edits, crashes>>
        /\ running' = TRUE /\ raced' = FALSE
    BY <1>1 DEF Start, CoreCollisions, StaleHarness
  <2>4. QED
    BY <2>2, <2>3 DEF repoVars, Present
<1>2. ASSUME NEW p \in Path, MoveAside(p)
      PROVE  TypeOK'
  <2>1. disk' \in Tree /\ backup' \in Tree
    BY <1>2 DEF MoveAside, Tree, MaybeContent
  <2>2. moves' \subseteq Path /\ aside' \subseteq Path
    BY <1>2 DEF MoveAside
  <2>3. UNCHANGED <<born, recorded, baseline, shipped, running, adds, claim, declined,
                    found, raced, releases, edits, crashes>>
    BY <1>2 DEF MoveAside
  <2>4. QED
    BY <2>1, <2>2, <2>3 DEF Present
<1>3. ASSUME NEW p \in Path, Place(p)
      PROVE  TypeOK'
  <2>1. shipped[p] \in MaybeContent
    BY RigelTreeFacts DEF Tree
  <2>2. disk' \in Tree /\ adds' \subseteq Path
    BY <1>3, <2>1 DEF Place, Tree
  <2>3. UNCHANGED <<backup, born, recorded, baseline, shipped, running, moves, claim,
                    declined, found, aside, raced, releases, edits, crashes>>
    BY <1>3 DEF Place, historyVars
  <2>4. QED
    BY <2>2, <2>3 DEF Present
<1>4. CASE WriteManifest
  <2>1. recorded' \in Tree /\ Present(recorded') \subseteq Managed
    BY <1>4, RecordFacts DEF WriteManifest, Present
  <2>2. /\ baseline' \subseteq Path /\ born' = TRUE /\ running' = FALSE
        /\ moves' = {} /\ adds' = {} /\ claim' = {} /\ declined' = {}
        /\ UNCHANGED <<disk, backup, shipped, found, aside, raced, releases, edits, crashes>>
    BY <1>4 DEF WriteManifest, Idle, historyVars
  <2>3. QED
    BY <2>1, <2>2
<1>5. CASE Throw \/ Crash
  <2>1. /\ running' = FALSE /\ moves' = {} /\ adds' = {} /\ claim' = {} /\ declined' = {}
        /\ UNCHANGED <<disk, backup, born, recorded, baseline, shipped, found, aside, raced,
                       releases, edits>>
    BY <1>5 DEF Throw, Crash, Idle, repoVars, historyVars
  <2>2. crashes' \in Nat
    BY <1>5 DEF Throw, Crash
  <2>3. QED
    BY <2>1, <2>2 DEF Present
<1>6. ASSUME NEW p \in Path, CrashInCopy(p)
      PROVE  TypeOK'
  <2>1. disk' \in Tree
    BY <1>6, TornAssumption DEF CrashInCopy, Tree, MaybeContent
  <2>2. /\ running' = FALSE /\ moves' = {} /\ adds' = {} /\ claim' = {} /\ declined' = {}
        /\ UNCHANGED <<backup, born, recorded, baseline, shipped, found, aside, raced,
                       releases, edits>>
    BY <1>6 DEF CrashInCopy, Idle, historyVars
  <2>3. crashes' \in Nat
    BY <1>6 DEF CrashInCopy
  <2>4. QED
    BY <2>1, <2>2, <2>3 DEF Present
<1>7. ASSUME OwnerActs
      PROVE  /\ edits' \in Nat /\ raced' = TRUE
             /\ UNCHANGED <<born, recorded, baseline, shipped, running, moves, adds,
                            claim, declined, aside, releases, crashes>>
  BY <1>7 DEF OwnerActs, jobVars
<1>8. ASSUME NEW p \in Path, NEW c \in MaybeContent, UserWrites(p, c)
      PROVE  TypeOK'
  <2>1. disk' \in Tree /\ UNCHANGED <<backup, found>> /\ OwnerActs
    BY <1>8 DEF UserWrites, Tree
  <2>2. QED
    BY <1>7, <2>1 DEF Present
<1>9. ASSUME NEW p \in Path, UserDeletesBackup(p)
      PROVE  TypeOK'
  <2>1. backup' \in Tree /\ UNCHANGED <<disk, found>> /\ OwnerActs
    BY <1>9 DEF UserDeletesBackup, Tree, MaybeContent
  <2>2. QED
    BY <1>7, <2>1 DEF Present
<1>10. ASSUME NEW tree \in RigelTree, Release(tree)
       PROVE  TypeOK'
  <2>1. shipped' \in RigelTree
    BY <1>10 DEF Release
  <2>2. releases' \in Nat
    BY <1>10 DEF Release
  <2>3. UNCHANGED <<repoVars, jobVars, found, aside, raced, edits, crashes>>
    BY <1>10 DEF Release
  <2>4. QED
    BY <2>1, <2>2, <2>3 DEF repoVars, jobVars, Present
<1>11. CASE UNCHANGED vars
  BY <1>11 DEF vars, repoVars, jobVars, historyVars, Present
<1>12. QED
  BY <1>1, <1>2, <1>3, <1>4, <1>5, <1>6, <1>8, <1>9, <1>10, <1>11 DEF Next

LEMMA AdoptInitType == Init => TypeOK
<1> SUFFICES ASSUME Init
             PROVE  TypeOK
  OBVIOUS
<1>1. disk \in Tree
  BY DEF Init, Tree
<1>2. Present(recorded) = {}
  BY DEF Init, Present, EmptyTree
<1>3. {born, running, raced} \subseteq BOOLEAN
  BY DEF Init
<1>4. {releases, edits, crashes} \subseteq Nat
  BY DEF Init
<1>5. {baseline, moves, adds, claim, declined, aside} \subseteq SUBSET Path
  BY DEF Init
<1>6. QED
  BY <1>1, <1>2, <1>3, <1>4, <1>5, RigelTreeFacts DEF Init, TypeOK

(* Every variable of an adoption keeps its type, and only managed paths    *)
(* are recorded: seed files are placed and belong to the team at once.     *)
THEOREM AdoptTypeCorrect == Spec => []TypeOK
  BY AdoptInitType, AdoptTypeStep, PTL DEF Spec

-----------------------------------------------------------------------------
(* The invariant of adoption is inductive.  One lemma per action; each of  *)
(* the four parts RecordIsHonest, JobInv, PlanStillHolds and Resumable is  *)
(* a step, and AdoptConverges follows from them when the manifest is       *)
(* written.                                                                *)

(* AdoptInv without its type part. *)
RunInv == RecordIsHonest /\ JobInv /\ PlanStillHolds /\ Resumable /\ AdoptConverges

(* A repository without a manifest has nothing to be honest about. *)
LEMMA NotBornYet ==
  ASSUME RunInv, ~born', UNCHANGED <<recorded, baseline>>
  PROVE  RecordIsHonest' /\ AdoptConverges'
  BY DEF RunInv, RecordIsHonest, AdoptConverges, Present

LEMMA StartKeepsInv ==
  ASSUME TypeOK, TypeOK', RunInv, NEW forceCore \in BOOLEAN, NEW takeHarness \in BOOLEAN,
         Start(forceCore, takeHarness)
  PROVE  RunInv'
<1> DEFINE pl == PlanInstall(shipped, disk)
           takeOver == (IF forceCore THEN pl.declined \cap Core ELSE {})
                       \cup (IF takeHarness THEN (pl.declined \cap Harness) \ Core ELSE {})
<1>1. /\ ~born /\ ~running
      /\ moves' = takeOver /\ adds' = pl.added \cup takeOver
      /\ claim' = pl.added \cup takeOver \cup pl.identical
      /\ declined' = pl.declined \ takeOver
      /\ running' = TRUE /\ raced' = FALSE
      /\ UNCHANGED <<disk, backup, born, recorded, baseline, shipped, found, aside,
                     releases, edits>>
  BY DEF Start, CoreCollisions, StaleHarness, repoVars
<1>2. disk \in Tree /\ shipped \in Tree /\ \A p \in Path : shipped[p] # Torn
  BY RigelTreeFacts DEF TypeOK
<1>3. /\ pl.added \cup pl.identical \cup pl.declined = Present(shipped)
      /\ \A p \in pl.added : disk[p] = Absent
      /\ \A p \in pl.identical : disk[p] = shipped[p]
      /\ \A p \in pl.declined : disk[p] \notin {Absent, shipped[p]}
      /\ \A p \in Present(shipped) : disk[p] \notin {Absent, shipped[p]} => p \in pl.declined
  BY <1>2, PlanInstallFacts
<1>4. takeOver \subseteq pl.declined
  OBVIOUS
<1>5. \A p \in Present(shipped) : p \in Path /\ shipped[p] # Absent
  BY DEF Present
<1> HIDE DEF pl, takeOver
<1>6. JobInv'
  <2>1. Present(shipped)' = Present(shipped)
    BY <1>1 DEF Present
  <2>2. \A p \in claim' \ moves' : disk[p] # Torn
    BY <1>1, <1>2, <1>3, <1>5, AbsentAssumption, TornAssumption
  <2>3. claim' \cap declined' = {}
    BY <1>1, <1>3, <1>5
  <2>4. QED
    BY <1>1, <1>3, <1>4, <2>1, <2>2, <2>3 DEF JobInv
<1>7. PlanStillHolds'
  BY <1>1, <1>3, <1>4, <1>5 DEF PlanStillHolds
<1>8. Resumable'
  <2> SUFFICES ASSUME Undisturbed
               PROVE  /\ \A p \in Path : backup[p] = Torn => disk[p] \in {Absent, shipped[p], Torn}
                      /\ Uncut =>
                         LET first == PlanInstall(shipped, found)
                         IN /\ aside \subseteq first.declined
                            /\ \A p \in Path \ aside :
                                 disk[p] = found[p] \/ (found[p] = Absent /\ disk[p] = shipped[p])
                            /\ \A p \in aside : disk[p] \in {Absent, shipped[p]} /\ backup[p] = found[p]
                            /\ declined' = first.declined \ (aside \cup moves')
                            /\ claim' = Present(shipped) \ declined'
    BY <1>1 DEF Resumable, Undisturbed, Uncut, Present, PlanInstall
  <2> DEFINE first == PlanInstall(shipped, found)
  <2>1. \A p \in Path : backup[p] = Torn => disk[p] \in {Absent, shipped[p], Torn}
    BY DEF RunInv, Resumable
  <2>2. ASSUME Uncut
        PROVE  /\ aside \subseteq first.declined
               /\ \A p \in Path \ aside :
                    disk[p] = found[p] \/ (found[p] = Absent /\ disk[p] = shipped[p])
               /\ \A p \in aside : disk[p] \in {Absent, shipped[p]} /\ backup[p] = found[p]
    BY <2>2 DEF RunInv, Resumable
  <2>3. /\ first.declined \subseteq Present(shipped)
        /\ \A p \in first.declined : found[p] \notin {Absent, shipped[p]}
        /\ \A p \in Present(shipped) :
             found[p] \notin {Absent, shipped[p]} => p \in first.declined
    BY <1>2, PlanInstallFacts DEF TypeOK
  <2> HIDE DEF first
  <2>4. ASSUME Uncut
        PROVE  pl.declined = first.declined \ aside
    <3>1. \A p \in pl.declined : p \in first.declined \ aside
      BY <1>3, <1>5, <2>2, <2>3, <2>4
    <3>2. \A p \in first.declined \ aside : p \in pl.declined
      BY <1>3, <1>5, <2>2, <2>3, <2>4
    <3>3. QED
      BY <3>1, <3>2
  <2>5. ASSUME Uncut
        PROVE  declined' = first.declined \ (aside \cup moves')
    BY <1>1, <2>4, <2>5
  <2>6. claim' = Present(shipped) \ declined'
    BY <1>1, <1>3, <1>4, <1>5
  <2>7. QED
    BY <2>1, <2>2, <2>5, <2>6 DEF first
<1>9. QED
  BY <1>1, <1>6, <1>7, <1>8, NotBornYet DEF RunInv

LEMMA MoveKeepsInv ==
  ASSUME TypeOK, TypeOK', RunInv, NEW q \in Path, MoveAside(q)
  PROVE  RunInv'
<1>1. /\ running /\ q \in moves /\ disk[q] # Absent
      /\ backup' = [backup EXCEPT ![q] = disk[q]] /\ disk' = [disk EXCEPT ![q] = Absent]
      /\ moves' = moves \ {q} /\ aside' = aside \cup {q}
      /\ UNCHANGED <<born, recorded, baseline, shipped, running, adds, claim, declined,
                     found, raced, releases, edits>>
  BY DEF MoveAside, NextMove
<1>2. /\ \A p \in Path : p # q => disk'[p] = disk[p] /\ backup'[p] = backup[p]
      /\ disk'[q] = Absent /\ backup'[q] = disk[q]
  BY <1>1 DEF TypeOK, Tree
<1>3. JobInv /\ PlanStillHolds /\ Resumable /\ ~born /\ ~born'
  BY <1>1 DEF RunInv, JobInv
<1>4. Torn # Absent
  BY AbsentAssumption, TornAssumption
<1>5. moves \subseteq Path /\ adds \subseteq Path /\ claim \subseteq Path /\ declined \subseteq Path
  BY DEF TypeOK
<1>6. JobInv'
  <2>1. Present(shipped)' = Present(shipped)
    BY <1>1 DEF Present
  <2>2. QED
    BY <1>1, <1>2, <1>3, <1>4, <1>5, <2>1 DEF JobInv
<1>7. PlanStillHolds'
  <2>1. q \in adds /\ q \in claim /\ q \notin declined
    BY <1>1, <1>3 DEF JobInv
  <2>2. QED
    BY <1>1, <1>2, <1>3, <1>5, <2>1 DEF PlanStillHolds
<1>8. Resumable'
  <2> SUFFICES ASSUME Undisturbed
               PROVE  Resumable'
    BY <1>1 DEF Resumable, Undisturbed
  <2>1. ~raced /\ disk[q] \notin {Absent, shipped[q]}
    BY <1>1, <1>3 DEF Resumable, PlanStillHolds
  <2>2. \A p \in Path : backup'[p] = Torn => disk'[p] \in {Absent, shipped'[p], Torn}
    BY <1>1, <1>2, <1>3 DEF Resumable
  <2> DEFINE first == PlanInstall(shipped, found)
  <2>3. first' = first
    BY <1>1 DEF PlanInstall, Present
  <2>4. ASSUME Uncut'
        PROVE  /\ (aside \cup {q}) \subseteq first.declined
               /\ \A p \in Path \ (aside \cup {q}) :
                    disk'[p] = found[p] \/ (found[p] = Absent /\ disk'[p] = shipped[p])
               /\ \A p \in aside \cup {q} :
                    disk'[p] \in {Absent, shipped[p]} /\ backup'[p] = found[p]
               /\ declined = first.declined \ ((aside \cup {q}) \cup (moves \ {q}))
               /\ claim = Present(shipped) \ declined
    <3>1. disk[q] # Torn
      BY <1>2, <2>4 DEF Uncut
    <3>2. backup[q] # Torn
      BY <1>3, <2>1, <3>1 DEF Resumable
    <3>3. Uncut
      BY <1>2, <2>4, <3>1, <3>2 DEF Uncut
    <3>4. /\ aside \subseteq first.declined
          /\ \A p \in Path \ aside :
               disk[p] = found[p] \/ (found[p] = Absent /\ disk[p] = shipped[p])
          /\ \A p \in aside : disk[p] \in {Absent, shipped[p]} /\ backup[p] = found[p]
          /\ declined = first.declined \ (aside \cup moves)
          /\ claim = Present(shipped) \ declined
      BY <1>1, <1>3, <3>3 DEF Resumable
    <3>5. q \notin aside /\ disk[q] = found[q]
      BY <2>1, <3>4
    <3>6. q \in Present(shipped)
      BY <1>1, <1>3 DEF JobInv
    <3>7. q \in first.declined
      BY <2>1, <3>5, <3>6 DEF PlanInstall, Present
    <3>8. aside \subseteq Path
      BY DEF TypeOK
    <3> HIDE DEF first
    <3>9. QED
      BY <1>1, <1>2, <3>4, <3>5, <3>7, <3>8
  <2>5. Present(shipped)' = Present(shipped)
    BY <1>1 DEF Present
  <2> HIDE DEF first
  <2>6. Uncut' => /\ aside' \subseteq first'.declined
                  /\ \A p \in Path \ aside' :
                       disk'[p] = found'[p] \/ (found'[p] = Absent /\ disk'[p] = shipped'[p])
                  /\ \A p \in aside' : disk'[p] \in {Absent, shipped'[p]} /\ backup'[p] = found'[p]
                  /\ running' => /\ declined' = first'.declined \ (aside' \cup moves')
                                 /\ claim' = Present(shipped)' \ declined'
    BY <1>1, <2>3, <2>4, <2>5
  <2>7. ~raced'
    BY <1>1, <2>1
  <2>8. QED
    BY <2>2, <2>6, <2>7 DEF Resumable, first
<1>9. QED
  BY <1>1, <1>3, <1>6, <1>7, <1>8, NotBornYet DEF RunInv

LEMMA PlaceKeepsInv ==
  ASSUME TypeOK, TypeOK', RunInv, NEW q \in Path, Place(q)
  PROVE  RunInv'
<1>1. /\ running /\ moves = {} /\ q \in adds /\ disk[q] = Absent
      /\ disk' = [disk EXCEPT ![q] = shipped[q]] /\ adds' = adds \ {q}
      /\ UNCHANGED <<backup, born, recorded, baseline, shipped, running, moves, claim,
                     declined, found, aside, raced, releases, edits>>
  BY DEF Place, NextPlace, historyVars
<1>2. /\ \A p \in Path : p # q => disk'[p] = disk[p]
      /\ disk'[q] = shipped[q] /\ shipped[q] # Torn
  BY <1>1, RigelTreeFacts DEF TypeOK, Tree
<1>3. JobInv /\ PlanStillHolds /\ Resumable /\ ~born /\ ~born'
  BY <1>1 DEF RunInv, JobInv
<1>4. /\ moves \subseteq Path /\ adds \subseteq Path /\ claim \subseteq Path
      /\ declined \subseteq Path /\ aside \subseteq Path
  BY DEF TypeOK
<1>5. Present(shipped)' = Present(shipped)
  BY <1>1 DEF Present
<1>6. JobInv'
  BY <1>1, <1>2, <1>3, <1>4, <1>5 DEF JobInv
<1>7. PlanStillHolds'
  <2>1. q \in claim /\ q \notin declined
    BY <1>1, <1>3 DEF JobInv
  <2>2. QED
    BY <1>1, <1>2, <1>3, <1>4, <2>1 DEF PlanStillHolds
<1>8. Resumable'
  <2> DEFINE first == PlanInstall(shipped, found)
  <2>1. first' = first
    BY <1>1 DEF PlanInstall, Present
  <2> SUFFICES ASSUME Undisturbed
               PROVE  Resumable'
    BY <1>1 DEF Resumable, Undisturbed
  <2>2. /\ ~raced
        /\ \A p \in Path : backup'[p] = Torn => disk'[p] \in {Absent, shipped'[p], Torn}
    BY <1>1, <1>2, <1>3 DEF Resumable
  <2>3. ASSUME Uncut'
        PROVE  /\ aside \subseteq first.declined
               /\ \A p \in Path \ aside :
                    disk'[p] = found[p] \/ (found[p] = Absent /\ disk'[p] = shipped[p])
               /\ \A p \in aside : disk'[p] \in {Absent, shipped[p]} /\ backup[p] = found[p]
               /\ declined = first.declined \ (aside \cup moves)
               /\ claim = Present(shipped) \ declined
    <3>1. Torn # Absent
      BY AbsentAssumption, TornAssumption
    <3>2. Uncut
      BY <1>1, <1>2, <2>3, <3>1 DEF Uncut
    <3>3. /\ aside \subseteq first.declined
          /\ \A p \in Path \ aside :
               disk[p] = found[p] \/ (found[p] = Absent /\ disk[p] = shipped[p])
          /\ \A p \in aside : disk[p] \in {Absent, shipped[p]} /\ backup[p] = found[p]
          /\ declined = first.declined \ (aside \cup moves)
          /\ claim = Present(shipped) \ declined
      BY <1>1, <1>3, <3>2 DEF Resumable
    <3> HIDE DEF first
    <3>4. \A p \in Path \ aside :
            disk'[p] = found[p] \/ (found[p] = Absent /\ disk'[p] = shipped[p])
      BY <1>1, <1>2, <3>3
    <3>5. \A p \in aside : disk'[p] \in {Absent, shipped[p]} /\ backup[p] = found[p]
      BY <1>1, <1>2, <1>4, <3>3
    <3>6. QED
      BY <3>3, <3>4, <3>5
  <2> HIDE DEF first
  <2>4. Uncut' => /\ aside' \subseteq first'.declined
                  /\ \A p \in Path \ aside' :
                       disk'[p] = found'[p] \/ (found'[p] = Absent /\ disk'[p] = shipped'[p])
                  /\ \A p \in aside' : disk'[p] \in {Absent, shipped'[p]} /\ backup'[p] = found'[p]
                  /\ running' => /\ declined' = first'.declined \ (aside' \cup moves')
                                 /\ claim' = Present(shipped)' \ declined'
    BY <1>1, <1>5, <2>1, <2>3
  <2>5. QED
    BY <1>1, <2>2, <2>4 DEF Resumable, first
<1>9. QED
  BY <1>1, <1>3, <1>6, <1>7, <1>8, NotBornYet DEF RunInv

LEMMA ManifestKeepsInv ==
  ASSUME TypeOK, TypeOK', RunInv, WriteManifest
  PROVE  RunInv'
<1>1. /\ running /\ adds = {} /\ claim \cap Managed \subseteq Present(disk)
      /\ recorded' = BuildManifest(disk, claim) /\ baseline' = declined
      /\ born' /\ ~running'
      /\ UNCHANGED <<disk, backup, shipped, found, aside, raced, releases, edits>>
  BY DEF WriteManifest, Idle, historyVars
<1>2. JobInv /\ PlanStillHolds /\ Resumable
  BY DEF RunInv
<1>3. /\ moves = {} /\ claim \cap declined = {} /\ claim \subseteq Present(shipped)
      /\ \A p \in claim : disk[p] # Torn
  BY <1>1, <1>2 DEF JobInv
<1>4. claim \in SUBSET Path /\ disk \in Tree /\ declined \subseteq Path
  BY DEF TypeOK
<1>5. \A p \in Path : recorded'[p] = IF p \in claim \cap Managed THEN disk[p] ELSE Absent
  BY <1>1, <1>4, RecordFacts
<1>6. Present(recorded') = claim \cap Managed
  BY <1>1, <1>4, <1>5 DEF Present
<1>7. ASSUME ~raced
      PROVE  /\ \A p \in claim : disk[p] = shipped[p]
             /\ \A p \in declined : disk[p] \notin {Absent, shipped[p]}
  BY <1>1, <1>2, <1>7 DEF PlanStillHolds
<1>8. RecordIsHonest'
  <2>1. \A p \in Path : recorded'[p] # Torn
    BY <1>3, <1>5, AbsentAssumption, TornAssumption
  <2>2. baseline' \cap Present(recorded') = {}
    BY <1>1, <1>3, <1>6
  <2>3. ASSUME ~raced
        PROVE  /\ \A p \in claim \cap Managed : recorded'[p] = shipped[p] /\ disk[p] = shipped[p]
               /\ \A p \in declined : disk[p] \notin {Absent, shipped[p]}
    BY <1>4, <1>5, <1>7, <2>3
  <2>4. QED
    BY <1>1, <1>6, <2>1, <2>2, <2>3 DEF RecordIsHonest, Present
<1>9. JobInv' /\ PlanStillHolds'
  BY <1>1 DEF JobInv, PlanStillHolds
<1> DEFINE first == PlanInstall(shipped, found)
<1>10. first' = first /\ Present(shipped)' = Present(shipped)
  BY <1>1 DEF PlanInstall, Present
<1>11. Resumable'
  BY <1>1, <1>2, <1>10 DEF Resumable, Undisturbed, Uncut
<1>12. ASSUME Undisturbed, Uncut
       PROVE  LET kept == first.declined \ aside
              IN /\ declined = kept
                 /\ claim \cap Managed = (Present(shipped) \cap Managed) \ kept
                 /\ \A p \in Path :
                      disk[p] = IF p \in Present(shipped) \ kept THEN shipped[p] ELSE found[p]
                 /\ \A p \in aside : backup[p] = found[p]
  <2>1. /\ ~raced /\ aside \subseteq first.declined
        /\ \A p \in Path \ aside :
             disk[p] = found[p] \/ (found[p] = Absent /\ disk[p] = shipped[p])
        /\ \A p \in aside : backup[p] = found[p]
        /\ declined = first.declined \ (aside \cup moves)
        /\ claim = Present(shipped) \ declined
    BY <1>1, <1>2, <1>12 DEF Resumable
  <2>2. /\ first.declined \subseteq Present(shipped)
        /\ \A p \in first.declined : found[p] \notin {Absent, shipped[p]}
        /\ \A p \in Path : p \notin Present(shipped) => shipped[p] = Absent
    BY DEF PlanInstall, Present
  <2> HIDE DEF first
  <2>3. declined = first.declined \ aside
    BY <1>3, <2>1
  <2>4. \A p \in claim : disk[p] = shipped[p]
    BY <1>7, <2>1
  <2>5. \A p \in Path \ claim : disk[p] = found[p]
    BY <2>1, <2>2, <2>3
  <2>6. QED
    BY <2>1, <2>3, <2>4, <2>5
<1> HIDE DEF first
<1>13. AdoptConverges'
  BY <1>1, <1>6, <1>10, <1>12 DEF AdoptConverges, Undisturbed, Uncut, first
<1>14. QED
  BY <1>8, <1>9, <1>11, <1>13 DEF RunInv

(* A run that throws or dies between two steps leaves everything but the   *)
(* run itself.                                                             *)
LEMMA StopKeepsInv ==
  ASSUME TypeOK, TypeOK', RunInv, Throw \/ Crash
  PROVE  RunInv'
<1>1. running /\ ~running'
      /\ UNCHANGED <<disk, backup, born, recorded, baseline, shipped, found, aside, raced,
                     releases, edits>>
  BY DEF Throw, Crash, NextMove, NextPlace, Idle, repoVars, historyVars
<1>2. ~born'
  BY <1>1 DEF RunInv, JobInv
<1>3. JobInv' /\ PlanStillHolds'
  BY <1>1 DEF JobInv, PlanStillHolds
<1>4. PlanInstall(shipped, found)' = PlanInstall(shipped, found)
  BY <1>1 DEF PlanInstall, Present
<1>5. Resumable'
  BY <1>1, <1>4 DEF RunInv, Resumable, Undisturbed, Uncut
<1>6. QED
  BY <1>1, <1>2, <1>3, <1>5, NotBornYet DEF RunInv

LEMMA CutKeepsInv ==
  ASSUME TypeOK, TypeOK', RunInv, NEW q \in Path, CrashInCopy(q)
  PROVE  RunInv'
<1>1. /\ running /\ ~running' /\ disk' = [disk EXCEPT ![q] = Torn]
      /\ UNCHANGED <<backup, born, recorded, baseline, shipped, found, aside, raced,
                     releases, edits>>
  BY DEF CrashInCopy, NextPlace, Idle, historyVars
<1>2. ~born'
  BY <1>1 DEF RunInv, JobInv
<1>3. JobInv' /\ PlanStillHolds'
  BY <1>1 DEF JobInv, PlanStillHolds
<1>4. disk'[q] = Torn /\ \A p \in Path : p # q => disk'[p] = disk[p]
  BY <1>1 DEF TypeOK, Tree
<1>5. ~Uncut'
  BY <1>4 DEF Uncut
<1>6. Resumable'
  BY <1>1, <1>4, <1>5 DEF RunInv, Resumable, Undisturbed
<1>7. QED
  BY <1>1, <1>2, <1>3, <1>6, NotBornYet DEF RunInv

(* The owner cannot write half a file of Rigel's, and from then on the     *)
(* tree is no longer the one adoption found.                               *)
LEMMA OwnerKeepsAdoptInv ==
  ASSUME TypeOK, TypeOK', RunInv, OwnerActs,
         \A p \in Path : disk'[p] = Torn => disk[p] = Torn
  PROVE  RunInv'
<1>1. /\ ~born' /\ raced' /\ edits' = edits + 1 /\ edits \in Nat
      /\ UNCHANGED <<born, recorded, baseline, shipped, running, moves, adds, claim, declined>>
  BY DEF OwnerActs, jobVars, TypeOK
<1>2. ~Undisturbed'
  BY <1>1 DEF Undisturbed
<1>3. Resumable' /\ PlanStillHolds'
  BY <1>1, <1>2 DEF Resumable, PlanStillHolds
<1>4. JobInv'
  <2>1. claim \subseteq Path
    BY DEF TypeOK
  <2>2. QED
    BY <1>1, <2>1 DEF RunInv, JobInv, Present
<1>5. QED
  BY <1>1, <1>3, <1>4, NotBornYet DEF RunInv

LEMMA ReleaseKeepsInv ==
  ASSUME TypeOK, TypeOK', RunInv, NEW tree \in RigelTree, Release(tree)
  PROVE  RunInv'
<1>1. /\ ~born' /\ ~running' /\ releases' = releases + 1 /\ releases \in Nat
      /\ UNCHANGED <<recorded, baseline>>
  BY DEF Release, repoVars, jobVars, TypeOK
<1>2. ~Undisturbed'
  BY <1>1 DEF Undisturbed
<1>3. QED
  BY <1>1, <1>2, NotBornYet DEF RunInv, Resumable, JobInv, PlanStillHolds

LEMMA AdoptInvStep == AdoptInv /\ [Next]_vars => AdoptInv'
<1> SUFFICES ASSUME TypeOK, RunInv, [Next]_vars
             PROVE  TypeOK' /\ RunInv'
  BY DEF AdoptInv, RunInv
<1>1. TypeOK'
  BY AdoptTypeStep
<1>2. ASSUME NEW forceCore \in BOOLEAN, NEW takeHarness \in BOOLEAN,
             Start(forceCore, takeHarness)
      PROVE  RunInv'
  BY <1>1, <1>2, StartKeepsInv
<1>3. ASSUME NEW p \in Path, MoveAside(p)
      PROVE  RunInv'
  BY <1>1, <1>3, MoveKeepsInv
<1>4. ASSUME NEW p \in Path, Place(p)
      PROVE  RunInv'
  BY <1>1, <1>4, PlaceKeepsInv
<1>5. CASE WriteManifest
  BY <1>1, <1>5, ManifestKeepsInv
<1>6. CASE Throw \/ Crash
  BY <1>1, <1>6, StopKeepsInv
<1>7. ASSUME NEW p \in Path, CrashInCopy(p)
      PROVE  RunInv'
  BY <1>1, <1>7, CutKeepsInv
<1>8. ASSUME NEW p \in Path, NEW c \in MaybeContent, UserWrites(p, c)
      PROVE  RunInv'
  <2>1. OwnerActs /\ \A r \in Path : disk'[r] = Torn => disk[r] = Torn
    BY <1>8 DEF UserWrites, TypeOK, Tree
  <2>2. QED
    BY <1>1, <2>1, OwnerKeepsAdoptInv
<1>9. ASSUME NEW p \in Path, UserDeletesBackup(p)
      PROVE  RunInv'
  <2>1. OwnerActs /\ disk' = disk
    BY <1>9 DEF UserDeletesBackup
  <2>2. QED
    BY <1>1, <2>1, OwnerKeepsAdoptInv
<1>10. ASSUME NEW tree \in RigelTree, Release(tree)
       PROVE  RunInv'
  BY <1>1, <1>10, ReleaseKeepsInv
<1>11. CASE UNCHANGED vars
  <2>1. UNCHANGED <<disk, backup, born, recorded, baseline, shipped, running, moves, adds,
                    claim, declined, found, aside, raced, releases, edits>>
    BY <1>11 DEF vars, repoVars, jobVars, historyVars
  <2>2. /\ PlanInstall(shipped, found)' = PlanInstall(shipped, found)
        /\ Present(shipped)' = Present(shipped) /\ Present(recorded)' = Present(recorded)
    BY <2>1 DEF PlanInstall, Present
  <2>3. RecordIsHonest' /\ JobInv' /\ PlanStillHolds'
    BY <2>1, <2>2 DEF RunInv, RecordIsHonest, JobInv, PlanStillHolds
  <2>4. Resumable' /\ AdoptConverges'
    BY <2>1, <2>2 DEF RunInv, Resumable, AdoptConverges, Undisturbed, Uncut
  <2>5. QED
    BY <1>1, <2>3, <2>4 DEF RunInv
<1>12. QED
  BY <1>1, <1>2, <1>3, <1>4, <1>5, <1>6, <1>7, <1>8, <1>9, <1>10, <1>11 DEF Next

LEMMA AdoptInitInv == Init => AdoptInv
<1> SUFFICES ASSUME Init
             PROVE  AdoptInv
  OBVIOUS
<1>1. TypeOK
  BY AdoptInitType
<1>2. /\ ~born /\ ~running /\ ~raced /\ aside = {} /\ found = disk /\ baseline = {}
      /\ \A p \in Path : recorded[p] = Absent /\ backup[p] = Absent
  BY DEF Init, EmptyTree
<1>3. Torn # Absent
  BY AbsentAssumption, TornAssumption
<1>4. RecordIsHonest /\ JobInv /\ PlanStillHolds /\ AdoptConverges
  BY <1>2, <1>3 DEF RecordIsHonest, JobInv, PlanStillHolds, AdoptConverges
<1>5. Resumable
  BY <1>2, <1>3 DEF Resumable
<1>6. QED
  BY <1>1, <1>4, <1>5 DEF AdoptInv

(* The invariant of adoption holds throughout: for any tree, flags,        *)
(* crashes, exceptions and edits in between.                               *)
THEOREM AdoptionInvariant == Spec => []AdoptInv
  BY AdoptInitInv, AdoptInvStep, PTL DEF Spec

(* A manifest born by adoption is honest: it never claims a cut-short      *)
(* copy, never both owns and baselines a path, and, if nobody interfered,  *)
(* records exactly what Rigel ships.                                       *)
THEOREM AdoptionIsHonest == Spec => []RecordIsHonest
<1>1. AdoptInv => RecordIsHonest
  BY DEF AdoptInv
<1>2. QED
  BY <1>1, AdoptionInvariant, PTL

(* Adoption converges: however often it died before, the run that gets     *)
(* through leaves what one uninterrupted run would have left.              *)
THEOREM InterruptedAdoptionConverges == Spec => []AdoptConverges
<1>1. AdoptInv => AdoptConverges
  BY DEF AdoptInv
<1>2. QED
  BY <1>1, AdoptionInvariant, PTL

LEMMA OverwriteStep ==
  TypeOK /\ [Next]_vars
  => (edits' = edits
      => \A p \in Path : disk[p] \notin {Absent, disk'[p]}
                         => disk'[p] = Absent /\ backup'[p] = disk[p])
<1> SUFFICES ASSUME TypeOK, [Next]_vars, edits' = edits, NEW p \in Path,
                    disk[p] # Absent, disk'[p] # disk[p]
             PROVE  disk'[p] = Absent /\ backup'[p] = disk[p]
  OBVIOUS
<1>1. disk \in [Path -> MaybeContent] /\ backup \in [Path -> MaybeContent]
  BY DEF TypeOK, Tree
<1>2. ~OwnerActs
  BY DEF OwnerActs, TypeOK
<1>3. ASSUME NEW q \in Path, MoveAside(q)
      PROVE  disk'[p] = Absent /\ backup'[p] = disk[p]
  BY <1>1, <1>3 DEF MoveAside
<1>4. \A q \in Path : ~Place(q) /\ ~CrashInCopy(q)
  BY <1>1 DEF Place, CrashInCopy
<1>5. /\ \A forceCore, takeHarness \in BOOLEAN : ~Start(forceCore, takeHarness)
      /\ ~WriteManifest /\ ~Throw /\ ~Crash
      /\ \A tree \in RigelTree : ~Release(tree)
  BY DEF Start, CoreCollisions, StaleHarness, WriteManifest, Throw, Crash, Release, repoVars
<1>6. /\ \A q \in Path, c \in MaybeContent : ~UserWrites(q, c)
      /\ \A q \in Path : ~UserDeletesBackup(q)
  BY <1>2 DEF UserWrites, UserDeletesBackup
<1>7. ~UNCHANGED vars
  BY DEF vars, repoVars
<1>8. QED
  BY <1>3, <1>4, <1>5, <1>6, <1>7 DEF Next

(* Rigel never writes over a file it did not write: nothing an adoption    *)
(* makes disappear from a path is lost in that step, races included.       *)
THEOREM AdoptionOverwritesNothing == Spec => NothingOverwritten
<1>1. TypeOK /\ [Next]_vars
      => [edits' = edits
          => \A p \in Path : disk[p] \notin {Absent, disk'[p]}
                             => disk'[p] = Absent /\ backup'[p] = disk[p]]_vars
  BY OverwriteStep
<1>2. QED
  BY <1>1, AdoptTypeCorrect, PTL DEF Spec, NothingOverwritten
=============================================================================
