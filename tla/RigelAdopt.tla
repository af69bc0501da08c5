----------------------------- MODULE RigelAdopt -----------------------------
(***************************************************************************)
(* `create-rigel adopt` step by step: RigelUpdate takes it as one action.  *)
(* cmdAdopt plans from the disk (Start), moves aside the files a flag      *)
(* takes over (MoveAside), places every absent file (Place), and writes    *)
(* the manifest last (WriteManifest).  Any of these may throw because the  *)
(* disk is no longer what was planned (Throw), and the process may die     *)
(* anywhere, in the middle of copying a file too (Crash, CrashInCopy).     *)
(* Until the manifest exists nothing says a run was begun: the next one    *)
(* starts from the disk as it finds it, with the flags it is given, and    *)
(* perhaps a newer release.                                                *)
(***************************************************************************)
EXTENDS RigelPlans, Naturals

CONSTANTS RigelContent,   \* what Rigel's versions may ship
          Core, Harness,  \* paths CORE_RE / HARNESS_RE match
          Torn,           \* what a copy that was cut short leaves
          MaxReleases, MaxEdits, MaxCrashes  \* bounds

ASSUME RigelContentAssumption == RigelContent \subseteq Content \ {Torn}
ASSUME TornAssumption == Torn \in Content
ASSUME CoreAssumption == Core \cup Harness \subseteq Managed
ASSUME BoundsAssumption == {MaxReleases, MaxEdits, MaxCrashes} \subseteq Nat

VARIABLES
  disk,      \* the working tree
  backup,    \* backup[p] is the file <p>.pre-rigel
  born,      \* .rigel/manifest.json exists
  recorded,  \* manifest.files
  baseline,  \* manifest.baseline
  shipped,   \* what materialize() produces from the released package
  running,   \* an adoption is past its checks
  moves,     \* files it still has to move aside
  adds,      \* files it still has to place
  claim,     \* what it will own: plan.added and plan.identical
  declined,  \* plan.declined
  found,     \* the tree before the first run
  aside,     \* paths any run has moved aside
  raced,     \* the owner acted since the latest run started
  releases, edits, crashes

repoVars == <<disk, backup, born, recorded, baseline>>
jobVars == <<running, moves, adds, claim, declined>>
historyVars == <<found, aside, raced>>
vars == <<repoVars, shipped, jobVars, historyVars, releases, edits, crashes>>

RigelTree == [Path -> RigelContent \cup {Absent}]

TypeOK ==
  /\ disk \in Tree /\ backup \in Tree /\ found \in Tree
  /\ recorded \in Tree /\ Present(recorded) \subseteq Managed
  /\ shipped \in RigelTree
  /\ {baseline, moves, adds, claim, declined, aside} \subseteq SUBSET Path
  /\ {born, running, raced} \subseteq BOOLEAN
  /\ {releases, edits, crashes} \subseteq Nat

Init ==
  /\ disk \in [Path -> MaybeContent \ {Torn}] /\ backup = EmptyTree
  /\ born = FALSE /\ recorded = EmptyTree /\ baseline = {}
  /\ shipped \in RigelTree
  /\ running = FALSE /\ moves = {} /\ adds = {} /\ claim = {} /\ declined = {}
  /\ found = disk /\ aside = {} /\ raced = FALSE
  /\ releases = 0 /\ edits = 0 /\ crashes = 0

Idle ==
  /\ running' = FALSE /\ moves' = {} /\ adds' = {} /\ claim' = {} /\ declined' = {}

-----------------------------------------------------------------------------
(* cmdAdopt.  A core collision without --force-core refuses before         *)
(* anything is written, and so does --dry-run: no step.                    *)

\* Declined files that decide whether a check means anything, and other scripts
\* of Rigel's: left in place they would be paired with a newer library.
CoreCollisions(plan) == plan.declined \cap Core
StaleHarness(plan) == (plan.declined \cap Harness) \ Core

Start(forceCore, takeHarness) ==
  LET plan     == PlanInstall(shipped, disk)
      core     == CoreCollisions(plan)
      stale    == StaleHarness(plan)
      takeOver == (IF forceCore THEN core ELSE {})
                  \cup (IF takeHarness THEN stale ELSE {})
  IN /\ ~born /\ ~running
     /\ forceCore \/ core = {}
     /\ running' = TRUE
     /\ moves' = takeOver /\ adds' = plan.added \cup takeOver
     /\ claim' = plan.added \cup takeOver \cup plan.identical
     /\ declined' = plan.declined \ takeOver
     /\ raced' = FALSE
     /\ UNCHANGED <<repoVars, shipped, found, aside, releases, edits, crashes>>

\* Core files are moved before the other harness files.
NextMove(p) == running /\ p \in moves /\ (p \notin Core => moves \cap Core = {})

\* rename(p, `${p}.pre-rigel`)
MoveAside(p) ==
  /\ NextMove(p) /\ disk[p] # Absent
  /\ backup' = [backup EXCEPT ![p] = disk[p]]
  /\ disk' = [disk EXCEPT ![p] = Absent]
  /\ moves' = moves \ {p} /\ aside' = aside \cup {p}
  /\ UNCHANGED <<born, recorded, baseline, shipped, running, adds, claim, declined,
                 found, raced, releases, edits, crashes>>

NextPlace(p) == running /\ moves = {} /\ p \in adds

(* Mutant: fs.cp's default, force: true. *)
PlaceForced(p) ==
  /\ NextPlace(p)
  /\ disk' = [disk EXCEPT ![p] = shipped[p]]
  /\ adds' = adds \ {p}
  /\ UNCHANGED <<backup, born, recorded, baseline, shipped, running, moves, claim,
                 declined, historyVars, releases, edits, crashes>>

\* install()'s cp with force: false, errorOnExist: true.
Place(p) ==
  /\ NextPlace(p) /\ disk[p] = Absent
  /\ disk' = [disk EXCEPT ![p] = shipped[p]]
  /\ adds' = adds \ {p}
  /\ UNCHANGED <<backup, born, recorded, baseline, shipped, running, moves, claim,
                 declined, historyVars, releases, edits, crashes>>

\* buildManifest hashes every managed file of the claim, and cannot when one
\* of them has gone.
WriteManifest ==
  /\ running /\ adds = {}
  /\ claim \cap Managed \subseteq Present(disk)
  /\ recorded' = BuildManifest(disk, claim) /\ baseline' = declined
  /\ born' = TRUE /\ Idle
  /\ UNCHANGED <<disk, backup, shipped, historyVars, releases, edits, crashes>>

\* ENOENT from rename, EEXIST from cp, ENOENT from hashFile: adopt stops there.
Throw ==
  /\ \/ \E p \in Path : NextMove(p) /\ disk[p] = Absent
     \/ \E p \in Path : NextPlace(p) /\ disk[p] # Absent
     \/ running /\ adds = {} /\ ~(claim \cap Managed \subseteq Present(disk))
  /\ Idle
  /\ UNCHANGED <<repoVars, shipped, historyVars, releases, edits, crashes>>

Crash ==
  /\ running /\ crashes < MaxCrashes /\ crashes' = crashes + 1
  /\ Idle
  /\ UNCHANGED <<repoVars, shipped, historyVars, releases, edits>>

\* The process dies in the middle of a copy.
CrashInCopy(p) ==
  /\ NextPlace(p) /\ disk[p] = Absent
  /\ crashes < MaxCrashes /\ crashes' = crashes + 1
  /\ disk' = [disk EXCEPT ![p] = Torn]
  /\ Idle
  /\ UNCHANGED <<backup, born, recorded, baseline, shipped, historyVars, releases, edits>>

-----------------------------------------------------------------------------
(* Everybody else, at any time before the repository is under provenance. *)

OwnerActs ==
  /\ ~born /\ edits < MaxEdits /\ edits' = edits + 1
  /\ raced' = TRUE
  /\ UNCHANGED <<born, recorded, baseline, shipped, jobVars, aside, releases, crashes>>

UserWrites(p, c) ==
  /\ OwnerActs /\ disk[p] # c /\ c # Torn
  /\ disk' = [disk EXCEPT ![p] = c]
  /\ UNCHANGED <<backup, found>>

UserDeletesBackup(p) ==
  /\ OwnerActs /\ backup[p] # Absent
  /\ backup' = [backup EXCEPT ![p] = Absent]
  /\ UNCHANGED <<disk, found>>

Release(tree) ==
  /\ ~born /\ ~running /\ releases < MaxReleases /\ tree # shipped
  /\ shipped' = tree /\ releases' = releases + 1
  /\ UNCHANGED <<repoVars, jobVars, found, aside, raced, edits, crashes>>

Next ==
  \/ \E forceCore, takeHarness \in BOOLEAN : Start(forceCore, takeHarness)
  \/ \E p \in Path : MoveAside(p) \/ Place(p) \/ CrashInCopy(p)
  \/ WriteManifest \/ Throw \/ Crash
  \/ \E p \in Path, c \in MaybeContent : UserWrites(p, c)
  \/ \E p \in Path : UserDeletesBackup(p)
  \/ \E tree \in RigelTree : Release(tree)

Spec == Init /\ [][Next]_vars

(* Somebody runs adopt --force-core again until it goes through. *)
FairSpec ==
  /\ Spec
  /\ WF_vars(\E takeHarness \in BOOLEAN : Start(TRUE, takeHarness))
  /\ WF_vars(\E p \in Path : MoveAside(p) \/ Place(p))
  /\ WF_vars(WriteManifest \/ Throw)

-----------------------------------------------------------------------------
(* lib/install.mjs: "Rigel never writes over a file it did not write".     *)
(* Whatever its owner does under a running adoption, what Rigel makes      *)
(* disappear from a path was moved aside, not lost.                        *)
NothingOverwritten ==
  [][edits' = edits
     => \A p \in Path : disk[p] \notin {Absent, disk'[p]}
                        => disk'[p] = Absent /\ backup'[p] = disk[p]]_vars

(* An adoption nobody disturbed records exactly what Rigel ships, declines *)
(* exactly files that differ from it, and a path is never both.  However   *)
(* many runs died before, a copy that was cut short is never owned.        *)
RecordIsHonest ==
  /\ \A p \in Path : recorded[p] # Torn
  /\ baseline \cap Present(recorded) = {}
  /\ (born /\ ~raced)
     => /\ \A p \in Present(recorded) : recorded[p] = shipped[p] /\ disk[p] = shipped[p]
        /\ \A p \in baseline : disk[p] \notin {Absent, shipped[p]}

(* Adoption may die anywhere and be run again, with the same flags or      *)
(* others: unless a copy was cut short or a newer release came out, what   *)
(* the last run leaves behind is what one run would have made of the tree  *)
(* the first one found, and what was moved aside lies beside it.  Rigel's  *)
(* own files of the earlier runs are not taken for the owner's, nor the    *)
(* owner's for Rigel's.                                                    *)
AdoptConverges ==
  (/\ born /\ edits = 0 /\ releases = 0
   /\ \A p \in Path : Torn \notin {disk[p], backup[p]})
  => LET kept == PlanInstall(shipped, found).declined \ aside
     IN /\ baseline = kept
        /\ Present(recorded) = (Present(shipped) \cap Managed) \ kept
        /\ \A p \in Path :
             disk[p] = IF p \in Present(shipped) \ kept THEN shipped[p] ELSE found[p]
        /\ \A p \in aside : backup[p] = found[p]

(* What the two rest on.  A run only claims what it places, finds          *)
(* identical or takes over, and never a path it declines.                  *)
JobInv ==
  running => /\ ~born
             /\ moves \subseteq adds /\ adds \subseteq claim
             /\ claim \subseteq Present(shipped) /\ claim \cap declined = {}
             /\ \A p \in claim \ moves : disk[p] # Torn

\* Nobody interfering, the disk is what was planned from, as far as the run
\* has not come.
PlanStillHolds ==
  (running /\ ~raced)
  => /\ \A p \in moves : disk[p] \notin {Absent, shipped[p]}
     /\ \A p \in adds \ moves : disk[p] = Absent
     /\ \A p \in claim \ adds : disk[p] = shipped[p]
     /\ \A p \in declined : disk[p] \notin {Absent, shipped[p]}

Undisturbed == edits = 0 /\ releases = 0
Uncut == \A p \in Path : Torn \notin {disk[p], backup[p]}

\* Between the runs, every path is as it was found, or as Rigel made it.
Resumable ==
  Undisturbed
  => /\ ~raced
     /\ \A p \in Path : backup[p] = Torn => disk[p] \in {Absent, shipped[p], Torn}
     /\ Uncut
        => LET first == PlanInstall(shipped, found)
           IN /\ aside \subseteq first.declined
              /\ \A p \in Path \ aside :
                   disk[p] = found[p] \/ (found[p] = Absent /\ disk[p] = shipped[p])
              /\ \A p \in aside : disk[p] \in {Absent, shipped[p]} /\ backup[p] = found[p]
              /\ running => /\ declined = first.declined \ (aside \cup moves)
                            /\ claim = Present(shipped) \ declined

AdoptInv ==
  TypeOK /\ RecordIsHonest /\ JobInv /\ PlanStillHolds /\ Resumable /\ AdoptConverges

(* Every interrupted adoption can be finished.                             *)
AdoptGetsThrough == <>born

(* cli.js promises "yours are saved as <path>.pre-rigel" and "nothing you  *)
(* had was rewritten": a file of the owner's that adoption took over can   *)
(* be found beside it, unless its owner threw it away.                     *)
TakenOverIsKept == edits = 0 => \A p \in aside : found[p] \in {Absent, backup[p]}
=============================================================================
