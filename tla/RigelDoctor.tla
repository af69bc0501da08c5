----------------------------- MODULE RigelDoctor -----------------------------
(***************************************************************************)
(* The two opinions about a repository's health: rigel-verify, the gate    *)
(* step that blocks (and its Python port), and `create-rigel doctor`, the  *)
(* lens that never does.  Both read the manifest, the disk and the         *)
(* sidecars; doctor also asks whether the gate runs Rigel's checks at all, *)
(* by looking for their names in package.json or scripts/gate.sh.          *)
(* Owners edit all of it, and `create-rigel update` rewrites some of it.   *)
(***************************************************************************)
EXTENDS RigelPlans, Naturals, Sequences

CONSTANTS Checks,       \* the paths that are Rigel's check scripts
          Marked,       \* contents with a line of conflict markers
          Undecodable,  \* contents that are not UTF-8
          Releases,     \* bound: what create-rigel ships, version by version
          Understands,  \* the newest manifest schema each release knows
          Waivers,      \* bound: waivers somebody writes
          Gates,        \* bound: package.json, gate.sh and workflows somebody writes
          LastDay,      \* bound on the calendar
          MaxActs,      \* bound on what owners do to files, record and gate
          NoManifest, Spoilt

ASSUME ChecksAssumption == Checks \subseteq Managed
ASSUME ContentsAssumption == Marked \subseteq Content /\ Undecodable \subseteq Content

Waiver == [path : Path, sha256 : Content, expires : 0..LastDay, complete : BOOLEAN]

ASSUME WaiversAssumption == Waivers \subseteq Waiver /\ {LastDay, MaxActs} \subseteq Nat

\* The text a gate is made of: what each part names, and what of it is called
\* and not only mentioned; a part that names nothing is not there.  "runner" is
\* scripts/gate.mjs, "opaque" something doctor cannot parse.
Script == {"gate", "gate:chain"}
Part == Script \cup {"shell"}
Text == [Part -> SUBSET (Script \cup Checks \cup {"runner", "opaque"})]
GateSetup == {g \in [names : Text, calls : Text,
                     ci : {"no workflows", "runs the gate", "never runs it"}] :
               \A s \in Part : g.calls[s] \subseteq g.names[s]}

ASSUME GatesAssumption == Gates \subseteq GateSetup
ASSUME ReleasesAssumption ==
  /\ Releases \in Seq(Tree) /\ Releases # << >> /\ Understands \in [DOMAIN Releases -> Nat]
  /\ \A v \in DOMAIN Releases : \A p \in Path : Releases[v][p] \notin Marked

VARIABLES tree,        \* the working tree
          manifest,    \* .rigel/manifest.json, NoManifest, or Spoilt
          sidecars,    \* paths with a *.rigel-new
          gate,        \* how checks are run
          version,     \* of the create-rigel at hand
          understood,  \* the newest schema the repository's own verifier knows
          today,       \* the date in UTC
          localDay,    \* the date where the gate is run
          acts

healthVars == <<tree, manifest, sidecars, gate, version, understood, today, localDay, acts>>

Manifest == [schema : Nat, files : Tree,
             waivers : Seq(Waivers), deleted : SUBSET Path]

ASSUME ManifestAssumption == NoManifest \notin Manifest /\ Spoilt \notin Manifest

Readable == manifest \notin {NoManifest, Spoilt}

-----------------------------------------------------------------------------
(* rigel-verify. *)

Good(w, day) == w.complete /\ w.expires >= day

\* The waivers in force for p: the last one in the list, or none.
WaiverOf(p, day) ==
  LET for == {i \in DOMAIN manifest.waivers :
                manifest.waivers[i].path = p /\ Good(manifest.waivers[i], day)}
  IN {manifest.waivers[i] : i \in {i \in for : \A j \in for : j <= i}}

Missing == {p \in Present(manifest.files) : tree[p] = Absent}
Edited == {p \in Present(manifest.files) \ Missing : tree[p] # manifest.files[p]}

BadWaivers(day) == \E i \in DOMAIN manifest.waivers : ~Good(manifest.waivers[i], day)
Unwaived(day) == {p \in Missing : WaiverOf(p, day) = {}}
                 \cup {p \in Edited : \A w \in WaiverOf(p, day) : w.sha256 # tree[p]}

\* legible: the contents whose conflict markers this port sees.
VerifyExit(legible, day) ==
  IF ~Readable \/ manifest.schema > understood \/ Present(manifest.files) = {} THEN 2
  ELSE IF \/ BadWaivers(day) \/ Unwaived(day) # {} \/ sidecars # {}
          \/ \E p \in Present(manifest.files) : tree[p] \in Marked \cap legible
  THEN 1 ELSE 0

\* toISOString() is in UTC, date.today() is not.
Verify == VerifyExit(Content, today)
VerifyPy == VerifyExit(Content \ Undecodable, localDay)

\* The step of gate.sh: without a manifest the verifier is not called.
GateVerifyPy == IF manifest = NoManifest THEN 0 ELSE VerifyPy

-----------------------------------------------------------------------------
(* doctor.  A finding is named after what it is about. *)

ProvenanceBad ==
  IF ~Readable THEN {"no provenance"}
  ELSE (IF manifest.schema > Understands[version] THEN {"newer schema"} ELSE {})
       \cup (IF Present(manifest.files) = {} THEN {"zero files"} ELSE {})

IntegrityBad ==
  IF ~Readable THEN {}
  ELSE (IF Missing # {} THEN {"deleted"} ELSE {})
       \cup (IF sidecars # {} THEN {"sidecars"} ELSE {})

IntegrityNotes == IF Readable /\ Edited # {} THEN {"hand-edited"} ELSE {}

InShell == gate.names["shell"] # {}

\* The scripts the walk of doctor reaches, from gate:chain if "gate" names gate.mjs.
ReachableFromGate ==
  LET names == gate.names
      start == IF "runner" \in names["gate"] THEN "gate:chain" ELSE "gate"
  IN {s \in Script : names[s] # {} /\ (s = start \/ s \in names[start])}

\* What doctor takes for invoked: the name occurs in gate.sh, or in the scripts reached.
Invoked(c) ==
  IF InShell THEN c \in gate.names["shell"]
  ELSE \E s \in ReachableFromGate : c \in gate.names[s]

\* The steps of the gate: gate.mjs runs those of gate:chain.  Whether a step is
\* reached is up to those before it, and in gate.sh to there being a src/.
Steps ==
  LET through(s) == gate.calls[s]
                    \cup (IF "runner" \in gate.calls[s] THEN {"gate:chain"} ELSE {})
      first  == through("gate")
      second == IF "gate:chain" \in first THEN through("gate:chain") ELSE {}
  IN IF InShell THEN gate.calls["shell"] ELSE first \cup second

Opaque == gate.names["gate"] # {} /\ \E s \in ReachableFromGate : "opaque" \in gate.names[s]
Harness == {c \in Checks : tree[c] # Absent}

WiringBad ==
  IF Harness = {} THEN {"no harness"}
  ELSE (IF gate.names["gate"] = {} /\ ~InShell THEN {"no gate"} ELSE {})
       \cup (IF \E c \in Harness : ~Invoked(c) /\ ~Opaque THEN {"not run"} ELSE {})
       \cup (IF gate.ci = "never runs it" THEN {"not in CI"} ELSE {})

DoctorBad == ProvenanceBad \cup IntegrityBad \cup WiringBad

-----------------------------------------------------------------------------
Only(s, what) == [r \in Part |-> IF r = s THEN what ELSE {}]

\* As scaffolded: the gate is a script of package.json, or gate.sh.
Born ==
  LET npm == [r \in Part |-> CASE r = "gate" -> {"runner"} [] r = "gate:chain" -> Checks
                               [] OTHER -> {}]
  IN {[names |-> t, calls |-> t, ci |-> "runs the gate"] : t \in {npm, Only("shell", Checks)}}

HealthInit ==
  /\ version = 1 /\ tree = Releases[1] /\ understood = Understands[1] /\ gate \in Born
  /\ manifest = [schema |-> understood, files |-> ManagedOnly(Releases[1]),
                 waivers |-> << >>, deleted |-> {}]
  /\ sidecars = {} /\ today = 0 /\ localDay = 0 /\ acts = 0

Act == acts < MaxActs /\ acts' = acts + 1

OwnerWrites(p, c) ==
  /\ Act /\ tree[p] # c /\ tree' = [tree EXCEPT ![p] = c]
  /\ UNCHANGED <<manifest, sidecars, gate, version, understood, today, localDay>>

DropSidecar(p) ==
  /\ p \in sidecars /\ sidecars' = sidecars \ {p}
  /\ UNCHANGED <<tree, manifest, gate, version, understood, today, localDay, acts>>

\* The manifest is lost, spoilt, emptied, written under another release's
\* schema, or given one more waiver or none.
EditManifest ==
  /\ Act
  /\ \/ manifest' \in {NoManifest, Spoilt}
     \/ /\ Readable
        /\ \/ manifest' = [manifest EXCEPT !.files = EmptyTree, !.waivers = << >>]
           \/ \E v \in DOMAIN Releases :
                manifest' = [manifest EXCEPT !.schema = Understands[v], !.waivers = << >>]
           \/ \E w \in Waivers : /\ \A i \in DOMAIN manifest.waivers : manifest.waivers[i] # w
                                 /\ manifest' = [manifest EXCEPT !.waivers = Append(@, w)]
           \/ manifest' = [manifest EXCEPT !.waivers = << >>]
  /\ UNCHANGED <<tree, sidecars, gate, version, understood, today, localDay>>

EditGate(g) ==
  /\ Act /\ g # gate /\ gate' = g
  /\ UNCHANGED <<tree, manifest, sidecars, version, understood, today, localDay>>

\* Another create-rigel: a newer one, or that of somebody who did not upgrade.
Install(v) ==
  /\ v # version /\ version' = v
  /\ UNCHANGED <<tree, manifest, sidecars, gate, understood, today, localDay, acts>>

\* Midnight here, or in Greenwich: the dates are a day apart at most.
NextDay ==
  /\ \/ today <= localDay /\ today < LastDay /\ today' = today + 1 /\ UNCHANGED localDay
     \/ localDay <= today /\ localDay < LastDay /\ localDay' = localDay + 1 /\ UNCHANGED today
  /\ UNCHANGED <<tree, manifest, sidecars, gate, version, understood, acts>>

\* `create-rigel update` from start to end; it does not look at the schema, and
\* records nothing when there is nothing to write.  The verifier is among what
\* it writes; that nobody edits the verifier is assumed.
Update ==
  /\ Readable
  /\ LET shipped == Releases[version]
         plan == PlanUpdate(manifest.files, ManagedOnly(tree), ManagedOnly(shipped),
                            manifest.deleted, {})
         put == plan.overwrite \cup plan.added
         next == [p \in Path |-> IF p \in put THEN shipped[p]
                                 ELSE IF p \in plan.removed THEN Absent ELSE tree[p]]
     IN /\ put \cup plan.removed \cup plan.conflict # {} \/ understood # Understands[version]
        /\ tree' = next /\ sidecars' = sidecars \cup plan.conflict
        /\ manifest' = [manifest EXCEPT !.files = RewriteManifest(@, next, put),
                                        !.deleted = @ \cup plan.skippedDeleted]
  /\ understood' = Understands[version] /\ UNCHANGED <<gate, version, today, localDay, acts>>

HealthNext ==
  \/ \E p \in Path : DropSidecar(p) \/ \E c \in MaybeContent : OwnerWrites(p, c)
  \/ \E g \in Gates : EditGate(g)
  \/ \E v \in DOMAIN Releases : Install(v)
  \/ EditManifest \/ NextDay \/ Update

HealthSpec == HealthInit /\ [][HealthNext]_healthVars

-----------------------------------------------------------------------------
HealthTypeOK ==
  /\ tree \in Tree /\ version \in DOMAIN Releases /\ sidecars \subseteq Path
  /\ manifest \in {NoManifest, Spoilt} \cup Manifest
  /\ gate \in GateSetup /\ understood \in Nat /\ acts \in 0..MaxActs
  /\ today \in 0..LastDay /\ localDay \in 0..LastDay

\* Nothing needs attention: what `doctor --strict` exits 0 on.
DoctorIsSatisfied == DoctorBad = {}

\* Doctor looks for names: c, or what leads to it, is named and not called.
OnlyNamed(c) ==
  \E s \in Part : (gate.names[s] \ gate.calls[s]) \cap ({c, "runner"} \cup Script) # {}

Consistent ==
  /\ DoctorIsSatisfied =>
       /\ Verify = 2 => understood < Understands[version]
       /\ \A c \in Harness : c \in Steps \/ Opaque \/ OnlyNamed(c)
       /\ Verify = 1 /\ IntegrityNotes = {} =>
            BadWaivers(today) \/ \E p \in Present(manifest.files) : tree[p] \in Marked
  /\ Verify = 0 => /\ ProvenanceBad # {} => understood > Understands[version]
                   /\ IntegrityBad \subseteq {"deleted"}
                   /\ \A p \in Missing : WaiverOf(p, today) # {}
  /\ Verify # GateVerifyPy =>
       \/ manifest = NoManifest
       \/ \E p \in Path : tree[p] \in Marked \cap Undecodable
       \/ \E i \in DOMAIN manifest.waivers :
            Good(manifest.waivers[i], today) # Good(manifest.waivers[i], localDay)

UpdateKeepsGreen ==
  Verify = 0 /\ Verify' # 0 /\ Update =>
    sidecars' # {} \/ Present(manifest.files)' = {} \/ manifest'.schema > understood'

(* The opinions agree, whatever owners, updates, releases and days do.     *)
(* - A repository doctor is satisfied with can be verified, unless its     *)
(*   verifier is older than this create-rigel; what the verifier rejects   *)
(*   there doctor has noted or is about waivers and conflict markers; and  *)
(*   every check it has is a step of its gate, unless doctor said that it  *)
(*   could not tell or took a name that is only mentioned for a call.      *)
(* - Doctor has nothing against the record of a repository the verifier    *)
(*   passes but waived deletions, unless it is the older of the two.       *)
(* - The ports differ only over markers in a file that is not text, over a *)
(*   waiver that ends between the dates here and in Greenwich, and over a  *)
(*   lost manifest, for which gate.sh skips the step.                      *)
(* - An update leaves a repository that passed passing, unless it left a   *)
(*   sidecar, nothing in the record, or an older verifier.                 *)
OpinionsAgree == []Consistent /\ [][UpdateKeepsGreen]_healthVars
=============================================================================
