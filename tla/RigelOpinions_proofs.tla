------------------------ MODULE RigelOpinions_proofs ------------------------
(***************************************************************************)
(* What the tools say about a repository, for any notes, designs,          *)
(* paths, contents, releases, services, terms and matrices: a green design *)
(* check is backed, machines that disagree are told, verifier and doctor   *)
(* agree, the vocabulary is held to the code, and trust in a judge is      *)
(* earned on both labels.                                                  *)
(***************************************************************************)
EXTENDS RigelDesign, RigelDoctor, RigelKnowledge, RigelJudges, TLAPS

-----------------------------------------------------------------------------
(* Design: a verdict that is still shown was given on what is still there. *)

DesignInv ==
  /\ spec \in SUBSET Declarable
  /\ LET basis == CitationBasis(HereCorpus)
     IN here # Nothing => here = [ok |-> DesignCheckOk(basis.index), stale |-> basis.stale]
  /\ LET basis == CitationBasis(Nothing)
     IN onCI # Nothing => onCI = [ok |-> DesignCheckOk(basis.index), stale |-> basis.stale]

(* Whatever a check reads changes only together with forgetting its verdict. *)
THEOREM VerdictsAreCurrent == DesignSpec => []DesignInv
<1>1. DesignInit => DesignInv
  BY DEF DesignInit, DesignInv
<1>2. DesignInv /\ [DesignNext]_designVars => DesignInv'
  <2> SUFFICES ASSUME DesignInv, [DesignNext]_designVars PROVE DesignInv'
    OBVIOUS
  <2>1. ASSUME NEW declared \in Specs, WriteSpec(declared) PROVE DesignInv'
    BY <2>1, SpecsAssumption DEF WriteSpec, Unchecked, DesignInv
  <2>2. ASSUME Unchecked, spec' = spec PROVE DesignInv'
    BY <2>2 DEF Unchecked, DesignInv
  <2>3. CASE CheckHere
    BY <2>3 DEF CheckHere, DesignInv, CitationBasis, HereCorpus, LoadIndex, Live, DesignCheckOk
  <2>4. CASE CheckOnCI
    BY <2>4 DEF CheckOnCI, DesignInv, CitationBasis, HereCorpus, LoadIndex, Live, DesignCheckOk
  <2>5. CASE UNCHANGED <<own, refs, spec, design, here, onCI>>
    BY <2>5 DEF DesignInv, CitationBasis, HereCorpus, LoadIndex, Live, DesignCheckOk
  <2> QED
    BY <2>1, <2>2, <2>3, <2>4, <2>5 DEF DesignNext, designVars, WriteDesign, ChangeNotes, SetEnv,
       EditRefs, CmdDesignIndex, StartServer
<1> QED
  BY <1>1, <1>2, PTL DEF DesignSpec

\* Where the committed index has a corpus, a check looks into that corpus.
LEMMA BasisIsThere ==
  ASSUME HereCorpus # Nothing
  PROVE  CitationBasis(HereCorpus).index = HereCorpus /\ HereCorpus = Live(refs.corpus)
  BY DEF HereCorpus, CitationBasis

LEMMA WhatIsOwed ==
  ASSUME spec \in SUBSET Declarable, spec # {}
  PROVE  /\ RequiredDecisions(spec) # {}
         /\ "read endpoint" \in spec => {"authorization", "rate-limiting"} \subseteq RequiredDecisions(spec)
         /\ "write endpoint" \in spec => Trigger \ {"data-retention"} \subseteq RequiredDecisions(spec)
         /\ "entity" \in spec => "data-retention" \in RequiredDecisions(spec)
<1>1. \A t \in Trigger : t \in RequiredDecisions(spec) <=> Fires(t, spec)
  BY DEF RequiredDecisions
<1>2. /\ Fires("authorization", spec) <=> spec \cap {"read endpoint", "write endpoint"} # {}
      /\ Fires("rate-limiting", spec) <=> spec \cap {"read endpoint", "write endpoint"} # {}
      /\ Fires("idempotency", spec) <=> "write endpoint" \in spec
      /\ Fires("failure-handling", spec) <=> "write endpoint" \in spec
      /\ Fires("data-retention", spec) <=> "entity" \in spec
  BY DEF Fires
<1>3. "read endpoint" \in spec => {"authorization", "rate-limiting"} \subseteq RequiredDecisions(spec)
  BY <1>1, <1>2 DEF Trigger
<1>4. "write endpoint" \in spec => Trigger \ {"data-retention"} \subseteq RequiredDecisions(spec)
  BY <1>1, <1>2 DEF Trigger
<1>5. "entity" \in spec => "data-retention" \in RequiredDecisions(spec)
  BY <1>1, <1>2 DEF Trigger
<1>6. RequiredDecisions(spec) # {}
  <2>1. "read endpoint" \in spec \/ "write endpoint" \in spec \/ "entity" \in spec
    BY DEF Declarable
  <2>2. "authorization" \in Trigger \ {"data-retention"}
    BY DEF Trigger
  <2>3. "read endpoint" \in spec => "authorization" \in RequiredDecisions(spec)
    BY <1>3
  <2>4. "write endpoint" \in spec => "authorization" \in RequiredDecisions(spec)
    BY <1>4, <2>2
  <2> QED
    BY <1>5, <2>1, <2>3, <2>4
<1> QED
  BY <1>3, <1>4, <1>5, <1>6

\* A citation that resolves leads to a note that is in the index.
LEMMA ResolvedIsThere ==
  ASSUME NEW index, NEW cited, ResolveRef(index, cited)
  PROVE  \E n \in DOMAIN index :
           /\ n = cited.note \/ (<<n, cited.note>> \in EndsIn /\ cited.note \notin DOMAIN index)
           /\ cited.anchor # NoAnchor => cited.anchor \in index[n]
  BY DEF ResolveRef, NoteMeant

\* What is shown now of the corpus that is checked against, resolves.
LEMMA ShownResolves ==
  ASSUME NEW r \in Citation, ReadNote(r), HereCorpus # Nothing, refs.corpus = server.corpus
  PROVE  ResolveRef(CitationBasis(HereCorpus).index, r)
<1>1. CitationBasis(HereCorpus).index = Live(server.corpus)
  BY BasisIsThere
<1>2. r.note \in DOMAIN Live(server.corpus) /\ r.anchor \in Live(server.corpus)[r.note]
  BY DEF ReadNote
<1> QED
  BY <1>1, <1>2 DEF ResolveRef, NoteMeant

(* A check that passes next to its notes cites what is there and decides   *)
(* what is owed; and what the server shows of that corpus can be cited.    *)
THEOREM GreenBacked == DesignSpec => []GreenIsBacked
<1>1. DesignInv => GreenIsBacked
  <2> SUFFICES ASSUME DesignInv PROVE GreenIsBacked
    OBVIOUS
  <2>1. ASSUME here # Nothing, here.ok, spec # {}, HereCorpus # Nothing
        PROVE  /\ design # Nothing
               /\ \A cited \in design.cites : \E n \in DOMAIN HereCorpus :
                    /\ \/ n = cited.note
                       \/ <<n, cited.note>> \in EndsIn /\ cited.note \notin DOMAIN HereCorpus
                    /\ cited.anchor # NoAnchor => cited.anchor \in HereCorpus[n]
               /\ RequiredDecisions(spec) \subseteq design.covers
    <3>1. DesignCheckOk(HereCorpus)
      BY <2>1, BasisIsThere DEF DesignInv
    <3>2. design # Nothing /\ CheckDesign(design, RequiredDecisions(spec), HereCorpus)
      BY <2>1, <3>1, WhatIsOwed DEF DesignCheckOk, DesignInv
    <3>3. \A cited \in design.cites : ResolveRef(HereCorpus, cited)
      BY <2>1, <3>2 DEF CheckDesign
    <3> QED
      BY <3>2, <3>3, ResolvedIsThere DEF CheckDesign
  <2>2. ASSUME here # Nothing, here.ok, spec # {}, HereCorpus # Nothing
        PROVE  /\ "read endpoint" \in spec => {"authorization", "rate-limiting"} \subseteq design.covers
               /\ "write endpoint" \in spec => Trigger \ {"data-retention"} \subseteq design.covers
               /\ "entity" \in spec => "data-retention" \in design.covers
    BY <2>1, <2>2, WhatIsOwed DEF DesignInv
  <2> QED
    BY <2>1, <2>2, ShownResolves DEF GreenIsBacked
<1> QED
  BY <1>1, VerdictsAreCurrent, PTL

(* Where the developer's check and CI's disagree, the developer was told   *)
(* that the committed index is stale.                                      *)
THEOREM Announced == DesignSpec => []DivergenceIsAnnounced
<1>1. DesignInv => DivergenceIsAnnounced
  <2> SUFFICES ASSUME DesignInv, here # Nothing, onCI # Nothing, here.ok # onCI.ok, ~here.stale
               PROVE  FALSE
    BY DEF DivergenceIsAnnounced, DesignInv, CitationBasis
  <2>1. CitationBasis(Nothing).index = LoadIndex
    BY DEF CitationBasis
  <2>2. CitationBasis(HereCorpus).index = LoadIndex
    BY DEF CitationBasis, DesignInv
  <2> QED
    BY <2>1, <2>2 DEF DesignInv
<1> QED
  BY <1>1, VerdictsAreCurrent, PTL

-----------------------------------------------------------------------------
(* Verifier and doctor. *)

\* What an update records is what lies there.
LEMMA UpdateRecords == Update => (Missing = {})' /\ (Edited = {})'
<1> SUFFICES ASSUME Update PROVE (Missing = {})' /\ (Edited = {})'
  OBVIOUS
<1>1. PICK put : manifest'.files = RewriteManifest(manifest.files, tree', put)
  BY DEF Update, Readable
<1>2. \A p \in Path : manifest'.files[p] # Absent => manifest'.files[p] = tree'[p]
  BY <1>1 DEF RewriteManifest, BuildManifest, ManagedOnly
<1> QED
  BY <1>2 DEF Missing, Edited, Present

\* What an update records it has written, or was there and recorded before.
LEMMA UpdateRecordsOwn ==
  ASSUME Update, NEW p \in Present(manifest.files)'
  PROVE  \/ tree'[p] = Releases[version][p]
         \/ p \in Present(manifest.files) /\ tree'[p] = tree[p]
<1> DEFINE plan == PlanUpdate(manifest.files, ManagedOnly(tree), ManagedOnly(Releases[version]),
                              manifest.deleted, {})
           put == plan.overwrite \cup plan.added
<1>1. /\ tree' = [q \in Path |-> IF q \in put THEN Releases[version][q]
                                 ELSE IF q \in plan.removed THEN Absent ELSE tree[q]]
      /\ manifest'.files = RewriteManifest(manifest.files, tree', put)
  BY DEF Update, Readable
<1> HIDE DEF plan, put
<1>2. p \in Path /\ p \in Present(manifest.files) \cup put /\ tree'[p] # Absent
  BY <1>1 DEF RewriteManifest, BuildManifest, ManagedOnly, Present
<1> QED
  BY <1>1, <1>2

\* What create-rigel ships is a tree, and shows no conflict.
LEMMA Shipped ==
  ASSUME NEW v \in DOMAIN Releases
  PROVE  /\ Releases[v] \in Tree /\ Understands[v] \in Nat
         /\ \A p \in Path : Releases[v][p] \notin Marked
  BY ReleasesAssumption

\* A record taken of a tree is a tree.
LEMMA RecordIsTree ==
  ASSUME NEW recorded \in Tree, NEW root \in Tree, NEW put
  PROVE  RewriteManifest(recorded, root, put) \in Tree /\ ManagedOnly(root) \in Tree
  BY DEF RewriteManifest, BuildManifest, ManagedOnly, Tree, MaybeContent

\* A manifest with another record is a manifest.
LEMMA Recording ==
  ASSUME NEW m \in Manifest, NEW f \in Tree, NEW d \in SUBSET Path
  PROVE  /\ [m EXCEPT !.files = f, !.deleted = d] \in Manifest
         /\ [m EXCEPT !.files = f, !.deleted = d].waivers = m.waivers
  BY DEF Manifest

\* So is one with other waivers, none of which need fit the record.
LEMMA Rewritten ==
  ASSUME NEW m \in Manifest, NEW n \in Nat, NEW w \in Seq(Waivers), NEW f \in Tree
  PROVE  /\ [m EXCEPT !.files = f, !.waivers = w] \in Manifest
         /\ [m EXCEPT !.schema = n, !.waivers = w] \in Manifest
         /\ [m EXCEPT !.waivers = w] \in Manifest
  BY DEF Manifest

\* An update leaves a tree and a manifest, with the waivers as they were.
LEMMA UpdateRewrites ==
  ASSUME HealthTypeOK, Update
  PROVE  /\ manifest \in Manifest /\ tree' \in Tree /\ sidecars' \subseteq Path
         /\ manifest' \in Manifest /\ manifest'.waivers = manifest.waivers
<1> DEFINE shipped == Releases[version]
           plan == PlanUpdate(manifest.files, ManagedOnly(tree), ManagedOnly(shipped),
                              manifest.deleted, {})
           put == plan.overwrite \cup plan.added
<1>1. manifest \in Manifest /\ shipped \in Tree
  BY Shipped DEF Update, Readable, HealthTypeOK
<1>2. plan.conflict \subseteq Path /\ plan.skippedDeleted \subseteq Path
  BY DEF PlanUpdate, Candidates, Untouched, Present
<1>3. /\ tree' = [p \in Path |-> IF p \in put THEN shipped[p]
                                ELSE IF p \in plan.removed THEN Absent ELSE tree[p]]
      /\ sidecars' = sidecars \cup plan.conflict
      /\ manifest' = [manifest EXCEPT !.files = RewriteManifest(@, tree', put),
                                      !.deleted = @ \cup plan.skippedDeleted]
  BY DEF Update
<1> HIDE DEF plan, put
<1>4. tree' \in Tree
  BY <1>1, <1>3 DEF Tree, MaybeContent, HealthTypeOK
<1>5. RewriteManifest(manifest.files, tree', put) \in Tree
  BY <1>1, <1>4, RecordIsTree DEF Manifest
<1>6. manifest.deleted \cup plan.skippedDeleted \in SUBSET Path
  BY <1>1, <1>2 DEF Manifest
<1>7. manifest' \in Manifest /\ manifest'.waivers = manifest.waivers
  BY <1>1, <1>3, <1>5, <1>6, Recording
<1> QED
  BY <1>1, <1>2, <1>3, <1>4, <1>7 DEF HealthTypeOK

(* The tree, the record, the gate, the releases and the dates keep their   *)
(* shape.                                                                  *)
THEOREM HealthType == HealthSpec => []HealthTypeOK
<1>1. HealthInit => HealthTypeOK
  <2> SUFFICES ASSUME HealthInit PROVE HealthTypeOK
    OBVIOUS
  <2>1. 1 \in DOMAIN Releases
    BY ReleasesAssumption
  <2>2. Releases[1] \in Tree /\ understood \in Nat /\ ManagedOnly(Releases[1]) \in Tree
    BY <2>1, Shipped, RecordIsTree DEF HealthInit
  <2>3. manifest \in Manifest
    BY <2>2 DEF HealthInit, Manifest
  <2>4. gate \in GateSetup
    <3>1. PICK t \in Text : gate = [names |-> t, calls |-> t, ci |-> "runs the gate"]
      BY DEF HealthInit, Born, Text, Only, Part, Script
    <3> QED
      BY <3>1 DEF GateSetup
  <2> QED
    BY <2>1, <2>2, <2>3, <2>4, WaiversAssumption DEF HealthInit, HealthTypeOK
<1>2. HealthTypeOK /\ [HealthNext]_healthVars => HealthTypeOK'
  <2> SUFFICES ASSUME HealthTypeOK, [HealthNext]_healthVars PROVE HealthTypeOK'
    OBVIOUS
  <2> USE DEF HealthTypeOK
  <2>1. ASSUME NEW p \in Path, NEW c \in MaybeContent, OwnerWrites(p, c) PROVE HealthTypeOK'
    BY <2>1, WaiversAssumption DEF OwnerWrites, Act, Tree
  <2>2. ASSUME NEW p \in Path, DropSidecar(p) PROVE HealthTypeOK'
    BY <2>2 DEF DropSidecar
  <2>3. CASE EditManifest
    <3>1. manifest' \in {NoManifest, Spoilt} \cup Manifest
      <4>1. CASE manifest' \in {NoManifest, Spoilt}
        BY <4>1
      <4>2. CASE Readable
        <5>1. manifest \in Manifest
          BY <4>2 DEF Readable
        <5>2. EmptyTree \in Tree /\ << >> \in Seq(Waivers)
          BY DEF EmptyTree, Tree, MaybeContent
        <5>3. CASE manifest' = [manifest EXCEPT !.files = EmptyTree, !.waivers = << >>]
          BY <5>1, <5>2, <5>3, Rewritten
        <5>4. ASSUME NEW v \in DOMAIN Releases,
                     manifest' = [manifest EXCEPT !.schema = Understands[v], !.waivers = << >>]
              PROVE  manifest' \in Manifest
          <6>1. Understands[v] \in Nat
            BY Shipped
          <6> QED
            BY <5>1, <5>2, <5>4, <6>1, Rewritten
        <5>5. ASSUME NEW w \in Waivers, manifest' = [manifest EXCEPT !.waivers = Append(@, w)]
              PROVE  manifest' \in Manifest
          <6>1. manifest.waivers \in Seq(Waivers) /\ manifest.files \in Tree
            BY <5>1 DEF Manifest
          <6>2. Append(manifest.waivers, w) \in Seq(Waivers)
            BY <6>1
          <6> QED
            BY <5>1, <5>2, <5>5, <6>2, Rewritten
        <5>6. CASE manifest' = [manifest EXCEPT !.waivers = << >>]
          BY <5>1, <5>2, <5>6, Rewritten
        <5> QED
          BY <2>3, <4>1, <4>2, <5>3, <5>4, <5>5, <5>6, Zenon DEF EditManifest
      <4> QED
        BY <2>3, <4>1, <4>2 DEF EditManifest
    <3>2. /\ acts < MaxActs /\ acts' = acts + 1
          /\ UNCHANGED <<tree, sidecars, gate, version, understood, today, localDay>>
      BY <2>3, Zenon DEF EditManifest, Act
    <3> QED
      BY <3>1, <3>2, WaiversAssumption
  <2>4. ASSUME NEW g \in Gates, EditGate(g) PROVE HealthTypeOK'
    BY <2>4, GatesAssumption, WaiversAssumption DEF EditGate, Act
  <2>5. ASSUME NEW v \in DOMAIN Releases, Install(v) PROVE HealthTypeOK'
    BY <2>5 DEF Install
  <2>6. CASE NextDay
    BY <2>6, WaiversAssumption DEF NextDay
  <2>7. CASE Update
    <3>1. Understands[version] \in Nat
      BY Shipped
    <3> QED
      BY <2>7, <3>1, UpdateRewrites DEF Update
  <2>8. CASE UNCHANGED healthVars
    BY <2>8 DEF healthVars
  <2> QED
    BY <2>1, <2>2, <2>3, <2>4, <2>5, <2>6, <2>7, <2>8 DEF HealthNext
<1> QED
  BY <1>1, <1>2, PTL DEF HealthSpec

\* What doctor takes for invoked is a step of the gate, or only named in it.
LEMMA InvokedIsStep ==
  ASSUME NEW c, Invoked(c), ~OnlyNamed(c)
  PROVE  c \in Steps
<1>1. \A s \in Part : \A x \in {c, "runner"} \cup Script :
        x \in gate.names[s] => x \in gate.calls[s]
  BY DEF OnlyNamed
<1>2. CASE InShell
  BY <1>1, <1>2 DEF Invoked, Steps, Part
<1>3. CASE ~InShell
  <2>1. PICK s \in ReachableFromGate : c \in gate.names[s]
    BY <1>3 DEF Invoked
  <2>2. s \in Script /\ c \in gate.calls[s]
    BY <1>1, <2>1 DEF ReachableFromGate, Part
  <2>3. CASE s = "gate"
    BY <1>3, <2>2, <2>3 DEF Steps
  <2>4. CASE s = "gate:chain"
    <3>1. "runner" \in gate.names["gate"] \/ "gate:chain" \in gate.names["gate"]
      BY <2>1, <2>4 DEF ReachableFromGate
    <3>2. "runner" \in gate.calls["gate"] \/ "gate:chain" \in gate.calls["gate"]
      BY <1>1, <3>1 DEF Part, Script
    <3> QED
      BY <1>3, <2>2, <2>4, <3>2 DEF Steps
  <2> QED
    BY <2>2, <2>3, <2>4 DEF Script
<1> QED
  BY <1>2, <1>3

\* Two verdicts of the verifier differ over markers or over a waiver's last day.
LEMMA PortsDiffer ==
  ASSUME Readable, Verify # VerifyPy,
         \A i \in DOMAIN manifest.waivers :
           Good(manifest.waivers[i], today) <=> Good(manifest.waivers[i], localDay)
  PROVE  \E p \in Path : tree[p] \in Marked \cap Undecodable
<1>1. BadWaivers(today) <=> BadWaivers(localDay)
  BY DEF BadWaivers
<1>2. \A p \in Path : WaiverOf(p, today) = WaiverOf(p, localDay)
  BY DEF WaiverOf
<1>3. Unwaived(today) = Unwaived(localDay)
  BY <1>2 DEF Unwaived, Missing, Edited, Present
<1> QED
  BY <1>1, <1>3, ContentsAssumption DEF Verify, VerifyPy, VerifyExit, Present

(* An update leaves a repository that passed passing, but for a sidecar,   *)
(* an empty record, or a verifier older than the record.                   *)
LEMMA UpdatesKeepGreen ==
  ASSUME HealthTypeOK
  PROVE  UpdateKeepsGreen
<1> SUFFICES ASSUME Update, Verify = 0, sidecars' = {}, Present(manifest.files)' # {},
                    ~(manifest'.schema > understood')
             PROVE  Verify' = 0
  BY DEF UpdateKeepsGreen
<1>1. /\ Readable /\ manifest' \in Manifest /\ manifest'.waivers = manifest.waivers
      /\ today' = today
  BY UpdateRewrites DEF Update
<1>2. Readable'
  BY <1>1, ManifestAssumption DEF Readable
<1>3. Unwaived(today)' = {}
  BY UpdateRecords DEF Unwaived
<1>4. ~BadWaivers(today)'
  <2>1. ~BadWaivers(today)
    BY <1>1 DEF Verify, VerifyExit
  <2> QED
    BY <1>1, <2>1 DEF BadWaivers, Good
<1>5. ASSUME NEW p \in Present(manifest.files)' PROVE tree'[p] \notin Marked
  <2>1. CASE tree'[p] = Releases[version][p]
    BY <2>1, Shipped DEF HealthTypeOK, Present
  <2>2. CASE p \in Present(manifest.files) /\ tree'[p] = tree[p]
    BY <1>1, <2>2, ContentsAssumption DEF Verify, VerifyExit
  <2> QED
    BY <2>1, <2>2, UpdateRecordsOwn
<1> QED
  BY <1>2, <1>3, <1>4, <1>5 DEF Verify, VerifyExit

(* Doctor and the verifier agree, whatever owners, updates, releases and   *)
(* days do: neither is satisfied with what the other cannot read or would  *)
(* reject, but for what only one of them looks at, and an update makes     *)
(* nobody change their mind for the worse without a sign.                  *)
THEOREM Agreement == HealthSpec => OpinionsAgree
<1>1. HealthTypeOK => Consistent
  <2> SUFFICES ASSUME HealthTypeOK PROVE Consistent
    OBVIOUS
  <2>1. ASSUME DoctorIsSatisfied
        PROVE  /\ Verify = 2 => understood < Understands[version]
               /\ \A c \in Harness : c \in Steps \/ Opaque \/ OnlyNamed(c)
               /\ Verify = 1 /\ IntegrityNotes = {} =>
                    BadWaivers(today) \/ \E p \in Present(manifest.files) : tree[p] \in Marked
    <3>1. ProvenanceBad = {} /\ IntegrityBad = {} /\ WiringBad = {}
      BY <2>1 DEF DoctorIsSatisfied, DoctorBad
    <3>2. /\ Readable /\ ~(manifest.schema > Understands[version])
          /\ Present(manifest.files) # {}
      BY <3>1 DEF ProvenanceBad
    <3>3. Missing = {} /\ sidecars = {}
      BY <3>1, <3>2 DEF IntegrityBad
    <3>4. \A c \in Harness : Invoked(c) \/ Opaque
      BY <3>1 DEF WiringBad
    <3>5. IntegrityNotes = {} => Unwaived(today) = {}
      BY <3>2, <3>3 DEF IntegrityNotes, Unwaived
    <3>6. /\ manifest.schema \in Nat /\ understood \in Nat
          /\ Understands[version] \in Nat
      BY <3>2, Shipped DEF HealthTypeOK, Readable, Manifest
    <3> QED
      BY <3>2, <3>3, <3>4, <3>5, <3>6, InvokedIsStep DEF Verify, VerifyExit
  <2>2. ASSUME Verify = 0
        PROVE  /\ ProvenanceBad # {} => understood > Understands[version]
               /\ IntegrityBad \subseteq {"deleted"}
               /\ \A p \in Missing : WaiverOf(p, today) # {}
    <3>1. /\ Readable /\ ~(manifest.schema > understood) /\ Present(manifest.files) # {}
          /\ Unwaived(today) = {} /\ sidecars = {}
      BY <2>2 DEF Verify, VerifyExit
    <3>2. manifest.schema \in Nat /\ understood \in Nat /\ Understands[version] \in Nat
      BY <3>1, Shipped DEF HealthTypeOK, Readable, Manifest
    <3>3. ProvenanceBad # {} => manifest.schema > Understands[version]
      BY <3>1 DEF ProvenanceBad
    <3>4. IntegrityBad \subseteq {"deleted"}
      BY <3>1 DEF IntegrityBad
    <3>5. \A p \in Missing : WaiverOf(p, today) # {}
      BY <3>1 DEF Unwaived
    <3> QED
      BY <3>1, <3>2, <3>3, <3>4, <3>5
  <2>3. ASSUME Verify # GateVerifyPy, manifest # NoManifest
        PROVE  \/ \E p \in Path : tree[p] \in Marked \cap Undecodable
               \/ \E i \in DOMAIN manifest.waivers :
                    Good(manifest.waivers[i], today) # Good(manifest.waivers[i], localDay)
    <3>1. Readable /\ Verify # VerifyPy
      BY <2>3 DEF GateVerifyPy, Verify, VerifyPy, VerifyExit
    <3> QED
      BY <3>1, PortsDiffer
  <2> QED
    BY <2>1, <2>2, <2>3 DEF Consistent
<1>2. HealthTypeOK => [UpdateKeepsGreen]_healthVars
  BY UpdatesKeepGreen
<1> QED
  BY <1>1, <1>2, HealthType, PTL DEF OpinionsAgree

-----------------------------------------------------------------------------
(* Vocabulary. *)

(* Sources, layer and glossaries keep their shape, and no entry is left    *)
(* without the directory it lies in.                                       *)
THEOREM KnowledgeType == KnowledgeSpec => []KnowledgeTypeOK
<1>1. KnowledgeInit => KnowledgeTypeOK
  BY SlipsAssumption DEF KnowledgeInit, KnowledgeTypeOK, Empty, Documented
<1>2. KnowledgeTypeOK /\ [KnowledgeNext]_knowledgeVars => KnowledgeTypeOK'
  <2> SUFFICES ASSUME KnowledgeTypeOK, [KnowledgeNext]_knowledgeVars PROVE KnowledgeTypeOK'
    OBVIOUS
  <2> USE DEF KnowledgeTypeOK, Documented
  <2>1. ASSUME NEW s \in Repo, NEW t \in Term, NEW e \in GlossaryEntry \cup {Unwritten},
               entries' = [entries EXCEPT ![s][t] = e],
               e # Unwritten => "knowledge" \in carries'[s],
               carries' = carries \/ carries' = [carries EXCEPT ![s] = @ \cup {"knowledge"}],
               UNCHANGED <<sources, layer, delivered>>, slips' \in 0..MaxSlips
        PROVE  KnowledgeTypeOK'
    <3>1. carries' \in [Repo -> SUBSET {"scaffold", "knowledge", "library"}]
      <4>1. carries[s] \cup {"knowledge"} \in SUBSET {"scaffold", "knowledge", "library"}
        OBVIOUS
      <4> QED
        BY <2>1, <4>1
    <3>2. entries' \in [Repo -> [Term -> GlossaryEntry \cup {Unwritten}]]
      BY <2>1
    <3>3. ASSUME NEW r \in Repo, Documented(r)' # {} PROVE "knowledge" \in carries'[r]
      <4>1. CASE r = s /\ e # Unwritten
        BY <2>1, <4>1
      <4>2. CASE ~(r = s /\ e # Unwritten)
        <5>1. PICK u \in Term : entries'[r][u] # Unwritten
          BY <3>3
        <5>2. entries[r][u] # Unwritten
          BY <2>1, <4>2, <5>1
        <5>3. "knowledge" \in carries[r]
          BY <5>2
        <5> QED
          BY <2>1, <5>3
      <4> QED
        BY <4>1, <4>2
    <3> QED
      BY <2>1, <3>1, <3>2, <3>3
  <2>2. ASSUME NEW s \in Repo, NEW t \in Term, NEW c \in Site \cup {Unwritten}, ChangeCode(s, t, c)
        PROVE  KnowledgeTypeOK'
    BY <2>2, SlipsAssumption DEF ChangeCode, Slip
  <2>3. ASSUME NEW s \in Repo, NEW t \in Term, Backfill(s, t) PROVE KnowledgeTypeOK'
    <3>1. PICK e \in Proposed(s, t) : entries' = [entries EXCEPT ![s][t] = e]
      BY <2>3 DEF Backfill
    <3>2. sources[s][t] \in Site
      BY <2>3 DEF Backfill, Proposals
    <3>3. e \in GlossaryEntry
      BY <3>1, <3>2 DEF Proposed, GlossaryEntry
    <3> QED
      BY <2>1, <2>3, <3>1, <3>3 DEF Backfill
  <2>4. ASSUME NEW s \in Repo, NEW t \in Term, CopyEntry(s, t) PROVE KnowledgeTypeOK'
    BY <2>1, <2>4 DEF CopyEntry
  <2>5. ASSUME NEW s \in Repo, NEW gone \in SUBSET Term, DeleteEntries(s, gone)
        PROVE  KnowledgeTypeOK'
    <3>1. ASSUME NEW r \in Repo, Documented(r)' # {} PROVE "knowledge" \in carries'[r]
      <4>1. PICK u \in Term : entries'[r][u] # Unwritten
        BY <3>1
      <4>2. entries[r][u] # Unwritten
        BY <2>5, <4>1 DEF DeleteEntries
      <4> QED
        BY <2>5, <4>2 DEF DeleteEntries
    <3>2. entries' \in [Repo -> [Term -> GlossaryEntry \cup {Unwritten}]]
      BY <2>5 DEF DeleteEntries
    <3> QED
      BY <2>5, <3>1, <3>2 DEF DeleteEntries
  <2>6. ASSUME NEW s \in Repo, NEW t \in Term, Publish(s, t) PROVE KnowledgeTypeOK'
    <3>1. entries[s] \in [Term -> GlossaryEntry \cup {Unwritten}]
      OBVIOUS
    <3>2. entries[s][t] \in GlossaryEntry \cup {Unwritten}
      BY <3>1
    <3> QED
      BY <2>6, <3>2 DEF Publish
  <2>7. ASSUME NEW s \in Repo, NEW t \in Term, NEW file \in {"latin1", "unreadable"},
               Spoil(s, t, file)
        PROVE  KnowledgeTypeOK'
    <3> DEFINE e == [entries[s][t] EXCEPT !.file = file]
    <3>1. entries[s][t] \in GlossaryEntry
      BY <2>7 DEF Spoil
    <3>2. e \in GlossaryEntry
      BY <3>1 DEF GlossaryEntry
    <3>3. entries' = [entries EXCEPT ![s][t] = e]
      BY <2>7 DEF Spoil
    <3>4. "knowledge" \in carries[s]
      BY <2>7 DEF Spoil
    <3>5. slips' \in 0..MaxSlips
      BY <2>7, SlipsAssumption DEF Spoil, Slip
    <3> QED
      BY <2>1, <2>7, <3>2, <3>3, <3>4, <3>5 DEF Spoil
  <2>8. ASSUME NEW s \in Repo, NEW what \in {"knowledge", "library"}, Remove(s, what)
        PROVE  KnowledgeTypeOK'
    <3>1. slips' \in 0..MaxSlips
      BY <2>8, SlipsAssumption DEF Remove, Slip
    <3>2. carries' \in [Repo -> SUBSET {"scaffold", "knowledge", "library"}]
      BY <2>8 DEF Remove
    <3>3. entries' \in [Repo -> [Term -> GlossaryEntry \cup {Unwritten}]]
      BY <2>8 DEF Remove, Empty
    <3>4. ASSUME NEW r \in Repo, Documented(r)' # {} PROVE "knowledge" \in carries'[r]
      BY <2>8, <3>4 DEF Remove, Empty
    <3> QED
      BY <2>8, <3>1, <3>2, <3>3, <3>4 DEF Remove
  <2>9. ASSUME NEW s \in Repo, NEW w \in {"shipped", "excused"}, Work(s, w) PROVE KnowledgeTypeOK'
    <3>1. slips' \in 0..MaxSlips
      BY <2>9, SlipsAssumption DEF Work, Slip
    <3> QED
      BY <2>9, <3>1 DEF Work
  <2>10. ASSUME NEW s \in Repo, ScaffoldService(s) PROVE KnowledgeTypeOK'
    <3>1. ASSUME NEW r \in Repo, Documented(r)' # {} PROVE "knowledge" \in carries'[r]
      BY <2>10, <3>1 DEF ScaffoldService
    <3> QED
      BY <2>10, <3>1 DEF ScaffoldService
  <2>11. CASE UNCHANGED knowledgeVars
    BY <2>11 DEF knowledgeVars
  <2> QED
    BY <2>2, <2>3, <2>4, <2>5, <2>6, <2>7, <2>8, <2>9, <2>10, <2>11 DEF KnowledgeNext
<1> QED
  BY <1>1, <1>2, PTL DEF KnowledgeSpec

(* Nothing is shipped before the service is scaffolded.                    *)
LEMMA ScaffoldedFirst ==
  KnowledgeSpec => [](\A s \in Repo \ Alive : delivered[s] = "none")
<1> DEFINE First == \A s \in Repo \ Alive : delivered[s] = "none"
<1>1. KnowledgeInit => First
  BY DEF KnowledgeInit
<1>2. KnowledgeTypeOK /\ First /\ [KnowledgeNext]_knowledgeVars => First'
  <2> SUFFICES ASSUME KnowledgeTypeOK, First, [KnowledgeNext]_knowledgeVars,
                      NEW r \in Repo, "scaffold" \notin carries'[r]
               PROVE  delivered'[r] = "none"
    BY DEF Alive
  <2>1. carries \in [Repo -> SUBSET {"scaffold", "knowledge", "library"}]
          /\ delivered \in [Repo -> {"none", "shipped", "excused"}]
    BY DEF KnowledgeTypeOK
  <2>2. "scaffold" \notin carries[r] => delivered[r] = "none"
    BY DEF Alive
  <2>3. ASSUME NEW s \in Repo, NEW t \in Term,
               \/ \E c \in Site \cup {Unwritten} : ChangeCode(s, t, c)
               \/ \E file \in {"latin1", "unreadable"} : Spoil(s, t, file)
               \/ Backfill(s, t) \/ Publish(s, t) \/ CopyEntry(s, t)
        PROVE  delivered'[r] = "none"
    <3>1. /\ delivered' = delivered
          /\ carries' = carries \/ carries' = [carries EXCEPT ![s] = @ \cup {"knowledge"}]
      BY <2>3 DEF ChangeCode, Spoil, Backfill, Publish, CopyEntry
    <3> QED
      BY <2>1, <2>2, <3>1
  <2>4. ASSUME NEW s \in Repo, NEW what \in {"knowledge", "library"}, Remove(s, what)
        PROVE  delivered'[r] = "none"
    BY <2>1, <2>2, <2>4 DEF Remove
  <2>5. ASSUME NEW s \in Repo, NEW w \in {"shipped", "excused"}, Work(s, w)
        PROVE  delivered'[r] = "none"
    BY <2>1, <2>2, <2>5 DEF Work, Alive
  <2>6. ASSUME NEW s \in Repo, ScaffoldService(s) PROVE delivered'[r] = "none"
    BY <2>1, <2>2, <2>6 DEF ScaffoldService
  <2>7. ASSUME NEW s \in Repo, NEW gone \in SUBSET Term, DeleteEntries(s, gone)
        PROVE  delivered'[r] = "none"
    BY <2>2, <2>7 DEF DeleteEntries
  <2>8. CASE UNCHANGED knowledgeVars
    BY <2>2, <2>8 DEF knowledgeVars
  <2> QED
    BY <2>3, <2>4, <2>5, <2>6, <2>7, <2>8 DEF KnowledgeNext
<1> QED
  BY <1>1, <1>2, KnowledgeType, PTL DEF KnowledgeSpec

(* A glossary that throws no error is read whole by the Node port, and the *)
(* Python port reads it alike where all of it is text.                     *)
LEMMA PortsRead ==
  ASSUME KnowledgeTypeOK, NEW s \in Repo
  PROVE  /\ ~Throws(s) => Read(s, Mjs) = Documented(s)
         /\ (\A t \in Documented(s) : entries[s][t].file = "text") => Read(s, Py) = Documented(s)
<1>1. \A t \in Documented(s) : entries[s][t] \in GlossaryEntry
  BY DEF KnowledgeTypeOK, Documented
<1>2. \A t \in Documented(s) : entries[s][t].file \in {"text", "latin1", "unreadable"}
  BY <1>1 DEF GlossaryEntry
<1> QED
  BY <1>2 DEF Read, Throws, Mjs, Py

(* The step that passes holds every term the checkout answers for.         *)
LEMMA PassingStep ==
  ASSUME KnowledgeTypeOK, NEW s \in Repo, KnowledgeStep(s)
  PROVE  /\ \A t \in Term : AnswersFor(s, t) => ResolveAnchor(s, t, entries[s][t].anchor, Mjs)
         /\ delivered[s] = "shipped" => Documented(s) # {}
<1>1. Read(s, Mjs) = Documented(s) /\ Passes(s, Checkout[s], Mjs)
  BY PortsRead DEF KnowledgeStep
<1>2. ASSUME NEW t \in Term, AnswersFor(s, t)
      PROVE  ResolveAnchor(s, t, entries[s][t].anchor, Mjs)
  <2>1. t \in HeldTo(s, Checkout[s], Mjs)
    BY <1>1, <1>2 DEF HeldTo, AnswersFor
  <2> QED
    BY <1>1, <2>1 DEF Passes, Problems
<1>3. delivered[s] = "shipped" => Documented(s) # {}
  BY <1>1 DEF Passes, EmptyAfterWork, HeldTo
<1> QED
  BY <1>2, <1>3

(* Two calls that hold the same terms to the same code, and read the same  *)
(* glossary, give the same verdict.                                        *)
LEMMA SamePasses ==
  ASSUME NEW s, NEW one, NEW other, NEW r1, NEW r2,
         Read(s, r1) = Read(s, r2), HeldTo(s, one, r1) = HeldTo(s, other, r2),
         \A t \in Read(s, r1) : ResolveAnchor(s, t, entries[s][t].anchor, r1)
                                  <=> ResolveAnchor(s, t, entries[s][t].anchor, r2)
  PROVE  Passes(s, one, r1) <=> Passes(s, other, r2)
<1>1. HeldTo(s, one, r1) \subseteq Read(s, r1)
  BY DEF HeldTo
<1>2. Problems(s, one, r1) = Problems(s, other, r2)
  BY <1>1 DEF Problems
<1>3. EmptyAfterWork(s, one, r1) <=> EmptyAfterWork(s, other, r2)
  BY DEF EmptyAfterWork
<1> QED
  BY <1>2, <1>3 DEF Passes

(* The opinions of the ports and of doctor about one service.              *)
LEMMA OpinionsHeld == KnowledgeTypeOK => Held
<1> SUFFICES ASSUME KnowledgeTypeOK, NEW s \in Alive PROVE
       /\ KnowledgeStep(s) =>
            /\ \A t \in Term : AnswersFor(s, t) => ResolveAnchor(s, t, entries[s][t].anchor, Mjs)
            /\ delivered[s] = "shipped" => Documented(s) # {}
       /\ KnowledgeStep(s) # KnowledgeStepPy(s) =>
            \E t \in Documented(s) :
              \/ entries[s][t].file # "text"
              \/ entries[s][t].anchor = "symbol" /\ sources[s][t] = "latin1"
       /\ KnowledgeStep(s) # DoctorKnowledge(s) =>
            \/ "knowledge" \notin carries[s] \/ Throws(s)
            \/ \E t \in Documented(s) : ~AnswersFor(s, t)
  BY DEF Held
<1>1. s \in Repo
  BY DEF Alive
<1>2. ASSUME \A t \in Documented(s) :
               entries[s][t].file = "text"
                 /\ ~(entries[s][t].anchor = "symbol" /\ sources[s][t] = "latin1")
      PROVE  KnowledgeStep(s) <=> KnowledgeStepPy(s)
  <2>1. ~Throws(s)
    BY <1>2 DEF Throws
  <2>2. Read(s, Mjs) = Documented(s) /\ Read(s, Py) = Documented(s)
    BY <1>1, <1>2, <2>1, PortsRead
  <2>3. HeldTo(s, Checkout[s], Mjs) = HeldTo(s, Checkout[s], Py)
    BY <2>2 DEF HeldTo
  <2>4. \A t \in Documented(s) : ResolveAnchor(s, t, entries[s][t].anchor, Mjs)
                                   <=> ResolveAnchor(s, t, entries[s][t].anchor, Py)
    BY <1>2 DEF ResolveAnchor, Mjs, Py
  <2>5. Passes(s, Checkout[s], Mjs) <=> Passes(s, Checkout[s], Py)
    BY <2>2, <2>3, <2>4, SamePasses
  <2> QED
    BY <2>1, <2>5 DEF KnowledgeStep, KnowledgeStepPy
<1>3. ASSUME "knowledge" \in carries[s], ~Throws(s), \A t \in Documented(s) : AnswersFor(s, t)
      PROVE  KnowledgeStep(s) <=> DoctorKnowledge(s)
  <2>1. Read(s, Mjs) = Documented(s)
    BY <1>1, <1>3, PortsRead
  <2>2. HeldTo(s, Checkout[s], Mjs) = HeldTo(s, Nobody, Mjs)
    BY <1>3, <2>1 DEF HeldTo, AnswersFor
  <2>3. Passes(s, Checkout[s], Mjs) <=> Passes(s, Nobody, Mjs)
    BY <2>2, SamePasses
  <2> QED
    BY <1>3, <2>3 DEF KnowledgeStep, DoctorKnowledge
<1>4. KnowledgeStep(s) # KnowledgeStepPy(s) =>
        \E t \in Documented(s) :
          \/ entries[s][t].file # "text"
          \/ entries[s][t].anchor = "symbol" /\ sources[s][t] = "latin1"
  BY <1>2 DEF KnowledgeStep, KnowledgeStepPy
<1>5. KnowledgeStep(s) # DoctorKnowledge(s) =>
        \/ "knowledge" \notin carries[s] \/ Throws(s)
        \/ \E t \in Documented(s) : ~AnswersFor(s, t)
  BY <1>3 DEF KnowledgeStep, DoctorKnowledge
<1> QED
  BY <1>1, <1>4, <1>5, PassingStep

(* A proposed term accepted as shown leaves a port that passed passing,    *)
(* unless it is a symbol out of that port's sight.                         *)
LEMMA AcceptedHolds ==
  ASSUME KnowledgeTypeOK, NEW s \in Repo, NEW t \in Term, Backfill(s, t),
         NEW CONSTANT service, NEW CONSTANT reads, "text" \in reads.files,
         Passes(s, service, reads), ~OutOfSight(s, t, reads)'
  PROVE  Passes(s, service, reads)'
<1>1. PICK e \in Proposed(s, t) : entries' = [entries EXCEPT ![s][t] = e]
  BY DEF Backfill
<1>2. sources' = sources /\ sources[s][t] \in Site
  BY DEF Backfill, Proposals, KnowledgeTypeOK
<1>3. /\ e.file = "text" /\ e.anchor \in {"symbol", sources[s][t]}
      /\ e \in GlossaryEntry
  BY <1>1, <1>2 DEF Proposed, GlossaryEntry
<1>4. entries \in [Repo -> [Term -> GlossaryEntry \cup {Unwritten}]]
  BY DEF KnowledgeTypeOK
<1>5. /\ entries'[s][t] = e
      /\ \A u \in Term \ {t} : entries'[s][u] = entries[s][u]
  BY <1>1, <1>4
<1>6. t \in Read(s, reads)'
  BY <1>3, <1>5, EntryAssumption DEF Read, Documented
<1>7. ASSUME NEW u \in HeldTo(s, service, reads)'
      PROVE  ResolveAnchor(s, u, entries[s][u].anchor, reads)'
  <2>1. CASE u = t
    BY <1>2, <1>3, <1>5, <2>1, SiteAssumption DEF ResolveAnchor, OutOfSight
  <2>2. CASE u # t
    <3>1. u \in Term \ {t}
      BY <1>7, <2>2 DEF HeldTo, Read, Documented
    <3>2. entries'[s][u] = entries[s][u]
      BY <1>5, <3>1
    <3>3. u \in HeldTo(s, service, reads)
      BY <1>7, <3>1, <3>2 DEF HeldTo, Read, Documented
    <3>4. ResolveAnchor(s, u, entries[s][u].anchor, reads)
      BY <3>3 DEF Passes, Problems
    <3> QED
      BY <1>2, <3>2, <3>4 DEF ResolveAnchor
  <2> QED
    BY <2>1, <2>2
<1> QED
  BY <1>6, <1>7 DEF Passes, Problems, EmptyAfterWork

(* A service scaffolded under a layer that hands it nothing it would have  *)
(* to answer for, and nothing unreadable, passes in either port.           *)
LEMMA ScaffoldHolds ==
  ASSUME NEW s \in Repo, delivered[s] = "none", ScaffoldService(s),
         entries \in [Repo -> [Term -> GlossaryEntry \cup {Unwritten}]],
         carries \in [Repo -> SUBSET {"scaffold", "knowledge", "library"}],
         ~ \E t \in Term : /\ layer[t] # Unwritten
                           /\ \/ layer[t].owner \in {Checkout[s], Nobody}
                              \/ layer[t].file = "unreadable"
  PROVE  KnowledgeStep(s)' /\ KnowledgeStepPy(s)'
<1>1. entries'[s] = layer /\ delivered'[s] = "none" /\ "library" \in carries'[s]
  BY DEF ScaffoldService
<1>2. ~Throws(s)'
  BY <1>1 DEF Throws, Documented
<1>3. ASSUME NEW CONSTANT reads PROVE Passes(s, Checkout[s], reads)'
  <2>1. HeldTo(s, Checkout[s], reads)' = {}
    BY <1>1, NobodyAssumption DEF HeldTo, Read, Documented
  <2>2. ~EmptyAfterWork(s, Checkout[s], reads)'
    BY <1>1 DEF EmptyAfterWork
  <2> QED
    BY <2>1, <2>2 DEF Passes
<1> QED
  BY <1>1, <1>2, <1>3 DEF KnowledgeStep, KnowledgeStepPy

(* In every state the step that passes holds the glossary to the code, and *)
(* ports and doctor differ from it only as told; and a term accepted, or a *)
(* service scaffolded, starts as told.                                     *)
THEOREM VocabularyHeld == KnowledgeSpec => VocabularyIsHeld
<1> DEFINE First == \A s \in Repo \ Alive : delivered[s] = "none"
<1>1. KnowledgeTypeOK /\ First => NewEntriesHold
  <2> SUFFICES ASSUME KnowledgeTypeOK, First, NEW s \in Repo PROVE
        /\ \A t \in Term : Backfill(s, t) =>
             /\ KnowledgeStep(s) => KnowledgeStep(s)' \/ OutOfSight(s, t, Mjs)'
             /\ KnowledgeStepPy(s) => KnowledgeStepPy(s)' \/ OutOfSight(s, t, Py)'
        /\ ScaffoldService(s) =>
             \/ KnowledgeStep(s)' /\ KnowledgeStepPy(s)'
             \/ \E t \in Term :
                  /\ layer[t] # Unwritten
                  /\ layer[t].owner \in {Checkout[s], Nobody} \/ layer[t].file = "unreadable"
    BY DEF NewEntriesHold
  <2>1. ASSUME NEW t \in Term, Backfill(s, t)
        PROVE  /\ "library" \in carries[s] => "library" \in carries'[s]
               /\ ~Throws(s) => ~Throws(s)'
    <3>1. PICK e \in Proposed(s, t) : entries' = [entries EXCEPT ![s][t] = e]
      BY <2>1 DEF Backfill
    <3>2. /\ entries'[s][t] = e /\ e.file = "text"
          /\ \A u \in Term \ {t} : entries'[s][u] = entries[s][u]
      BY <3>1 DEF Proposed, KnowledgeTypeOK
    <3>3. ~Throws(s) => ~Throws(s)'
      BY <3>2 DEF Throws, Documented
    <3>4. "library" \in carries[s] => "library" \in carries'[s]
      BY <2>1 DEF Backfill, KnowledgeTypeOK
    <3> QED
      BY <3>3, <3>4
  <2>2. ASSUME NEW t \in Term, Backfill(s, t), KnowledgeStep(s), ~OutOfSight(s, t, Mjs)'
        PROVE  KnowledgeStep(s)'
    <3>1. Passes(s, Checkout[s], Mjs)'
      BY <2>2, AcceptedHolds DEF KnowledgeStep, Mjs
    <3> QED
      BY <2>1, <2>2, <3>1 DEF KnowledgeStep
  <2>3. ASSUME NEW t \in Term, Backfill(s, t), KnowledgeStepPy(s), ~OutOfSight(s, t, Py)'
        PROVE  KnowledgeStepPy(s)'
    <3>1. Passes(s, Checkout[s], Py)'
      BY <2>3, AcceptedHolds DEF KnowledgeStepPy, Py
    <3> QED
      BY <2>1, <2>3, <3>1 DEF KnowledgeStepPy
  <2>4. ASSUME ScaffoldService(s) PROVE delivered[s] = "none"
    BY <2>4 DEF ScaffoldService
  <2> QED
    BY <2>2, <2>3, <2>4, ScaffoldHolds DEF KnowledgeTypeOK
<1> QED
  BY <1>1, OpinionsHeld, KnowledgeType, ScaffoldedFirst, PTL DEF VocabularyIsHeld

-----------------------------------------------------------------------------
(* Judges. *)

(* Agreement of a rater that always answers the same is what chance gives. *)
LEMMA OneLabelIsChance ==
  ASSUME NEW m \in Matrix, ~Discriminates(m)
  PROVE  Agreed(m) * Items(m) = Chance(m)
<1> DEFINE a == m.pp  b == m.pf  c == m.fp  d == m.ff
<1>1. a \in Nat /\ b \in Nat /\ c \in Nat /\ d \in Nat
  BY DEF Matrix
<1> HIDE DEF a, b, c, d
<1>2. Agreed(m) = a + d /\ Items(m) = a + b + c + d
      /\ Chance(m) = (a + b) * (a + c) + (c + d) * (b + d)
  BY DEF Agreed, Items, Chance, a, b, c, d
<1>3. \/ a = 0 /\ b = 0
      \/ c = 0 /\ d = 0
      \/ a = 0 /\ c = 0
      \/ b = 0 /\ d = 0
  <2>1. ~(a + b > 0 /\ c + d > 0 /\ a + c > 0 /\ b + d > 0)
    BY DEF Discriminates, a, b, c, d
  <2> QED
    BY <1>1, <2>1
<1>4. CASE a = 0 /\ b = 0
  <2>1. Agreed(m) = d /\ Items(m) = c + d
    BY <1>1, <1>2, <1>4
  <2>2. Chance(m) = 0 * c + (c + d) * d
    BY <1>1, <1>2, <1>4
  <2> QED
    BY <1>1, <2>1, <2>2
<1>5. CASE c = 0 /\ d = 0
  <2>1. Agreed(m) = a /\ Items(m) = a + b
    BY <1>1, <1>2, <1>5
  <2>2. Chance(m) = (a + b) * a + 0 * b
    BY <1>1, <1>2, <1>5
  <2> QED
    BY <1>1, <2>1, <2>2
<1>6. CASE a = 0 /\ c = 0
  <2>1. Agreed(m) = d /\ Items(m) = b + d
    BY <1>1, <1>2, <1>6
  <2>2. Chance(m) = b * 0 + d * (b + d)
    BY <1>1, <1>2, <1>6
  <2> QED
    BY <1>1, <2>1, <2>2
<1>7. CASE b = 0 /\ d = 0
  <2>1. Agreed(m) = a /\ Items(m) = a + c
    BY <1>1, <1>2, <1>7
  <2>2. Chance(m) = a * (a + c) + c * 0
    BY <1>1, <1>2, <1>7
  <2> QED
    BY <1>1, <2>1, <2>2
<1> QED
  BY <1>3, <1>4, <1>5, <1>6, <1>7

(* Chance never exceeds certainty. *)
LEMMA ChanceIsBounded ==
  ASSUME NEW m \in Matrix
  PROVE  /\ Items(m) * Items(m) >= Chance(m)
         /\ Items(m) * Items(m) \in Int /\ Chance(m) \in Int /\ Agreed(m) * Items(m) \in Int
<1> DEFINE a == m.pp  b == m.pf  c == m.fp  d == m.ff
<1>1. a \in Nat /\ b \in Nat /\ c \in Nat /\ d \in Nat
  BY DEF Matrix
<1> HIDE DEF a, b, c, d
<1>2. Agreed(m) = a + d /\ Items(m) = a + b + c + d
      /\ Chance(m) = (a + b) * (a + c) + (c + d) * (b + d)
  BY DEF Agreed, Items, Chance, a, b, c, d
<1>3. Items(m) * Items(m) - Chance(m) = (a + b) * (b + d) + (c + d) * (a + c)
  BY <1>1, <1>2, Z3
<1>4. (a + b) * (b + d) >= 0 /\ (c + d) * (a + c) >= 0
  BY <1>1, Z3
<1>5. /\ Items(m) * Items(m) \in Int /\ Chance(m) \in Int /\ Agreed(m) * Items(m) \in Int
      /\ (a + b) * (b + d) \in Int /\ (c + d) * (a + c) \in Int
  BY <1>1, <1>2
<1> QED
  BY <1>3, <1>4, <1>5

LEMMA KappaNeedsBothLabels ==
  ASSUME NEW m \in Matrix, NEW num \in Nat \ {0}, NEW den \in Nat,
         ~Degenerate(m), KappaAtLeast(m, num, den)
  PROVE  Discriminates(m)
<1> SUFFICES ASSUME ~Discriminates(m) PROVE FALSE
  OBVIOUS
<1> DEFINE gap == Items(m) * Items(m) - Chance(m)
<1>1. Agreed(m) * Items(m) - Chance(m) = 0
  BY OneLabelIsChance, ChanceIsBounded
<1>2. gap \in Int /\ gap > 0
  BY ChanceIsBounded DEF Degenerate
<1>3. den * 0 >= num * gap
  BY <1>1 DEF KappaAtLeast
<1> HIDE DEF gap
<1>4. num * gap > 0
  BY <1>2, Z3
<1>5. den * 0 = 0
  OBVIOUS
<1> QED
  BY <1>2, <1>3, <1>4, <1>5

JudgeInv ==
  /\ JudgeTypeOK
  /\ \A report \in {calibration, cites} :
       report # NoReport /\ report.eligible => report.discriminates
  /\ ci = "OK" => CheckPromotion
  /\ parity # NoReport /\ parity.adopt => parity.discriminates /\ parity.blockers = 0

LEMMA TwoLabelsAreUndecided ==
  ASSUME NEW m \in Matrix, m.pp + m.pf > 0, m.fp + m.ff > 0
  PROVE  ~Degenerate(m)
<1> DEFINE a == m.pp  b == m.pf  c == m.fp  d == m.ff
<1>1. a \in Nat /\ b \in Nat /\ c \in Nat /\ d \in Nat
  BY DEF Matrix
<1>2. a + b > 0 /\ c + d > 0
  OBVIOUS
<1>3. Degenerate(m) <=> (a + b + c + d) * (a + b + c + d) = (a + b) * (a + c) + (c + d) * (b + d)
  BY DEF Degenerate, Items, Chance
<1> HIDE DEF a, b, c, d
<1>4. (a + b + c + d) * (a + b + c + d) - ((a + b) * (a + c) + (c + d) * (b + d))
        = (a + b) * (b + d) + (c + d) * (a + c)
  BY <1>1, Z3
<1>5. (a + b) * (b + d) >= b + d /\ (c + d) * (a + c) >= a + c
  BY <1>1, <1>2, Z3
<1>6. (b + d) + (a + c) > 0
  BY <1>1, <1>2
<1> DEFINE x == (a + b) * (b + d)  y == (c + d) * (a + c)
           n == (a + b + c + d) * (a + b + c + d)  z == (a + b) * (a + c) + (c + d) * (b + d)
<1>7. x \in Int /\ y \in Int /\ n \in Int /\ z \in Int
  BY <1>1
<1>8. n - z = x + y /\ x >= b + d /\ y >= a + c /\ (Degenerate(m) <=> n = z)
  BY <1>3, <1>4, <1>5
<1> HIDE DEF x, y, n, z
<1> QED
  BY <1>1, <1>6, <1>7, <1>8

LEMMA EligibleDiscriminates ==
  ASSUME NEW set \in CalibrationSet, Eligible(set)
  PROVE  /\ Discriminates(set.judged)
         /\ set.method = "human" => set.second # NoReport /\ Discriminates(set.second)
<1>1. set.judged \in Matrix /\ (set.second # NoReport => set.second \in Matrix)
  BY MatricesAssumption DEF CalibrationSet
<1>2. PICK num \in {3, 4} : ~Degenerate(set.judged) /\ KappaAtLeast(set.judged, num, 5)
  BY DEF Eligible
<1>3. Discriminates(set.judged)
  BY <1>1, <1>2, KappaNeedsBothLabels
<1>4. ASSUME set.method = "human" PROVE set.second # NoReport /\ Discriminates(set.second)
  <2>1. set.second # NoReport /\ KappaAtLeast(set.second, 2, 5)
    BY <1>4 DEF Eligible
  <2>2. /\ set.second.pp + set.second.pf = set.judged.pp + set.judged.fp
        /\ set.second.fp + set.second.ff = set.judged.pf + set.judged.ff
    BY <2>1 DEF CalibrationSet
  <2>3. set.judged.pp + set.judged.fp > 0 /\ set.judged.pf + set.judged.ff > 0
    BY <1>3 DEF Discriminates
  <2>4. ~Degenerate(set.second)
    BY <1>1, <2>1, <2>2, <2>3, TwoLabelsAreUndecided
  <2> QED
    BY <1>1, <2>1, <2>4, KappaNeedsBothLabels
<1> QED
  BY <1>3, <1>4

LEMMA CalibrationsDiscriminate ==
  ASSUME NEW found \in Calibrations
  PROVE  found.eligible \in BOOLEAN /\ found.discriminates \in BOOLEAN
         /\ (found.eligible => found.discriminates)
<1>1. PICK set \in CalibrationSet : found = Calibrate(set)
  BY DEF Calibrations
<1>2. /\ found.eligible = Eligible(set)
      /\ found.discriminates = (/\ Discriminates(set.judged)
                                /\ set.method = "human" =>
                                     set.second # NoReport /\ Discriminates(set.second))
  BY <1>1, Zenon DEF Calibrate
<1>3. Eligible(set) \in BOOLEAN
  BY DEF Eligible
<1> QED
  BY <1>2, <1>3, EligibleDiscriminates

LEMMA JudgeStep == JudgeInv /\ [JudgeNext]_judgeVars => JudgeInv'
<1> SUFFICES ASSUME JudgeInv, [JudgeNext]_judgeVars PROVE JudgeInv'
  OBVIOUS
<1>0. month \in 0..LastMonth /\ LastMonth \in Nat
  BY LastMonthAssumption DEF JudgeInv, JudgeTypeOK
<1>1. ASSUME NEW found \in Calibrations, NEW on \in 0..month, RunCalibration(found, on)
      PROVE  JudgeInv'
  <2>1. on \in 0..LastMonth
    BY <1>0
  <2>2. calibration' \in Report /\ (calibration'.eligible => calibration'.discriminates)
    BY <1>1, <2>1, CalibrationsDiscriminate DEF RunCalibration, Report
  <2> QED
    BY <1>1, <2>2 DEF RunCalibration, CheckPromotion, JudgeInv, JudgeTypeOK
<1>2. ASSUME NEW newMode \in {"advisory", "blocking"}, NEW report \in {NoReport, calibration},
             EditConfig(newMode, report)
      PROVE  JudgeInv'
  BY <1>2 DEF EditConfig, JudgeInv, JudgeTypeOK
<1>3. CASE NextMonth
  <2>1. month < LastMonth /\ month' = month + 1
    BY <1>3 DEF NextMonth
  <2>2. month' \in 0..LastMonth
    BY <1>0, <2>1
  <2> QED
    BY <1>3, <2>2 DEF NextMonth, JudgeInv, JudgeTypeOK
<1>4. CASE RunPromotionCheck
  BY <1>4 DEF RunPromotionCheck, CheckPromotion, JudgeInv, JudgeTypeOK
<1>5. ASSUME NEW m \in Matrices, NEW blockers \in 0..(m.pf + m.fp), RunParity(m, blockers)
      PROVE  JudgeInv'
  <2>1. m \in Matrix /\ m.pf + m.fp \in Nat /\ blockers \in Nat
    BY MatricesAssumption DEF Matrix
  <2>2. AdoptCheaper(m, blockers) => Discriminates(m) /\ blockers = 0
    BY <2>1, KappaNeedsBothLabels, 4 \in Nat \ {0}, 5 \in Nat DEF AdoptCheaper
  <2>3. parity' = [adopt |-> AdoptCheaper(m, blockers), blockers |-> blockers,
                   discriminates |-> Discriminates(m)]
    BY <1>5 DEF RunParity
  <2>4. AdoptCheaper(m, blockers) \in BOOLEAN /\ Discriminates(m) \in BOOLEAN
    BY DEF AdoptCheaper, Discriminates
  <2>5. parity'.adopt => parity'.discriminates /\ parity'.blockers = 0
    BY <2>2, <2>3
  <2>6. parity' \in [adopt : BOOLEAN, blockers : Nat, discriminates : BOOLEAN]
    BY <2>1, <2>3, <2>4
  <2> QED
    BY <1>5, <2>5, <2>6 DEF RunParity, CheckPromotion, JudgeInv, JudgeTypeOK
<1>6. CASE UNCHANGED judgeVars
  BY <1>6 DEF judgeVars, CheckPromotion, JudgeInv, JudgeTypeOK
<1> QED
  BY <1>1, <1>2, <1>3, <1>4, <1>5, <1>6 DEF JudgeNext

(* Trust is earned on both labels, for any matrices: kappa of a rater that *)
(* always gives one answer is nothing, or undefined.                       *)
THEOREM TrustEarned == JudgeSpec => []TrustIsEarned
<1>1. JudgeInit => JudgeInv
  <2> SUFFICES ASSUME JudgeInit PROVE JudgeInv
    OBVIOUS
  <2>1. month = 0
    BY DEF JudgeInit
  <2>2. month \in 0..LastMonth
    BY <2>1, LastMonthAssumption
  <2> QED
    BY <2>2 DEF JudgeInit, JudgeInv, JudgeTypeOK
<1>2. JudgeInv => TrustIsEarned
  <2> SUFFICES ASSUME JudgeInv PROVE TrustIsEarned
    OBVIOUS
  <2>1. ASSUME ci = "OK", mode = "blocking"
        PROVE  cites # NoReport /\ cites.discriminates /\ month <= cites.generatedAt + 3
    <3>1. cites # NoReport /\ month - cites.generatedAt <= 3 /\ cites.eligible
      BY <2>1 DEF JudgeInv, CheckPromotion, MaxAge
    <3>2. month \in 0..LastMonth /\ cites \in Report
      BY <3>1 DEF JudgeInv, JudgeTypeOK
    <3>3. month \in Int /\ cites.generatedAt \in Int
      BY <3>2, LastMonthAssumption DEF Report
    <3> QED
      BY <3>1, <3>3 DEF JudgeInv
  <2> QED
    BY <2>1 DEF TrustIsEarned, JudgeInv
<1> QED
  BY <1>1, <1>2, JudgeStep, PTL DEF JudgeSpec
=============================================================================
