----------------------------- MODULE RigelDesign -----------------------------
(***************************************************************************)
(* Design decisions and their citations.  A spec owes decisions for what   *)
(* it declares; the design file covers them and cites notes of a corpus,   *)
(* or sections of them.  The developer's machine has the notes, and they   *)
(* change; CI has the index of them that was committed.  The notes server  *)
(* shows an agent what can be cited, from an index it built at its start.  *)
(***************************************************************************)
EXTENDS FiniteSets, Naturals

CONSTANTS Note,      \* paths of notes, as the corpus or a citation has them
          Anchor,    \* slugs of headings
          NoAnchor,  \* a citation of a whole note
          EndsIn,    \* <<n, p>>: the path n ends with "/" and p
          Walk,      \* the order in which a corpus is walked
          Bundled,   \* the reference/ shipped with create-rigel
          Libraries, \* bound: what the developer's library is changed to
          Specs,     \* bound: what specs declare
          Designs,   \* bound: design files somebody writes
          Nothing,   \* no file, no directory, no process
          Malformed

Declarable == {"read endpoint", "write endpoint", "entity"}
Trigger == {"authorization", "idempotency", "failure-handling", "data-retention", "rate-limiting"}
Corpus == {"own", "bundled"}

\* The notes of a corpus, and the headings of each.
Index == UNION {[D -> SUBSET Anchor] : D \in SUBSET Note}
Citation == [note : Note, anchor : Anchor \cup {NoAnchor}]

ASSUME NotesAssumption ==
  /\ EndsIn \subseteq Note \X Note /\ Walk \in [Note -> Nat] /\ NoAnchor \notin Anchor
  /\ Bundled \in Index /\ Libraries \subseteq Index
ASSUME SpecsAssumption == Specs \subseteq SUBSET Declarable

\* What a design file covers and cites; a hasty one has a decision without a
\* rejected alternative, a rationale or a known status; a garbled one has a
\* line the parser does not know.
Design == [covers : SUBSET Trigger, cites : SUBSET Citation,
           written : {"well", "hastily", "garbled"}]

ASSUME DesignsAssumption == Designs \subseteq Design

VARIABLES
  own,      \* the developer's own library, or Nothing
  envSet,   \* RIGEL_NOTES_PATH names it
  refs,     \* .rigel/design-refs.json: an index, a corpus alone, Malformed, or Nothing
  server,   \* the notes server: its corpus and index, or Nothing
  spec, design,
  here, onCI  \* the last design:check on either machine, since anything it reads changed

designVars == <<own, envSet, refs, server, spec, design, here, onCI>>

Live(c) == IF c = "own" THEN own ELSE IF c = "bundled" THEN Bundled ELSE Nothing

-----------------------------------------------------------------------------
(* What a spec owes, and the check of a design against it. *)

Fires(t, declared) ==
  CASE t \in {"authorization", "rate-limiting"} ->
         declared \cap {"read endpoint", "write endpoint"} # {}
    [] t \in {"idempotency", "failure-handling"} -> "write endpoint" \in declared
    [] t = "data-retention" -> "entity" \in declared

RequiredDecisions(declared) == {t \in Trigger : Fires(t, declared)}

\* Which note a cited path means: the one of that path, or else, leading
\* directories being the author's business, the first whose path ends in it.
NoteMeant(index, path) ==
  LET tail == {n \in DOMAIN index : <<n, path>> \in EndsIn}
  IN IF path \in DOMAIN index THEN {path}
     ELSE {n \in tail : \A m \in tail : Walk[n] <= Walk[m]}

\* A note that exists will do, if no section of it is named.
ResolveRef(index, cited) ==
  \E n \in NoteMeant(index, cited.note) : cited.anchor \in index[n] \cup {NoAnchor}

\* Without an index citations are not checked.
CheckDesign(d, required, index) ==
  /\ required \subseteq d.covers /\ d.written = "well"
  /\ index # Nothing => \A cited \in d.cites : ResolveRef(index, cited)

DesignCheckOk(index) ==
  LET required == RequiredDecisions(spec)
  IN required # {} => design # Nothing /\ CheckDesign(design, required, index)

-----------------------------------------------------------------------------
(* The corpus, its index, and what a check uses of both. *)

ResolveCorpus ==
  IF envSet /\ own # Nothing THEN "own"
  ELSE IF refs \notin {Nothing, Malformed} /\ Live(refs.corpus) # Nothing THEN refs.corpus
  ELSE "bundled"

LoadIndex ==
  IF refs \in {Nothing, Malformed} THEN Nothing ELSE refs.files

(* Mutant: the committed index is believed. *)
BasisCommitted(corpus) == [index |-> LoadIndex, stale |-> FALSE]

(* Mutant: as many notes, the same notes. *)
BasisByCount(corpus) ==
  IF LoadIndex = Nothing \/ corpus = Nothing
  THEN [index |-> LoadIndex, stale |-> FALSE]
  ELSE [index |-> corpus,
        stale |-> Cardinality(DOMAIN corpus) # Cardinality(DOMAIN LoadIndex)]

\* corpus: what lies where the committed index says, on the machine that asks.
CitationBasis(corpus) ==
  IF LoadIndex = Nothing \/ corpus \in {Nothing, LoadIndex}
  THEN [index |-> LoadIndex, stale |-> FALSE]
  ELSE [index |-> corpus, stale |-> TRUE]

HereCorpus == IF LoadIndex = Nothing THEN Nothing ELSE Live(refs.corpus)

-----------------------------------------------------------------------------
Unchecked == here' = Nothing /\ onCI' = Nothing

DesignInit ==
  /\ own = Nothing /\ envSet = FALSE /\ refs = Nothing /\ server = Nothing
  /\ spec = {} /\ design = Nothing /\ here = Nothing /\ onCI = Nothing

WriteSpec(declared) ==
  /\ spec' = declared /\ Unchecked
  /\ UNCHANGED <<own, envSet, refs, server, design>>

WriteDesign(d) ==
  /\ design' = d /\ Unchecked
  /\ UNCHANGED <<own, envSet, refs, server, spec>>

\* The developer's library appears, is edited, or is moved away.
ChangeNotes(notes) ==
  /\ own' = notes /\ Unchecked
  /\ UNCHANGED <<envSet, refs, server, spec, design>>

SetEnv ==
  /\ envSet' = ~envSet /\ Unchecked
  /\ UNCHANGED <<own, refs, server, spec, design>>

\* Pinned by hand, or spoilt by a merge.
EditRefs(text) ==
  /\ refs' = text /\ Unchecked
  /\ UNCHANGED <<own, envSet, server, spec, design>>

\* `create-rigel design-index`, of the corpus given or found: not of an empty one.
CmdDesignIndex(c) ==
  /\ c \in {"own", ResolveCorpus} /\ Live(c) # Nothing /\ DOMAIN Live(c) # {}
  /\ refs' = [corpus |-> c, files |-> Live(c)] /\ Unchecked
  /\ UNCHANGED <<own, envSet, server, spec, design>>

\* design:check where the developer works, and on CI, which has no notes.
CheckHere ==
  LET basis == CitationBasis(HereCorpus)
  IN /\ here' = [ok |-> DesignCheckOk(basis.index), stale |-> basis.stale]
     /\ UNCHANGED <<own, envSet, refs, server, spec, design, onCI>>

CheckOnCI ==
  LET basis == CitationBasis(Nothing)
  IN /\ onCI' = [ok |-> DesignCheckOk(basis.index), stale |-> basis.stale]
     /\ UNCHANGED <<own, envSet, refs, server, spec, design, here>>

\* A session starts, and the notes server with it.
StartServer ==
  /\ server' = [corpus |-> ResolveCorpus, index |-> Live(ResolveCorpus)]
  /\ UNCHANGED <<own, envSet, refs, spec, design, here, onCI>>

\* read_note returns a section of a note that the server indexed when it started,
\* if note and section are on disk now.
ReadNote(r) ==
  /\ server # Nothing /\ r.note \in DOMAIN server.index
  /\ LET notes == Live(server.corpus)
     IN notes # Nothing /\ r.note \in DOMAIN notes /\ r.anchor \in notes[r.note]

DesignNext ==
  \/ \E declared \in Specs : WriteSpec(declared)
  \/ \E d \in Designs : WriteDesign(d)
  \/ \E notes \in Libraries \cup {Nothing} : ChangeNotes(notes)
  \/ \E c \in Corpus : CmdDesignIndex(c) \/ EditRefs([corpus |-> c, files |-> Nothing])
  \/ EditRefs(Malformed) \/ SetEnv \/ CheckHere \/ CheckOnCI \/ StartServer

DesignSpec == DesignInit /\ [][DesignNext]_designVars

-----------------------------------------------------------------------------
Checked == [ok : BOOLEAN, stale : BOOLEAN]

DesignTypeOK ==
  /\ own = Nothing \/ own \in Index
  /\ envSet \in BOOLEAN
  /\ \/ refs \in {Nothing, Malformed}
     \/ refs \in [corpus : Corpus, files : {Nothing}]
     \/ refs \in [corpus : Corpus, files : Index]
  /\ server = Nothing \/ server \in [corpus : Corpus, index : Index]
  /\ spec \in SUBSET Declarable /\ design \in Design \cup {Nothing}
  /\ here \in Checked \cup {Nothing} /\ onCI \in Checked \cup {Nothing}

(* Green is backed.  A check that passes where the notes are on disk means *)
(* that each citation leads somewhere now, whatever was indexed when: to   *)
(* the cited note, or, when no note has that path any more, to one whose   *)
(* path ends in it; and to the cited section of it, if one is cited.  (So  *)
(* a citation may outlive its note: another of that name stands in.)  It   *)
(* means that whatever the spec owes is decided: two decisions for reads,  *)
(* two more for writes, one for entities.  And a section the server shows  *)
(* now is one this check would accept, if both look at one corpus.         *)
GreenIsBacked ==
  /\ here # Nothing /\ here.ok /\ spec # {} /\ HereCorpus # Nothing =>
       /\ design # Nothing
       /\ \A cited \in design.cites : \E n \in DOMAIN HereCorpus :
            /\ n = cited.note \/ (<<n, cited.note>> \in EndsIn /\ cited.note \notin DOMAIN HereCorpus)
            /\ cited.anchor # NoAnchor => cited.anchor \in HereCorpus[n]
       /\ "read endpoint" \in spec => {"authorization", "rate-limiting"} \subseteq design.covers
       /\ "write endpoint" \in spec => Trigger \ {"data-retention"} \subseteq design.covers
       /\ "entity" \in spec => "data-retention" \in design.covers
  /\ \A r \in Citation :
       ReadNote(r) /\ HereCorpus # Nothing /\ refs.corpus = server.corpus
       => ResolveRef(CitationBasis(HereCorpus).index, r)

(* Divergence is announced.  When the developer's machine and CI disagree  *)
(* about the same commit, the developer was told that the committed index  *)
(* is stale.                                                               *)
DivergenceIsAnnounced ==
  here # Nothing /\ onCI # Nothing /\ here.ok # onCI.ok => here.stale
=============================================================================
