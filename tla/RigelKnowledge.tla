---------------------------- MODULE RigelKnowledge ----------------------------
(***************************************************************************)
(* Anchored vocabulary.  A glossary entry names code that must exist: a    *)
(* file, or a symbol defined somewhere.  A service scaffolded under a      *)
(* company layer starts with the layer's whole glossary.  Afterwards       *)
(* entries travel by hand, and an update removes those it finds as the     *)
(* scaffold laid them, for no template ships them.  The knowledge step of  *)
(* each gate (Node or Python) holds its own service to the terms it owns,  *)
(* `create-rigel candidates` proposes terms, and doctor repeats the step's *)
(* verdict.                                                                *)
(***************************************************************************)
EXTENDS Naturals

CONSTANTS Repo, Term,
          Checkout,  \* the name of the directory a service is checked out in, by
                     \* which its step knows who it is
          MaxSlips,  \* bound: changes of code, files re-encoded or lost, and
                     \* reasons given for an empty glossary, or withdrawn
          Nobody, Unwritten

ASSUME NobodyAssumption == Nobody \notin Repo /\ \A s \in Repo : Checkout[s] # Nobody
ASSUME SlipsAssumption == MaxSlips \in Nat

\* Where the file that defines a term lies: in src/, in src/ but in bytes that are
\* not UTF-8, or beside package.json.
Site == {"src", "latin1", "root"}
ASSUME SiteAssumption == Unwritten \notin Site

\* An anchor is the term itself, looked for as a symbol, or the path of a file.
\* The file of an entry may hold bytes that are not UTF-8, or not open at all.
GlossaryEntry == [owner : Repo \cup {Nobody}, anchor : Site \cup {"symbol"},
                  file : {"text", "latin1", "unreadable"}]

ASSUME EntryAssumption == Unwritten \notin GlossaryEntry

VARIABLES sources,    \* sources[s][t]: where s defines t, or Unwritten
          layer,      \* layer[t]: the entry in the company layer, or Unwritten
          entries,    \* entries[s][t]: the entry in knowledge/domain/glossary of s
          delivered,  \* delivered[s]: whether a plan was completed, and an opt-out written
          carries,    \* carries[s]: what is there of s: its scaffold, knowledge/,
                      \* and the library the step imports
          slips

knowledgeVars == <<sources, layer, entries, delivered, carries, slips>>

\* Services that have been scaffolded.
Alive == {s \in Repo : "scaffold" \in carries[s]}

-----------------------------------------------------------------------------
(* checkKnowledge, in either port. *)

\* What a port reads: of the source index (src, app, lib), and of the glossary.
Mjs == [code |-> {"src", "latin1"}, files |-> {"text", "latin1"}]
Py == [code |-> {"src"}, files |-> {"text"}]

ResolveAnchor(s, t, anchor, reads) ==
  /\ sources[s][t] # Unwritten
  /\ IF anchor = "symbol" THEN sources[s][t] \in reads.code ELSE sources[s][t] = anchor

Documented(s) == {t \in Term : entries[s][t] # Unwritten}

\* The Python port skips what it cannot read, the other ends with an error.
Read(s, reads) == {t \in Documented(s) : entries[s][t].file \in reads.files}
Throws(s) == \E t \in Documented(s) : entries[s][t].file = "unreadable"

\* service is Nobody when the caller does not say who it is.
HeldTo(s, service, reads) ==
  {t \in Read(s, reads) : service = Nobody \/ entries[s][t].owner \in {Nobody, service}}

Problems(s, service, reads) ==
  {t \in HeldTo(s, service, reads) : ~ResolveAnchor(s, t, entries[s][t].anchor, reads)}

(* Mutant: empty is never a pass. *)
EmptyWithoutReason(s, service, reads) ==
  Read(s, reads) \subseteq HeldTo(s, service, reads) /\ delivered[s] # "excused"

\* Nothing was checked and nothing skipped as another's, after work had shipped.
EmptyAfterWork(s, service, reads) ==
  Read(s, reads) \subseteq HeldTo(s, service, reads) /\ delivered[s] = "shipped"

Passes(s, service, reads) ==
  IF HeldTo(s, service, reads) = {} THEN ~EmptyAfterWork(s, service, reads)
  ELSE Problems(s, service, reads) = {}

\* The steps import the library.
KnowledgeStep(s) == "library" \in carries[s] /\ ~Throws(s) /\ Passes(s, Checkout[s], Mjs)
KnowledgeStepPy(s) == "library" \in carries[s] /\ Passes(s, Checkout[s], Py)

\* doctor asks without a service; it has nothing to say without knowledge/, and
\* takes an error for a layer it is too early to expect.
DoctorKnowledge(s) ==
  "knowledge" \in carries[s] =>
    "library" \in carries[s] /\ (Throws(s) \/ Passes(s, Nobody, Mjs))

\* Terms defined in code, in the root of the repository too, whose entry cannot
\* be read or is not there.
Proposals(s) ==
  {t \in Term : sources[s][t] # Unwritten /\ t \notin Read(s, Mjs)}

-----------------------------------------------------------------------------
Empty == [t \in Term |-> Unwritten]

KnowledgeInit ==
  /\ sources = [s \in Repo |-> Empty] /\ layer = Empty /\ entries = [s \in Repo |-> Empty]
  /\ delivered = [s \in Repo |-> "none"] /\ carries = [s \in Repo |-> {}] /\ slips = 0

\* create-rigel, under the layer: its whole glossary is laid down, this once.
ScaffoldService(s) ==
  /\ s \notin Alive
  /\ carries' = [carries EXCEPT ![s] = {"scaffold", "knowledge", "library"}]
  /\ entries' = [entries EXCEPT ![s] = layer]
  /\ UNCHANGED <<sources, layer, delivered, slips>>

\* Afterwards entries go by hand: from the layer, and into it.
CopyEntry(s, t) ==
  /\ s \in Alive /\ layer[t] # Unwritten
  /\ carries' = [carries EXCEPT ![s] = @ \cup {"knowledge"}]
  /\ entries' = [entries EXCEPT ![s][t] = layer[t]]
  /\ UNCHANGED <<sources, layer, delivered, slips>>

Publish(s, t) ==
  /\ s \in Alive /\ layer' = [layer EXCEPT ![t] = entries[s][t]]
  /\ UNCHANGED <<sources, entries, delivered, carries, slips>>

\* /backfill-knowledge, over a proposed term: its entry names the symbol, or the
\* file that defines it.
Proposed(s, t) ==
  [owner : {s, Nobody}, anchor : {"symbol", sources[s][t]}, file : {"text"}]

Backfill(s, t) ==
  /\ s \in Alive /\ t \in Proposals(s)
  /\ carries' = [carries EXCEPT ![s] = @ \cup {"knowledge"}]
  /\ \E e \in Proposed(s, t) : entries' = [entries EXCEPT ![s][t] = e]
  /\ UNCHANGED <<sources, layer, delivered, slips>>

Slip == slips < MaxSlips /\ slips' = slips + 1

ChangeCode(s, t, c) ==
  /\ Slip /\ s \in Alive /\ sources[s][t] # c
  /\ sources' = [sources EXCEPT ![s][t] = c] /\ UNCHANGED <<layer, entries, delivered, carries>>

\* The file of an entry is saved in another encoding, or its link dangles.
Spoil(s, t, file) ==
  /\ Slip /\ t \in Documented(s) /\ entries' = [entries EXCEPT ![s][t].file = file]
  /\ UNCHANGED <<sources, layer, delivered, carries>>

\* By hand, or by `create-rigel update`, which removes all that is as recorded and
\* no longer shipped.
DeleteEntries(s, gone) ==
  /\ gone # {} /\ gone \subseteq Documented(s)
  /\ entries' = [entries EXCEPT ![s] = [t \in Term |-> IF t \in gone THEN Unwritten ELSE @[t]]]
  /\ UNCHANGED <<sources, layer, delivered, carries, slips>>

\* knowledge/ is deleted, or the library, which no update brings back.
Remove(s, what) ==
  /\ Slip /\ s \in Alive /\ what \in carries[s]
  /\ carries' = [carries EXCEPT ![s] = @ \ {what}]
  /\ entries' = IF what = "knowledge" THEN [entries EXCEPT ![s] = Empty] ELSE entries
  /\ UNCHANGED <<sources, layer, delivered>>

\* A plan is completed; then a reason of ten letters is written, or taken back.
Work(s, w) ==
  /\ s \in Alive /\ delivered[s] # w
  /\ IF delivered[s] = "none" THEN w = "shipped" /\ UNCHANGED slips ELSE Slip
  /\ delivered' = [delivered EXCEPT ![s] = w]
  /\ UNCHANGED <<sources, layer, entries, carries>>

KnowledgeNext ==
  \E s \in Repo :
    \/ \E t \in Term :
         \/ \E c \in Site \cup {Unwritten} : ChangeCode(s, t, c)
         \/ \E file \in {"latin1", "unreadable"} : Spoil(s, t, file)
         \/ Backfill(s, t) \/ Publish(s, t) \/ CopyEntry(s, t)
    \/ \E gone \in SUBSET Term : DeleteEntries(s, gone)
    \/ \E what \in {"knowledge", "library"} : Remove(s, what)
    \/ \E w \in {"shipped", "excused"} : Work(s, w)
    \/ ScaffoldService(s)

KnowledgeSpec == KnowledgeInit /\ [][KnowledgeNext]_knowledgeVars

-----------------------------------------------------------------------------
KnowledgeTypeOK ==
  /\ sources \in [Repo -> [Term -> Site \cup {Unwritten}]]
  /\ layer \in [Term -> GlossaryEntry \cup {Unwritten}]
  /\ entries \in [Repo -> [Term -> GlossaryEntry \cup {Unwritten}]]
  /\ delivered \in [Repo -> {"none", "shipped", "excused"}]
  /\ carries \in [Repo -> SUBSET {"scaffold", "knowledge", "library"}]
  /\ \A s \in Repo : Documented(s) # {} => "knowledge" \in carries[s]
  /\ slips \in 0..MaxSlips

\* The terms a checkout answers for: its name's, and those of nobody.
AnswersFor(s, t) == t \in Documented(s) /\ entries[s][t].owner \in {Checkout[s], Nobody}

Held ==
  \A s \in Alive :
    /\ KnowledgeStep(s) =>
         /\ \A t \in Term : AnswersFor(s, t) => ResolveAnchor(s, t, entries[s][t].anchor, Mjs)
         /\ delivered[s] = "shipped" => Documented(s) # {}
    /\ KnowledgeStep(s) # KnowledgeStepPy(s) =>
         \E t \in Documented(s) :
           \/ entries[s][t].file # "text"
           \/ entries[s][t].anchor = "symbol" /\ sources[s][t] = "latin1"
    /\ KnowledgeStep(s) # DoctorKnowledge(s) =>
         \/ "knowledge" \notin carries[s] \/ Throws(s)
         \/ \E t \in Documented(s) : ~AnswersFor(s, t)

\* A symbol that a port does not look for where candidates found it.
OutOfSight(s, t, reads) ==
  entries[s][t].anchor = "symbol" /\ sources[s][t] \notin reads.code

NewEntriesHold ==
  \A s \in Repo :
    /\ \A t \in Term : Backfill(s, t) =>
         /\ KnowledgeStep(s) => KnowledgeStep(s)' \/ OutOfSight(s, t, Mjs)'
         /\ KnowledgeStepPy(s) => KnowledgeStepPy(s)' \/ OutOfSight(s, t, Py)'
    /\ ScaffoldService(s) =>
         \/ KnowledgeStep(s)' /\ KnowledgeStepPy(s)'
         \/ \E t \in Term :
              /\ layer[t] # Unwritten
              /\ layer[t].owner \in {Checkout[s], Nobody} \/ layer[t].file = "unreadable"

(* The vocabulary is held to the code, however code, entries and layer     *)
(* move between services.                                                  *)
(* - Where the step passes, every term in the glossary that belongs to     *)
(*   the checkout's name, or to nobody, exists in its sources, wherever    *)
(*   the entry came from; and after shipped work there is a term or a      *)
(*   reason.                                                               *)
(* - The ports differ only over entries and sources that are not UTF-8 or  *)
(*   cannot be read.  Doctor and the step differ only where knowledge/ is  *)
(*   gone, an entry cannot be read, or a term belongs to another name.     *)
(* - A proposed term accepted as shown leaves a passing step passing,      *)
(*   unless it is a symbol outside what the port reads, against what       *)
(*   candidates.mjs:8 says.  A service scaffolded under a layer passes,    *)
(*   unless the layer hands it a term of its own, of nobody, or unreadable.*)
VocabularyIsHeld == []Held /\ [][NewEntriesHold]_knowledgeVars
=============================================================================
