-------------------------- MODULE RigelAcceptance --------------------------
(***************************************************************************)
(* How a feature is claimed to be complete.  A spec lists acceptance       *)
(* criteria; each has tests, which are a holdout: once proven red they are *)
(* not edited.  redgreen-record runs them on the unbuilt tree and records  *)
(* every criterion as red unless one of them passes; ac-vector runs them   *)
(* again later and grades every criterion PASS, FAIL, MISSING or INVALID.  *)
(* Both learn the outcome of a run from a report file the runner writes, if *)
(* it gets that far.  The Next.js template removes the previous report     *)
(* first; the Express and NestJS templates do not, so a runner that dies   *)
(* leaves it in place.  A suite that does not load reports nothing of its  *)
(* criteria.                                                               *)
(***************************************************************************)
EXTENDS FiniteSets, Naturals

CONSTANTS AC,            \* acceptance criteria a spec may list
          ClearsReport,  \* the previous report is removed before a run
          MaxEdits       \* bound on what the developer does

ASSUME ClearsReportAssumption == ClearsReport \in BOOLEAN
ASSUME MaxEditsAssumption == MaxEdits \in Nat

VARIABLES
  spec,      \* the criteria the active spec lists
  tests,     \* tests[ac]: the kinds of tests titled with ac
  loading,   \* criteria whose suite loads
  built,     \* criteria the code meets
  works,     \* the test runner gets as far as writing its report
  report,    \* .rigel/.jest-SPEC.json
  redgreen,  \* the criteria in .rigel/redgreen/SPEC.json
  vector,    \* .rigel/ac-results/SPEC.json
  job,       \* the script that is running
  accepted,  \* ac-vector last exited 0, and nothing has changed since
  raced,     \* something changed since the running script started jest
  fresh,     \* the report, if there is one, was written by the latest run
  blind,     \* some criterion was recorded red without being seen to fail
  proven,    \* every criterion ever recorded red
  edits

treeVars == <<spec, tests, loading, built, works>>
recordVars == <<report, redgreen, vector>>
historyVars == <<accepted, raced, fresh, blind, proven>>
vars == <<treeVars, recordVars, job, historyVars, edits>>

\* A test either fails until its criterion is met, or passes whatever the
\* code does.
Kind == {"real", "hollow"}
Outcome == {"passed", "failed", "absent"}
Grade == {"none", "PASS", "FAIL", "MISSING", "INVALID"}

NoJob == [script |-> "none", acs |-> {}, titled |-> {}, red |-> {}]
Script == {"none", "redgreen-record", "ac-vector"}

TypeOK ==
  /\ spec \subseteq AC /\ loading \subseteq AC /\ built \subseteq AC
  /\ redgreen \subseteq AC /\ proven \subseteq AC
  /\ tests \in [AC -> SUBSET Kind]
  /\ report \in [AC -> Outcome] /\ vector \in [AC -> Grade]
  /\ job \in [script : Script, acs : SUBSET AC, titled : SUBSET AC, red : SUBSET AC]
  /\ works \in BOOLEAN /\ accepted \in BOOLEAN /\ raced \in BOOLEAN
  /\ fresh \in BOOLEAN /\ blind \in BOOLEAN
  /\ edits \in Nat

NoReport == [ac \in AC |-> "absent"]

Titled == {ac \in AC : tests[ac] # {}}

\* A spec was written, and tests for it, before anything is built.
Init ==
  /\ spec \in SUBSET AC /\ tests \in [AC -> SUBSET Kind] /\ spec \subseteq Titled
  /\ loading \in SUBSET AC /\ built = {} /\ works \in BOOLEAN
  /\ report = NoReport
  /\ redgreen = {} /\ vector = [ac \in AC |-> "none"]
  /\ job = NoJob
  /\ accepted = FALSE /\ raced = FALSE /\ fresh = FALSE /\ blind = FALSE
  /\ proven = {} /\ edits = 0

-----------------------------------------------------------------------------
(* The developer, or the agent. *)

Changes ==
  /\ edits < MaxEdits /\ edits' = edits + 1
  /\ accepted' = FALSE /\ raced' = TRUE
  /\ UNCHANGED <<recordVars, job, fresh, blind, proven>>

\* /write-spec opens the hold-out for criteria without a red proof, and waits
\* for redgreen-record.
WriteTests(ac, kinds) ==
  /\ Changes /\ ac \notin redgreen /\ job.script # "redgreen-record"
  /\ kinds # tests[ac]
  /\ tests' = [tests EXCEPT ![ac] = kinds]
  /\ UNCHANGED <<spec, loading, built, works>>

\* A criterion is met, or broken again.
ChangeCode(acs) ==
  /\ Changes /\ acs # built /\ built' = acs
  /\ UNCHANGED <<spec, tests, loading, works>>

\* Code a suite imports comes into being, or goes.
ChangeLoading(acs) ==
  /\ Changes /\ acs # loading /\ loading' = acs
  /\ UNCHANGED <<spec, tests, built, works>>

GrowSpec(ac) ==
  /\ Changes /\ ac \notin spec /\ spec' = spec \cup {ac}
  /\ UNCHANGED <<tests, loading, built, works>>

\* Dependencies, configuration or memory of the test runner.
ChangeRunner ==
  /\ Changes /\ works' = ~works
  /\ UNCHANGED <<spec, tests, loading, built>>

-----------------------------------------------------------------------------
(* runAcceptanceTests. *)

\* A single passing test is enough to mark the criterion passed.
Passes(ac) == "hollow" \in tests[ac] \/ ("real" \in tests[ac] /\ ac \in built)

OutcomeOf(ac) ==
  CASE ac \notin loading \cap Titled -> "absent"
    [] ac \in loading \cap Titled -> IF Passes(ac) THEN "passed" ELSE "failed"

\* The report on disk once the runner has exited.
RunAcceptanceTests ==
  /\ report' = CASE works -> [ac \in AC |-> OutcomeOf(ac)]
                 [] ~works /\ ClearsReport -> NoReport
                 [] ~works /\ ~ClearsReport -> report
  /\ fresh' = (works \/ ClearsReport) /\ raced' = FALSE

-----------------------------------------------------------------------------
(* redgreen-record. *)

StartRed ==
  /\ job = NoJob /\ spec # {} /\ spec \subseteq Titled
  /\ job' = [NoJob EXCEPT !.script = "redgreen-record", !.acs = spec]
  /\ RunAcceptanceTests
  /\ UNCHANGED <<treeVars, redgreen, vector, accepted, blind, proven, edits>>

PassedEarly == {ac \in job.acs : report[ac] = "passed"}

(* Mutant: the proof is recorded whatever the tests did. *)
RecordRedAlways ==
  /\ job.script = "redgreen-record"
  /\ redgreen' = job.acs /\ proven' = proven \cup job.acs
  /\ blind' = (blind \/ ~fresh \/ \E ac \in job.acs : report[ac] = "absent")
  /\ job' = NoJob
  /\ UNCHANGED <<treeVars, report, vector, accepted, raced, fresh, edits>>

RecordRed ==
  /\ job.script = "redgreen-record" /\ PassedEarly = {}
  /\ redgreen' = job.acs /\ proven' = proven \cup job.acs
  /\ blind' = (blind \/ ~fresh \/ \E ac \in job.acs : report[ac] = "absent")
  /\ job' = NoJob
  /\ UNCHANGED <<treeVars, report, vector, accepted, raced, fresh, edits>>

(* Mutant: a refused proof withdraws the one that was recorded before. *)
RefuseRedAndForget ==
  /\ job.script = "redgreen-record" /\ PassedEarly # {}
  /\ redgreen' = {} /\ job' = NoJob
  /\ UNCHANGED <<treeVars, report, vector, historyVars, edits>>

RefuseRed ==
  /\ job.script = "redgreen-record" /\ PassedEarly # {}
  /\ job' = NoJob
  /\ UNCHANGED <<treeVars, recordVars, historyVars, edits>>

-----------------------------------------------------------------------------
(* ac-vector. *)

\* Titles and the red proof are read before jest is run.
StartVector ==
  /\ job = NoJob /\ spec # {}
  /\ job' = [script |-> "ac-vector", acs |-> spec, titled |-> Titled, red |-> redgreen]
  /\ RunAcceptanceTests
  /\ UNCHANGED <<treeVars, redgreen, vector, accepted, blind, proven, edits>>

(* Mutant: the outcome of the run stands in for the grade. *)
GradeIsOutcome(ac) == IF ac \in job.titled \cap job.red THEN report[ac] ELSE "INVALID"

(* Mutant: a passing test needs no red proof. *)
GradeUnproven(ac) ==
  CASE ac \notin job.titled -> "MISSING"
    [] ac \in job.titled /\ report[ac] = "passed" -> "PASS"
    [] ac \in job.titled /\ report[ac] # "passed" -> "FAIL"

GradeOf(ac) ==
  CASE ac \notin job.titled -> "MISSING"
    [] ac \in job.titled \ job.red -> "INVALID"
    [] ac \in job.titled \cap job.red ->
         IF report[ac] = "passed" THEN "PASS" ELSE "FAIL"

WriteVector ==
  /\ job.script = "ac-vector"
  /\ vector' = [ac \in AC |-> IF ac \in job.acs THEN GradeOf(ac) ELSE "none"]
  /\ accepted' = (~raced /\ \A ac \in job.acs : GradeOf(ac) = "PASS")
  /\ job' = NoJob
  /\ UNCHANGED <<treeVars, report, redgreen, raced, fresh, blind, proven, edits>>

Next ==
  \/ \E ac \in AC, kinds \in SUBSET Kind : WriteTests(ac, kinds)
  \/ \E acs \in SUBSET AC : ChangeCode(acs) \/ ChangeLoading(acs)
  \/ \E ac \in AC : GrowSpec(ac)
  \/ ChangeRunner
  \/ StartRed \/ RecordRed \/ RefuseRed
  \/ StartVector \/ WriteVector

Spec == Init /\ [][Next]_vars

\* The scripts that are started finish, and somebody grades now and then.
FairSpec ==
  /\ Spec
  /\ WF_vars(RecordRed \/ RefuseRed) /\ WF_vars(WriteVector)
  /\ SF_vars(StartVector)

-----------------------------------------------------------------------------
(* What must hold. *)

(* What the scripts hold on to between two of their steps, and from one    *)
(* script to the next.                                                     *)

\* What is recorded or about to be recorded red covers what was, and a grade
\* of PASS never precedes the proof.
RecordsAgree ==
  /\ redgreen \subseteq spec
  /\ job.script = "redgreen-record" => redgreen \subseteq job.acs /\ job.acs \subseteq spec
  /\ job.script = "ac-vector" => job.red = redgreen
  /\ \A ac \in AC : vector[ac] = "PASS" => ac \in redgreen

\* A criterion seen to fail has no hollow test, and gets none.
RedIsReal ==
  /\ job.script = "redgreen-record" /\ fresh =>
       \A ac \in AC : report[ac] = "failed" => "hollow" \notin tests[ac]
  /\ ~blind => \A ac \in redgreen : "hollow" \notin tests[ac]

\* While nothing changes, the grading script looks at the tree as it is.
GradingIsCurrent ==
  job.script = "ac-vector" /\ ~raced =>
    /\ job.acs = spec
    /\ fresh = (works \/ ClearsReport)
    /\ fresh => \A ac \in AC : report[ac] = "passed" => Passes(ac)

(* As long as the red proofs were made by tests that were seen to fail,    *)
(* and the grading by a run that wrote its report, a feature ac-vector     *)
(* accepts is built: no hollow test, no criterion without a proof and no   *)
(* order of grading, proving and editing gets an unmet criterion through.  *)
AcceptedIsBuilt == (accepted /\ fresh /\ ~blind) => spec \subseteq built

(* The strengthening of AcceptedIsBuilt that every step preserves: a grade *)
(* is built on a report, a red record and a hold-out that agree, and stays *)
(* so until the developer changes something.                               *)
AcceptanceInv ==
  /\ RecordsAgree
  /\ RedIsReal
  /\ GradingIsCurrent
  /\ accepted => fresh = (works \/ ClearsReport)
  /\ AcceptedIsBuilt

(* Where the red record and the grades meet: a criterion that is listed    *)
(* and proven stays proven, whatever redgreen-record does to the record    *)
(* later, and a grade of PASS is never given to one that was not.          *)
ProofsAreKept ==
  [][/\ redgreen \subseteq redgreen'
     /\ \A ac \in AC : vector'[ac] = "PASS" => ac \in redgreen]_vars

(* Work that was proven red and is then built is accepted in the end, and  *)
(* stays accepted, however often the scripts were run on half-built trees  *)
(* or half-written specs before.                                           *)
ProvenWorkIsAccepted ==
  <>[](/\ spec # {} /\ spec \subseteq proven \cap built \cap loading
       /\ works /\ \A ac \in spec : "real" \in tests[ac])
  => <>[]accepted

(* redgreen-record: "It runs those tests and requires every one to FAIL".  *)
(* A criterion is recorded red only once its tests were seen to fail, so   *)
(* what ac-vector accepts is built.                                        *)
RedMeansFailed == (accepted /\ fresh) => spec \subseteq built
=============================================================================
