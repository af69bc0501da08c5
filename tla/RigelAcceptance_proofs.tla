----------------------- MODULE RigelAcceptance_proofs -----------------------
(***************************************************************************)
(* For any acceptance criteria, either way the templates treat the old     *)
(* report, and any number of edits: what ac-vector accepts on fresh        *)
(* reports and seen failures is built, and red proofs are kept.            *)
(***************************************************************************)
EXTENDS RigelAcceptance, TLAPS

(* Every outcome the runner's report can hold is one of the three. *)
LEMMA OutcomeType == \A ac \in AC : OutcomeOf(ac) \in Outcome
  BY DEF OutcomeOf, Outcome

(* A grade is one of those ac-vector prints. *)
LEMMA GradeType == \A ac \in AC : GradeOf(ac) \in Grade
  BY DEF GradeOf, Grade

(* Running the tests leaves a report, the old one, none or a new one. *)
LEMMA ReportType ==
  ASSUME report \in [AC -> Outcome], works \in BOOLEAN, RunAcceptanceTests
  PROVE  report' \in [AC -> Outcome]
<1>1. CASE works
  BY <1>1, OutcomeType DEF RunAcceptanceTests
<1>2. CASE ~works /\ ClearsReport
  BY <1>2 DEF RunAcceptanceTests, NoReport, Outcome
<1>3. CASE ~works /\ ~ClearsReport
  BY <1>3 DEF RunAcceptanceTests
<1> QED
  BY <1>1, <1>2, <1>3, ClearsReportAssumption

(* Specs, tests, reports, records and grades keep their shape whatever the *)
(* scripts and the developer do.                                           *)
THEOREM TypeCorrect == Spec => []TypeOK
<1>1. Init => TypeOK
  <2> SUFFICES ASSUME Init PROVE TypeOK
    OBVIOUS
  <2>1. report \in [AC -> Outcome] /\ vector \in [AC -> Grade]
    BY DEF Init, NoReport, Outcome, Grade
  <2>2. job \in [script : Script, acs : SUBSET AC, titled : SUBSET AC, red : SUBSET AC]
    BY DEF Init, NoJob, Script
  <2> QED
    BY <2>1, <2>2 DEF Init, TypeOK
<1>2. TypeOK /\ [Next]_vars => TypeOK'
  <2> SUFFICES ASSUME TypeOK, [Next]_vars PROVE TypeOK'
    OBVIOUS
  <2> USE DEF TypeOK
  <2> DEFINE TreeType == /\ spec \subseteq AC /\ loading \subseteq AC /\ built \subseteq AC
                         /\ tests \in [AC -> SUBSET Kind] /\ works \in BOOLEAN
  <2>0. ASSUME Changes, TreeType' PROVE TypeOK'
    <3>0. edits' = edits + 1 /\ accepted' = FALSE /\ raced' = TRUE
      BY <2>0 DEF Changes
    <3>1. edits' \in Nat
      BY <3>0
    <3>3. accepted' \in BOOLEAN /\ raced' \in BOOLEAN
      BY <3>0, Zenon
    <3>2. UNCHANGED <<report, redgreen, vector, job, fresh, blind, proven>>
      BY <2>0 DEF Changes, recordVars
    <3> QED
      BY <2>0, <3>1, <3>2, <3>3
  <2>1. CASE \E ac \in AC, kinds \in SUBSET Kind : WriteTests(ac, kinds)
    <3>1. PICK ac \in AC, kinds \in SUBSET Kind : WriteTests(ac, kinds)
      BY <2>1
    <3>2. TreeType'
      BY <3>1 DEF WriteTests
    <3> QED
      BY <2>0, <3>1, <3>2 DEF WriteTests
  <2>2. CASE \E acs \in SUBSET AC : ChangeCode(acs) \/ ChangeLoading(acs)
    <3>1. TreeType' /\ Changes
      BY <2>2 DEF ChangeCode, ChangeLoading
    <3> QED
      BY <2>0, <3>1
  <2>3. CASE \E ac \in AC : GrowSpec(ac)
    <3>1. TreeType' /\ Changes
      BY <2>3 DEF GrowSpec
    <3> QED
      BY <2>0, <3>1
  <2>4. CASE ChangeRunner
    <3>1. TreeType' /\ Changes
      BY <2>4 DEF ChangeRunner
    <3> QED
      BY <2>0, <3>1
  <2>5. CASE StartRed
    <3>1. report' \in [AC -> Outcome] /\ fresh' \in BOOLEAN /\ raced' \in BOOLEAN
      BY <2>5, ReportType, ClearsReportAssumption DEF StartRed, RunAcceptanceTests
    <3>2. job' \in [script : Script, acs : SUBSET AC, titled : SUBSET AC, red : SUBSET AC]
      BY <2>5 DEF StartRed, NoJob, Script
    <3> QED
      BY <2>5, <3>1, <3>2 DEF StartRed, treeVars
  <2>6. CASE RecordRed
    BY <2>6 DEF RecordRed, NoJob, Script, treeVars
  <2>7. CASE RefuseRed
    BY <2>7 DEF RefuseRed, NoJob, Script, treeVars, recordVars, historyVars
  <2>8. CASE StartVector
    <3>1. report' \in [AC -> Outcome] /\ fresh' \in BOOLEAN /\ raced' \in BOOLEAN
      BY <2>8, ReportType, ClearsReportAssumption DEF StartVector, RunAcceptanceTests
    <3>2. job' \in [script : Script, acs : SUBSET AC, titled : SUBSET AC, red : SUBSET AC]
      BY <2>8 DEF StartVector, Titled, Script
    <3> QED
      BY <2>8, <3>1, <3>2 DEF StartVector, treeVars
  <2>9. CASE WriteVector
    <3>1. vector' \in [AC -> Grade]
      BY <2>9, GradeType DEF WriteVector, Grade
    <3>2. accepted' \in BOOLEAN
      BY <2>9 DEF WriteVector
    <3> QED
      BY <2>9, <3>1, <3>2 DEF WriteVector, NoJob, Script, treeVars
  <2>10. CASE UNCHANGED vars
    BY <2>10 DEF vars, treeVars, recordVars, historyVars
  <2> QED
    BY <2>1, <2>2, <2>3, <2>4, <2>5, <2>6, <2>7, <2>8, <2>9, <2>10 DEF Next
<1> QED
  BY <1>1, <1>2, PTL DEF Spec

-----------------------------------------------------------------------------
(* AcceptanceInv is inductive. *)

LEMMA OutcomeFacts ==
  \A ac \in AC : /\ OutcomeOf(ac) = "failed" => "hollow" \notin tests[ac]
                 /\ OutcomeOf(ac) = "passed" => Passes(ac)
  BY DEF OutcomeOf, Passes

(* A report that is not left over tells what the tests do on this tree. *)
LEMMA ReportFacts ==
  ASSUME works \in BOOLEAN, RunAcceptanceTests
  PROVE  /\ fresh' = (works \/ ClearsReport)
         /\ ~raced'
         /\ fresh' => \A ac \in AC :
              /\ report'[ac] = "failed" => "hollow" \notin tests[ac]
              /\ report'[ac] = "passed" => Passes(ac)
<1>1. fresh' = (works \/ ClearsReport) /\ ~raced'
  BY DEF RunAcceptanceTests
<1>2. CASE works
  BY <1>1, <1>2, OutcomeFacts DEF RunAcceptanceTests
<1>3. CASE ~works /\ ClearsReport
  BY <1>1, <1>3 DEF RunAcceptanceTests, NoReport
<1>4. CASE ~works /\ ~ClearsReport
  BY <1>1, <1>4
<1> QED
  BY <1>1, <1>2, <1>3, <1>4, ClearsReportAssumption

LEMMA AcceptanceInit == Init => AcceptanceInv
  BY DEF Init, AcceptanceInv, RecordsAgree, RedIsReal, GradingIsCurrent,
         AcceptedIsBuilt, NoJob

(* What the developer changes withdraws the acceptance and leaves the      *)
(* records alone.                                                          *)
LEMMA ChangesKeep ==
  ASSUME TypeOK, AcceptanceInv, Changes, spec \subseteq spec',
         \A ac \in AC : tests'[ac] # tests[ac] =>
           ac \notin redgreen /\ job.script # "redgreen-record"
  PROVE  AcceptanceInv'
<1>1. /\ accepted' = FALSE /\ raced' = TRUE
      /\ UNCHANGED <<report, redgreen, vector, job, fresh, blind>>
  BY DEF Changes, recordVars
<1>2. RecordsAgree'
  BY <1>1 DEF AcceptanceInv, RecordsAgree
<1>3. RedIsReal'
  BY <1>1 DEF AcceptanceInv, RedIsReal, TypeOK
<1>4. GradingIsCurrent' /\ AcceptedIsBuilt'
  BY <1>1 DEF GradingIsCurrent, AcceptedIsBuilt
<1> QED
  BY <1>1, <1>2, <1>3, <1>4 DEF AcceptanceInv

LEMMA StartRedKeeps == TypeOK /\ AcceptanceInv /\ StartRed => AcceptanceInv'
<1> SUFFICES ASSUME TypeOK, AcceptanceInv, StartRed PROVE AcceptanceInv'
  OBVIOUS
<1>1. /\ job'.script = "redgreen-record" /\ job'.acs = spec
      /\ UNCHANGED <<spec, tests, built, works, redgreen, vector, accepted, blind>>
  BY DEF StartRed, NoJob, treeVars
<1>2. /\ fresh' = (works \/ ClearsReport)
      /\ fresh' => \A ac \in AC : report'[ac] = "failed" => "hollow" \notin tests[ac]
  BY ReportFacts DEF StartRed, TypeOK
<1>3. RecordsAgree'
  BY <1>1 DEF AcceptanceInv, RecordsAgree
<1>4. RedIsReal'
  BY <1>1, <1>2 DEF AcceptanceInv, RedIsReal
<1>5. GradingIsCurrent'
  BY <1>1 DEF GradingIsCurrent
<1>6. (accepted => fresh = (works \/ ClearsReport))'
  BY <1>1, <1>2
<1>7. AcceptedIsBuilt'
  BY <1>1, <1>2 DEF AcceptanceInv, AcceptedIsBuilt
<1> QED
  BY <1>3, <1>4, <1>5, <1>6, <1>7 DEF AcceptanceInv

LEMMA RecordRedKeeps == TypeOK /\ AcceptanceInv /\ RecordRed => AcceptanceInv'
<1> SUFFICES ASSUME TypeOK, AcceptanceInv, RecordRed PROVE AcceptanceInv'
  OBVIOUS
<1>1. /\ job.script = "redgreen-record" /\ job'.script = "none"
      /\ redgreen' = job.acs /\ PassedEarly = {}
      /\ UNCHANGED <<spec, tests, built, works, report, vector, accepted, fresh>>
  BY DEF RecordRed, NoJob, treeVars
<1>2. ~blind' => ~blind /\ fresh /\ \A ac \in job.acs : report[ac] # "absent"
  BY DEF RecordRed
<1>3. RecordsAgree'
  BY <1>1 DEF AcceptanceInv, RecordsAgree
<1>4. RedIsReal'
  <2>1. ASSUME ~blind', NEW ac \in job.acs PROVE "hollow" \notin tests[ac]
    <3>1. ac \in AC /\ report[ac] \in Outcome
      BY <2>1 DEF TypeOK
    <3>2. report[ac] = "failed"
      BY <1>1, <1>2, <2>1, <3>1 DEF PassedEarly, Outcome
    <3> QED
      BY <1>1, <1>2, <2>1, <3>1, <3>2 DEF AcceptanceInv, RedIsReal
  <2> QED
    BY <1>1, <2>1 DEF RedIsReal
<1>5. GradingIsCurrent'
  BY <1>1 DEF GradingIsCurrent
<1>6. (accepted => fresh = (works \/ ClearsReport))'
  BY <1>1 DEF AcceptanceInv
<1>7. AcceptedIsBuilt'
  BY <1>1, <1>2 DEF AcceptanceInv, AcceptedIsBuilt
<1> QED
  BY <1>3, <1>4, <1>5, <1>6, <1>7 DEF AcceptanceInv

LEMMA RefuseRedKeeps == AcceptanceInv /\ RefuseRed => AcceptanceInv'
<1> SUFFICES ASSUME AcceptanceInv, RefuseRed PROVE AcceptanceInv'
  OBVIOUS
<1>1. job'.script = "none" /\ UNCHANGED <<treeVars, recordVars, historyVars>>
  BY DEF RefuseRed, NoJob
<1> QED
  BY <1>1 DEF AcceptanceInv, RecordsAgree, RedIsReal, GradingIsCurrent,
              AcceptedIsBuilt, treeVars, recordVars, historyVars

LEMMA StartVectorKeeps == TypeOK /\ AcceptanceInv /\ StartVector => AcceptanceInv'
<1> SUFFICES ASSUME TypeOK, AcceptanceInv, StartVector PROVE AcceptanceInv'
  OBVIOUS
<1>1. /\ job'.script = "ac-vector" /\ job'.acs = spec /\ job'.red = redgreen
      /\ UNCHANGED <<spec, tests, built, works, redgreen, vector, accepted, blind>>
  BY DEF StartVector, treeVars
<1>2. /\ fresh' = (works \/ ClearsReport)
      /\ fresh' => \A ac \in AC : report'[ac] = "passed" => Passes(ac)
  BY ReportFacts DEF StartVector, TypeOK
<1>3. RecordsAgree'
  BY <1>1 DEF AcceptanceInv, RecordsAgree
<1>4. RedIsReal'
  BY <1>1 DEF AcceptanceInv, RedIsReal
<1>5. GradingIsCurrent'
  BY <1>1, <1>2 DEF GradingIsCurrent, Passes
<1>6. (accepted => fresh = (works \/ ClearsReport))'
  BY <1>1, <1>2
<1>7. AcceptedIsBuilt'
  BY <1>1, <1>2 DEF AcceptanceInv, AcceptedIsBuilt
<1> QED
  BY <1>3, <1>4, <1>5, <1>6, <1>7 DEF AcceptanceInv

LEMMA WriteVectorKeeps == TypeOK /\ AcceptanceInv /\ WriteVector => AcceptanceInv'
<1> SUFFICES ASSUME TypeOK, AcceptanceInv, WriteVector PROVE AcceptanceInv'
  OBVIOUS
<1>1. /\ job.script = "ac-vector" /\ job'.script = "none"
      /\ UNCHANGED <<spec, tests, built, works, report, redgreen, raced, fresh, blind>>
  BY DEF WriteVector, NoJob, treeVars
<1>2. \A ac \in AC : GradeOf(ac) = "PASS" => ac \in redgreen /\ report[ac] = "passed"
  BY <1>1 DEF GradeOf, AcceptanceInv, RecordsAgree
<1>3. RecordsAgree'
  <2>1. \A ac \in AC : vector'[ac] = "PASS" => ac \in redgreen
    BY <1>2 DEF WriteVector
  <2> QED
    BY <1>1, <2>1 DEF AcceptanceInv, RecordsAgree
<1>4. RedIsReal'
  BY <1>1 DEF AcceptanceInv, RedIsReal
<1>5. GradingIsCurrent'
  BY <1>1 DEF GradingIsCurrent
<1>6. (accepted => fresh = (works \/ ClearsReport))'
  BY <1>1 DEF WriteVector, AcceptanceInv, GradingIsCurrent
<1>7. AcceptedIsBuilt'
  <2> SUFFICES ASSUME accepted', fresh, ~blind, NEW ac \in spec PROVE ac \in built
    BY <1>1 DEF AcceptedIsBuilt
  <2>1. ac \in AC /\ job.acs = spec /\ GradeOf(ac) = "PASS"
    BY <1>1 DEF WriteVector, AcceptanceInv, GradingIsCurrent, TypeOK
  <2>2. ac \in redgreen /\ Passes(ac)
    BY <1>1, <1>2, <2>1 DEF WriteVector, AcceptanceInv, GradingIsCurrent
  <2> QED
    BY <2>2 DEF AcceptanceInv, RedIsReal, Passes
<1> QED
  BY <1>3, <1>4, <1>5, <1>6, <1>7 DEF AcceptanceInv

LEMMA AcceptanceStep == TypeOK /\ AcceptanceInv /\ [Next]_vars => AcceptanceInv'
<1> SUFFICES ASSUME TypeOK, AcceptanceInv, [Next]_vars PROVE AcceptanceInv'
  OBVIOUS
<1>1. CASE \E ac \in AC, kinds \in SUBSET Kind : WriteTests(ac, kinds)
  <2>1. PICK ac \in AC, kinds \in SUBSET Kind : WriteTests(ac, kinds)
    BY <1>1
  <2>2. Changes /\ spec' = spec /\ ac \notin redgreen /\ job.script # "redgreen-record"
    BY <2>1 DEF WriteTests
  <2>3. \A b \in AC : tests'[b] # tests[b] => b = ac
    BY <2>1 DEF WriteTests, TypeOK
  <2> QED
    BY <2>2, <2>3, ChangesKeep
<1>2. CASE \E acs \in SUBSET AC : ChangeCode(acs) \/ ChangeLoading(acs)
  <2>1. Changes /\ spec' = spec /\ tests' = tests
    BY <1>2 DEF ChangeCode, ChangeLoading
  <2> QED
    BY <2>1, ChangesKeep
<1>3. CASE \E ac \in AC : GrowSpec(ac)
  <2>1. Changes /\ spec \subseteq spec' /\ tests' = tests
    BY <1>3 DEF GrowSpec
  <2> QED
    BY <2>1, ChangesKeep
<1>4. CASE ChangeRunner
  <2>1. Changes /\ spec' = spec /\ tests' = tests
    BY <1>4 DEF ChangeRunner
  <2> QED
    BY <2>1, ChangesKeep
<1>5. CASE UNCHANGED vars
  BY <1>5 DEF vars, treeVars, recordVars, historyVars, AcceptanceInv, RecordsAgree,
              RedIsReal, GradingIsCurrent, AcceptedIsBuilt, Passes
<1> QED
  BY <1>1, <1>2, <1>3, <1>4, <1>5, StartRedKeeps, RecordRedKeeps, RefuseRedKeeps,
     StartVectorKeeps, WriteVectorKeeps DEF Next

(* Reports, records and hold-out agree at every step. *)
THEOREM AcceptanceHolds == Spec => []AcceptanceInv
<1> QED
  BY TypeCorrect, AcceptanceInit, AcceptanceStep, PTL DEF Spec

(* A feature accepted on a fresh report, whose red proofs were seen to     *)
(* fail, is built.                                                         *)
THEOREM AcceptedBuilt == Spec => []AcceptedIsBuilt
<1>1. AcceptanceInv => AcceptedIsBuilt
  BY DEF AcceptanceInv
<1> QED
  BY <1>1, AcceptanceHolds, PTL

(* A red proof is never withdrawn, and no PASS comes before it. *)
THEOREM ProofsKept == Spec => ProofsAreKept
<1> DEFINE Kept == /\ redgreen \subseteq redgreen'
                   /\ \A ac \in AC : vector'[ac] = "PASS" => ac \in redgreen
<1>1. ASSUME TypeOK, AcceptanceInv, Next PROVE Kept
  <2>1. CASE UNCHANGED <<redgreen, vector>>
    BY <1>1, <2>1 DEF AcceptanceInv, RecordsAgree
  <2>2. CASE RecordRed
    BY <1>1, <2>2 DEF RecordRed, AcceptanceInv, RecordsAgree
  <2>3. CASE WriteVector
    <3>1. redgreen' = redgreen /\ job.red = redgreen
      BY <1>1, <2>3 DEF WriteVector, AcceptanceInv, RecordsAgree
    <3>2. \A ac \in AC : GradeOf(ac) = "PASS" => ac \in redgreen
      BY <3>1 DEF GradeOf
    <3> QED
      BY <2>3, <3>1, <3>2 DEF WriteVector
  <2> QED
    BY <1>1, <2>1, <2>2, <2>3 DEF Next, WriteTests, ChangeCode, ChangeLoading, GrowSpec,
       ChangeRunner, Changes, StartRed, RefuseRed, StartVector, recordVars
<1>2. TypeOK /\ AcceptanceInv /\ [Next]_vars
      => [/\ redgreen \subseteq redgreen'
          /\ \A ac \in AC : vector'[ac] = "PASS" => ac \in redgreen]_vars
  BY <1>1
<1> QED
  BY <1>2, TypeCorrect, AcceptanceHolds, PTL DEF Spec, ProofsAreKept
=============================================================================
