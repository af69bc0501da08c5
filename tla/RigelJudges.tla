----------------------------- MODULE RigelJudges -----------------------------
(***************************************************************************)
(* Who may trust a judge.  Labels are collected for one judge dimension,   *)
(* agreement beyond chance is computed from them, and judge-config.json    *)
(* may let the dimension block only with a recent report that found it     *)
(* eligible.  A grader moves to a cheaper model by the same measure.       *)
(* Ratios are compared by multiplying out.                                 *)
(***************************************************************************)
EXTENDS Integers

CONSTANTS Matrices,   \* bound: agreement matrices somebody collects
          NoReport,       \* no report, no second rater
          LastMonth   \* bound on the calendar

\* How often two raters said PASS or FAIL: pf counts the items the first
\* passed and the second failed.
Matrix == [pp : Nat, pf : Nat, fp : Nat, ff : Nat]

ASSUME MatricesAssumption == Matrices \subseteq Matrix
ASSUME LastMonthAssumption == LastMonth \in Nat

VARIABLES
  calibration,  \* the newest calibration report, or NoReport
  mode,         \* of the dimension in judge-config.json
  cites,        \* the report its entry cites, or NoReport
  month,        \* the calendar, in months
  ci,           \* the last promotion check, since config or calendar changed
  parity        \* the last comparison of a cheaper grader with the champion

judgeVars == <<calibration, mode, cites, month, ci, parity>>

Items(m) == m.pp + m.pf + m.fp + m.ff
Agreed(m) == m.pp + m.ff

\* The agreement expected by chance, times the square of the items.
Chance(m) == (m.pp + m.pf) * (m.pp + m.fp) + (m.fp + m.ff) * (m.pf + m.ff)

\* Nothing to rate, or both raters used one and the same label.
Degenerate(m) == Items(m) * Items(m) = Chance(m)

(* Mutant: plain agreement, chance forgotten. *)
AgreementAtLeast(m, num, den) == den * Agreed(m) >= num * Items(m)

\* kappa >= num / den, where kappa = (po - pe) / (1 - pe); a degenerate kappa
\* is 1.
KappaAtLeast(m, num, den) ==
  den * (Agreed(m) * Items(m) - Chance(m)) >= num * (Items(m) * Items(m) - Chance(m))

\* A calibration set: method, severity, the judge against the reference, and
\* the reference against a second human who rated every item.
Eligible(set) ==
  /\ ~Degenerate(set.judged)
  /\ KappaAtLeast(set.judged, IF set.severity = "blocker" THEN 4 ELSE 3, 5)
  /\ set.method = "human" => set.second # NoReport /\ KappaAtLeast(set.second, 2, 5)

\* Both raters used both labels.
Discriminates(m) ==
  /\ m.pp + m.pf > 0 /\ m.fp + m.ff > 0 /\ m.pp + m.fp > 0 /\ m.pf + m.ff > 0

Calibrate(set) ==
  [eligible |-> Eligible(set),
   discriminates |-> Discriminates(set.judged)
                     /\ (set.method = "human" => set.second # NoReport /\ Discriminates(set.second))]

CalibrationSet ==
  {set \in [method : {"bootstrap", "human"}, severity : {"normal", "blocker"},
            judged : Matrices, second : Matrices \cup {NoReport}] :
     set.second # NoReport => /\ set.second.pp + set.second.pf = set.judged.pp + set.judged.fp
                          /\ set.second.fp + set.second.ff = set.judged.pf + set.judged.ff}

Calibrations == {Calibrate(set) : set \in CalibrationSet}

MaxAge == 3   \* 90 days

CheckPromotion ==
  mode = "blocking" =>
    cites # NoReport /\ month - cites.generatedAt <= MaxAge /\ cites.eligible

\* A cheaper grader is adopted for agreement beyond chance, and never over a
\* disagreement about a blocker.
AdoptCheaper(m, blockerDisagreements) ==
  ~Degenerate(m) /\ KappaAtLeast(m, 4, 5) /\ blockerDisagreements = 0

-----------------------------------------------------------------------------
JudgeInit ==
  /\ calibration = NoReport /\ mode = "advisory" /\ cites = NoReport
  /\ month = 0 /\ ci = "not run" /\ parity = NoReport

\* calibrate.mjs, over a set whose labels may have been collected earlier.
RunCalibration(found, on) ==
  /\ calibration' = [generatedAt |-> on, eligible |-> found.eligible,
                      discriminates |-> found.discriminates]
  /\ UNCHANGED <<mode, cites, month, ci, parity>>

\* judge-config.json is edited by hand.
EditConfig(newMode, report) ==
  /\ mode' = newMode /\ cites' = report /\ ci' = "not run"
  /\ UNCHANGED <<calibration, month, parity>>

NextMonth ==
  /\ month < LastMonth /\ month' = month + 1 /\ ci' = "not run"
  /\ UNCHANGED <<calibration, mode, cites, parity>>

RunPromotionCheck ==
  /\ ci' = IF CheckPromotion THEN "OK" ELSE "FAILED"
  /\ UNCHANGED <<calibration, mode, cites, month, parity>>

\* parity.mjs, over the verdicts of both graders.
RunParity(m, blockers) ==
  /\ parity' = [adopt |-> AdoptCheaper(m, blockers), blockers |-> blockers,
                discriminates |-> Discriminates(m)]
  /\ UNCHANGED <<calibration, mode, cites, month, ci>>

JudgeNext ==
  \/ \E found \in Calibrations, on \in 0..month : RunCalibration(found, on)
  \/ \E newMode \in {"advisory", "blocking"}, report \in {NoReport, calibration} :
       EditConfig(newMode, report)
  \/ NextMonth \/ RunPromotionCheck
  \/ \E m \in Matrices : \E blockers \in 0..(m.pf + m.fp) : RunParity(m, blockers)

JudgeSpec == JudgeInit /\ [][JudgeNext]_judgeVars

-----------------------------------------------------------------------------
Report == [generatedAt : 0..LastMonth, eligible : BOOLEAN, discriminates : BOOLEAN]

JudgeTypeOK ==
  /\ calibration = NoReport \/ calibration \in Report
  /\ cites = NoReport \/ cites \in Report
  /\ mode \in {"advisory", "blocking"} /\ month \in 0..LastMonth
  /\ ci \in {"not run", "OK", "FAILED"}
  /\ parity = NoReport \/ parity \in [adopt : BOOLEAN, blockers : Nat, discriminates : BOOLEAN]

(* Trust is earned on both labels.  When the promotion check passes, a      *)
(* blocking judge rests on labels of the last 90 days in which it, the     *)
(* reference and, where humans are the reference, a second human each said *)
(* both PASS and FAIL, and so did a cheaper grader and the one it replaces: *)
(* whoever always answers the same earns nothing, however often it agrees. *)
TrustIsEarned ==
  /\ ci = "OK" /\ mode = "blocking" =>
       cites # NoReport /\ cites.discriminates /\ month <= cites.generatedAt + 3
  /\ parity # NoReport /\ parity.adopt => parity.discriminates /\ parity.blockers = 0
=============================================================================
