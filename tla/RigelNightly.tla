---------------------------- MODULE RigelNightly ----------------------------
(***************************************************************************)
(* The golden nightly for one golden spec.  An admitted spec is built k    *)
(* times by an agent, each trial is graded by the template's own gate and  *)
(* acceptance vector and written to trial-<i>.json in a directory named    *)
(* after the harness commit; the directory is scored, compared with the    *)
(* committed baseline, and replicated worsening is flagged for a human.    *)
(* Specs share nothing, so one stands for all.                             *)
(***************************************************************************)
EXTENDS FiniteSets, Naturals

CONSTANTS Ac,      \* acceptance criteria of the golden spec
          K,       \* values of --k an operator passes
          NoFile,  \* no file
          MaxNights, MaxCommits   \* bounds

Gate == "gate"
Check == Ac \cup {Gate}

ASSUME KAssumption == K \subseteq Nat \ {0}
ASSUME AcAssumption == Gate \notin Ac
ASSUME NightlyBoundsAssumption == MaxNights \in Nat /\ MaxCommits \in Nat

VARIABLES
  reference,  \* what load-golden finds beside the spec: a reference that gates green, or not
  dir,        \* dir[i]: trial-<i>.json under evals/trials/<spec>-<commit>
  baseline,   \* the checks that passed^k in the committed scorecard, or NoFile
  night,      \* golden-nightly and the run-trial below it
  report,     \* the report of the last night, or NoFile
  nights, commits,
  trusted     \* checks of the baseline that was set first or by a human

trialVars == <<reference, dir, baseline>>
nightlyVars == <<trialVars, night, report, nights, commits, trusted>>

\* A trial: its status, and a verdict for each check it was graded on.
Verdicts == UNION {[D -> {"PASS", "FAIL"}] : D \in SUBSET Check}
Trial == [status : {"COMPLETE", "ERRORED"}, checks : Verdicts]
Dir == UNION {[D -> Trial] : D \in SUBSET UNION {1..k : k \in K}}

Idle == [phase |-> "idle", k |-> 0, next |-> 1]

NightlyTypeOK ==
  /\ reference \in {"not green", "green"}
  /\ dir \in Dir /\ baseline \in (SUBSET Check) \cup {NoFile}
  /\ night \in [phase : {"idle", "listed", "trials"}, k : K \cup {0}, next : Nat]
  /\ report = NoFile
     \/ report \in [k : Nat, flagged : SUBSET Check, green : BOOLEAN,
                    passed : SUBSET Check, failed : [Check -> Nat], trusted : SUBSET Check]
  /\ nights \in 0..MaxNights /\ commits \in 0..MaxCommits
  /\ trusted \in SUBSET Check

NightlyInit ==
  /\ reference = "green" /\ dir = << >> /\ baseline = NoFile
  /\ night = Idle /\ report = NoFile /\ nights = 0 /\ commits = 0
  /\ trusted = {}

-----------------------------------------------------------------------------
(* One trial. *)

\* No green reference, no entry.
Admitted == reference = "green"

\* What the gate and .rigel/ac-results say: a vector has every criterion, and
\* without a file the trial is graded on the gate alone.
ChecksFromAcResults == [{Gate} -> {"PASS", "FAIL"}] \cup [Check -> {"PASS", "FAIL"}]

\* A crash, a timeout or a scaffold that fails leaves no checks; a breached
\* budget is graded, and ERRORED all the same.
RunOneTrial ==
  {[status |-> "ERRORED", checks |-> << >>]}
  \cup [status : {"COMPLETE", "ERRORED"}, checks : ChecksFromAcResults]

-----------------------------------------------------------------------------
(* score.mjs and regress.mjs, over the trials found in a directory. *)

(* Mutant: whatever a trial was graded, it counts. *)
CountsErrored(t, c, v) == c \in DOMAIN t.checks /\ t.checks[c] = v

Counts(t, c, v) ==
  t.status = "COMPLETE" /\ c \in DOMAIN t.checks /\ t.checks[c] = v

AllCheckIds(ts) == UNION {DOMAIN ts[i].checks : i \in DOMAIN ts}

Tally(ts, c, v) == Cardinality({i \in DOMAIN ts : Counts(ts[i], c, v)})

PassK(ts, c) == Tally(ts, c, "PASS") > 0 /\ Tally(ts, c, "FAIL") = 0

NoData(ts, c) == Tally(ts, c, "PASS") + Tally(ts, c, "FAIL") = 0

\* Math.ceil((2 / 3) * k)
MinFailures(k) == (2 * k + 2) \div 3

DetectRegressions(ts, base) ==
  IF base = NoFile THEN {}
  ELSE {c \in AllCheckIds(ts) : Tally(ts, c, "FAIL") >= MinFailures(Cardinality(DOMAIN ts))
                                /\ c \in base}

(* Mutant: the checks of the last trial decide. *)
GreenOfLast(ts) ==
  \A i \in DOMAIN ts : (\A j \in DOMAIN ts : j <= i) =>
     \A c \in DOMAIN ts[i].checks : ts[i].checks[c] = "PASS"

Green(ts) == \A c \in AllCheckIds(ts) : NoData(ts, c) \/ PassK(ts, c)

-----------------------------------------------------------------------------
(* golden-nightly and run-trial. *)

StartNight(k) ==
  /\ night.phase = "idle" /\ nights < MaxNights /\ Admitted
  /\ night' = [phase |-> "listed", k |-> k, next |-> 1]
  /\ nights' = nights + 1 /\ report' = NoFile
  /\ UNCHANGED <<trialVars, commits, trusted>>

\* run-trial loads the golden set again; refused, it takes the night with it.
StartTrials ==
  /\ night.phase = "listed"
  /\ night' = IF Admitted THEN [night EXCEPT !.phase = "trials"] ELSE Idle
  /\ UNCHANGED <<trialVars, report, nights, commits, trusted>>

RunTrial(t) ==
  /\ night.phase = "trials" /\ night.next <= night.k
  /\ dir' = [i \in DOMAIN dir \cup {night.next} |-> IF i = night.next THEN t ELSE dir[i]]
  /\ night' = [night EXCEPT !.next = @ + 1]
  /\ UNCHANGED <<reference, baseline, report, nights, commits, trusted>>

(* Mutant: the baseline follows every night. *)
SetBaselineAlways(ts, base) == {c \in AllCheckIds(ts) : PassK(ts, c)}

\* The first scorecard becomes the baseline; later ones never do.
SetBaseline(ts, base) ==
  IF base = NoFile THEN {c \in AllCheckIds(ts) : PassK(ts, c)} ELSE base

\* What the trials show, whatever a score makes of them.
FailedIn(c) == {i \in DOMAIN dir : /\ dir[i].status = "COMPLETE"
                                   /\ c \in DOMAIN dir[i].checks /\ dir[i].checks[c] = "FAIL"}

ScoreAndReport ==
  /\ DOMAIN dir # {}
  /\ baseline' = SetBaseline(dir, baseline)
  /\ trusted' = IF baseline = NoFile THEN {c \in Check : PassK(dir, c)} ELSE trusted
  /\ report' = [k |-> Cardinality(DOMAIN dir), flagged |-> DetectRegressions(dir, baseline),
                green |-> Green(dir), passed |-> {c \in Check : PassK(dir, c)},
                failed |-> [c \in Check |-> Cardinality(FailedIn(c))],
                trusted |-> IF baseline = NoFile THEN {} ELSE trusted]
  /\ night' = Idle
  /\ UNCHANGED <<reference, dir, nights, commits>>

FinishNight ==
  night.phase = "trials" /\ night.next > night.k /\ ScoreAndReport

\* --score-only, over whatever the directory holds.
ScoreOnly ==
  /\ night.phase = "idle" /\ Admitted
  /\ ScoreAndReport

\* The machine sleeps, the run is cancelled.
NightDies ==
  /\ night.phase # "idle" /\ night' = Idle
  /\ UNCHANGED <<trialVars, report, nights, commits, trusted>>

-----------------------------------------------------------------------------
(* The people around it. *)

Regrade(grade) ==
  /\ grade # reference /\ reference' = grade
  /\ UNCHANGED <<dir, baseline, night, report, nights, commits, trusted>>

\* Another harness commit names another directory.
NewCommit ==
  /\ night.phase = "idle" /\ commits < MaxCommits /\ commits' = commits + 1
  /\ dir' = << >>
  /\ UNCHANGED <<reference, baseline, night, report, nights, trusted>>

\* A deliberate, human-reviewed commit of the scorecard just reported.
AcceptBaseline ==
  /\ night.phase = "idle" /\ report # NoFile
  /\ baseline' = report.passed /\ trusted' = report.passed
  /\ UNCHANGED <<reference, dir, night, report, nights, commits>>

NightlyNext ==
  \/ \E k \in K : StartNight(k)
  \/ StartTrials \/ FinishNight \/ ScoreOnly \/ NightDies \/ NewCommit \/ AcceptBaseline
  \/ \E t \in RunOneTrial : RunTrial(t)
  \/ \E grade \in {"not green", "green"} : Regrade(grade)

NightlySpec == NightlyInit /\ [][NightlyNext]_nightlyVars

-----------------------------------------------------------------------------
(* An alarm is about replicated failures: of two thirds of the trials, all *)
(* of which an agent finished within its budget, and of more than one of   *)
(* them unless the operator asked for one.                                 *)
AlarmIsReplicated ==
  report # NoFile => \A c \in report.flagged :
    3 * report.failed[c] >= 2 * report.k /\ (report.k > 1 => report.failed[c] > 1)

(* The alarm keeps ringing: what a human, or the first run, established as *)
(* passing is flagged every night it fails, however many nights that is.   *)
AlarmKeepsRinging ==
  report # NoFile => \A c \in report.trusted :
    report.failed[c] = report.k => c \in report.flagged

(* A green spec has no finished trial that failed a check; a flagged check *)
(* is never green.                                                         *)
GreenIsEarned ==
  report # NoFile /\ report.green =>
    report.flagged = {} /\ \A c \in Check : report.failed[c] = 0
=============================================================================
