------------------------------ MODULE RigelGate ------------------------------
(***************************************************************************)
(* The gate and what it remembers.  gate.mjs runs the chain of checks and  *)
(* stops at the first that fails; gate.sh, of the Python template, goes on *)
(* and fails at the end.  record-failure appends each failure to a log     *)
(* unless it is there for this commit.  One step of the chain,             *)
(* `debug:regression check`, reads that log back and fails while a         *)
(* signature that occurs twice has no regression test proven red, then     *)
(* green.  /curate may empty the log at the end of a plan; what it makes   *)
(* of it is RigelLessons.  Gates may overlap: a terminal's and an agent's. *)
(***************************************************************************)
EXTENDS FiniteSets, Naturals, Sequences

CONSTANTS Chain,       \* scripts["gate:chain"], as a sequence of steps
          Regression,  \* its step `debug:regression check`
          Gate,        \* gates that may run
          ClearsLog,   \* /curate empties the log it has read
          Tested,      \* bound: signatures somebody writes regression tests for
          MaxCommits, MaxPlans   \* bounds

Step == {Chain[i] : i \in 1..Len(Chain)}

ASSUME ChainAssumption == Chain # << >> /\ Regression \in Step
ASSUME TestedAssumption == Tested \subseteq Step
ASSUME ClearsLogAssumption == ClearsLog \in BOOLEAN
ASSUME BoundsAssumption == MaxCommits \in Nat \ {0} /\ MaxPlans \in Nat \ {0}

VARIABLES
  broken,     \* steps, other than Regression, that fail on the tree as it is
  tests,      \* tests[s]: the regression test written for signature s
  proof,      \* proof[s]: .rigel/regressions/<s>.json
  log,        \* .rigel/gate-failures.jsonl
  commit, plan,
  runner,     \* the gate the repository's template brought
  gate,       \* gate[g]: where g is in its run
  overlapped, \* the log was read or emptied while a gate was about to append
  rewritten   \* tests rewritten or deleted since they were recorded red

devVars == <<broken, tests, commit, plan, runner>>
recordVars == <<proof, log>>
historyVars == <<overlapped, rewritten>>
vars == <<devVars, recordVars, gate, historyVars>>

\* A regression test fails exactly while its step does, passes always, or does
\* not run: it does not load, or its file holds no test.
Kind == {"none", "real", "hollow", "unrunnable"}
Runner == {"gate.mjs", "gate.sh"}
Phase == {"idle", "step", "record", "append", "green"}

\* A line of the log.  Lines that say the same are told apart by who appended
\* them: no gate repeats itself, it would have found its own line.
Line == [signature : Step, commit : 1..MaxCommits, plan : 1..MaxPlans, by : Gate]

Idle == [phase |-> "idle", at |-> 1, commit |-> 1, plan |-> 1, failed |-> FALSE]

TypeOK ==
  /\ broken \subseteq Step \ {Regression}
  /\ tests \in [Step -> Kind] /\ proof \in [Step -> {"none", "red", "green"}]
  /\ log \subseteq Line
  /\ commit \in 1..MaxCommits /\ plan \in 1..MaxPlans /\ runner \in Runner
  /\ gate \in [Gate -> [phase : Phase, at : 1..Len(Chain), commit : 1..MaxCommits,
                        plan : 1..MaxPlans, failed : BOOLEAN]]
  /\ overlapped \in BOOLEAN /\ rewritten \subseteq Step

Init ==
  /\ broken \in SUBSET (Step \ {Regression})
  /\ tests = [s \in Step |-> "none"] /\ proof = [s \in Step |-> "none"]
  /\ log = {} /\ commit = 1 /\ plan = 1 /\ runner \in Runner
  /\ gate = [g \in Gate |-> Idle]
  /\ overlapped = FALSE /\ rewritten = {}

-----------------------------------------------------------------------------
(* debug-regression check. *)

LinesOf(s) == {l \in log : l.signature = s}

(* Mutant: one failure is enough. *)
RecurringAtOnce == {s \in Step : LinesOf(s) # {}}

\* THRESHOLD is 2.
Recurring == {s \in Step : \E l, m \in LinesOf(s) : l # m}

Pinned(s) == proof[s] = "green" /\ tests[s] # "none"

Owed == {s \in Recurring : ~Pinned(s)}

\* The port: not proven, or its test deleted.
OwedPy ==
  {s \in Recurring : proof[s] # "green"} \cup {s \in Recurring : proof[s] = "green" /\ tests[s] = "none"}

StepFails(s) ==
  IF s = Regression THEN IF runner = "gate.sh" THEN OwedPy # {} ELSE Owed # {} ELSE s \in broken

-----------------------------------------------------------------------------
(* gate.mjs or gate.sh, and record-failure. *)

StartGate(g) ==
  /\ gate[g].phase \in {"idle", "green"}
  /\ gate' = [gate EXCEPT ![g] = [Idle EXCEPT !.phase = "step"]]
  /\ UNCHANGED <<devVars, recordVars, historyVars>>

(* Mutant: the chain is one step longer than it is. *)
PassStepPastEnd(g) ==
  /\ gate[g].phase = "step" /\ ~StepFails(Chain[gate[g].at])
  /\ gate' = [gate EXCEPT ![g].at = @ + 1]
  /\ UNCHANGED <<devVars, recordVars, historyVars>>

PassStep(g) ==
  /\ gate[g].phase = "step" /\ ~StepFails(Chain[gate[g].at])
  /\ gate' = [gate EXCEPT ![g] =
       IF gate[g].at < Len(Chain) THEN [gate[g] EXCEPT !.at = gate[g].at + 1]
       ELSE IF gate[g].failed THEN Idle ELSE [gate[g] EXCEPT !.phase = "green"]]
  /\ UNCHANGED <<devVars, recordVars, historyVars>>

FailStep(g) ==
  /\ gate[g].phase = "step" /\ StepFails(Chain[gate[g].at])
  /\ gate' = [gate EXCEPT ![g].phase = "record", ![g].failed = TRUE]
  /\ UNCHANGED <<devVars, recordVars, historyVars>>

(* Mutant: no look at the log before the append. *)
NeverKnown(s, c) == FALSE

\* `dup`: the signature is in the log for this commit.
Known(s, c) == \E l \in LinesOf(s) : l.commit = c

\* Once a failure is dealt with, gate.mjs exits with its code; gate.sh runs
\* what is left of the chain.
After(g) ==
  IF runner = "gate.sh" /\ gate[g].at < Len(Chain)
  THEN [Idle EXCEPT !.phase = "step", !.at = gate[g].at + 1, !.failed = TRUE]
  ELSE Idle

\* record-failure looks up the plan (the port: not yet) and HEAD, reads the log ...
ReadLog(g) ==
  /\ gate[g].phase = "record"
  /\ gate' = [gate EXCEPT ![g] =
       IF Known(Chain[gate[g].at], commit) THEN After(g)
       ELSE [gate[g] EXCEPT !.phase = "append", !.commit = commit,
                            !.plan = IF runner = "gate.mjs" THEN plan ELSE gate[g].plan]]
  /\ overlapped' = (overlapped \/ \E h \in Gate \ {g} : gate[h].phase = "append")
  /\ UNCHANGED <<devVars, recordVars, rewritten>>

\* ... and appends its line; the port looks the plan up now.
AppendTo(g, p) ==
  /\ gate[g].phase = "append"
  /\ log' = log \cup {[signature |-> Chain[gate[g].at], commit |-> gate[g].commit,
                       plan |-> p, by |-> g]}
  /\ gate' = [gate EXCEPT ![g] = After(g)]
  /\ UNCHANGED <<devVars, proof, overlapped, rewritten>>

AppendLine(g) == runner = "gate.mjs" /\ AppendTo(g, gate[g].plan)
AppendLinePy(g) == runner = "gate.sh" /\ AppendTo(g, plan)

\* Whoever runs the gate stops it.
Interrupt(g) ==
  /\ gate[g].phase \in {"step", "record", "append"}
  /\ gate' = [gate EXCEPT ![g] = Idle]
  /\ UNCHANGED <<devVars, recordVars, historyVars>>

-----------------------------------------------------------------------------
(* debug-regression red and green. *)

\* jest's report: a suite that did not load, or ran no test, is no result.
RunTest(s) ==
  IF tests[s] = "unrunnable" THEN "dies"
  ELSE IF tests[s] = "real" /\ StepFails(s) THEN "fails" ELSE "passes"

\* The exit code of pytest: 2 or 5 for a suite without a test that runs.
RunTestPy(s) ==
  LET returncode == IF tests[s] = "unrunnable" THEN 2
                    ELSE IF tests[s] = "real" /\ StepFails(s) THEN 1 ELSE 0
  IN IF returncode \notin {0, 1} THEN "dies" ELSE IF returncode = 1 THEN "fails" ELSE "passes"

(* Mutant: a test that passes already is recorded red. *)
RecordRedUnseen(s) ==
  /\ tests[s] # "none"
  /\ proof' = [proof EXCEPT ![s] = "red"] /\ rewritten' = rewritten \ {s}
  /\ UNCHANGED <<devVars, log, gate, overlapped>>

RecordRed(s) ==
  /\ tests[s] # "none"
  /\ IF runner = "gate.sh" THEN RunTestPy(s) = "fails" ELSE RunTest(s) = "fails"
  /\ proof' = [proof EXCEPT ![s] = "red"] /\ rewritten' = rewritten \ {s}
  /\ UNCHANGED <<devVars, log, gate, overlapped>>

RecordGreen(s) ==
  /\ proof[s] # "none" /\ tests[s] # "none"
  /\ IF runner = "gate.sh" THEN RunTestPy(s) = "passes" ELSE RunTest(s) = "passes"
  /\ proof' = [proof EXCEPT ![s] = "green"]
  /\ UNCHANGED <<devVars, log, gate, historyVars>>

-----------------------------------------------------------------------------
(* The developer. *)

ChangeCode(steps) ==
  /\ steps # broken /\ broken' = steps
  /\ UNCHANGED <<tests, commit, plan, runner, recordVars, gate, historyVars>>

WriteTest(s, kind) ==
  /\ kind # tests[s] /\ tests' = [tests EXCEPT ![s] = kind]
  /\ rewritten' = IF proof[s] = "none" THEN rewritten ELSE rewritten \cup {s}
  /\ UNCHANGED <<broken, commit, plan, runner, recordVars, gate, overlapped>>

Commit ==
  /\ commit < MaxCommits /\ commit' = commit + 1
  /\ UNCHANGED <<broken, tests, plan, runner, recordVars, gate, historyVars>>

\* The plan leaves docs/exec-plans/active, committed or not yet; /curate may
\* empty the log.
EndPlan ==
  /\ plan < MaxPlans /\ plan' = plan + 1
  /\ log' = IF ClearsLog THEN {} ELSE log
  /\ overlapped' = (overlapped \/ \E g \in Gate : gate[g].phase = "append")
  /\ UNCHANGED <<broken, tests, commit, runner, proof, gate, rewritten>>

Next ==
  \/ \E g \in Gate : StartGate(g) \/ PassStep(g) \/ FailStep(g) \/ ReadLog(g)
                     \/ AppendLine(g) \/ AppendLinePy(g) \/ Interrupt(g)
  \/ \E s \in Tested : RecordRed(s) \/ RecordGreen(s)
  \/ \E steps \in SUBSET (Step \ {Regression}) : ChangeCode(steps)
  \/ \E s \in Tested, kind \in Kind : WriteTest(s, kind)
  \/ Commit \/ EndPlan

Spec == Init /\ [][Next]_vars

-----------------------------------------------------------------------------
\* The log has one line per signature and commit, and whoever is about to
\* append has a new one.
OncePerCommit ==
  /\ \A l, m \in log : l.signature = m.signature /\ l.commit = m.commit => l = m
  /\ \A g \in Gate : gate[g].phase = "append" =>
       /\ ~Known(Chain[gate[g].at], gate[g].commit)
       /\ \A h \in Gate \ {g} : gate[h].phase # "append"

\* A test recorded red, and left alone since, fails with the bug.
RedIsReal == \A s \in Step \ rewritten : proof[s] # "none" => tests[s] = "real"

(* What FirstFailureOwesNothing and GatePinsRecurring rest on at every     *)
(* step: a log without repetitions as long as nobody raced for it, and red *)
(* proofs that were seen.                                                  *)
GateInv == (~overlapped => OncePerCommit) /\ RedIsReal

(* A FIRST failure needs nothing: unless two gates raced for the log, a    *)
(* regression test is demanded only of a signature that failed at two      *)
(* commits, however often a red gate was run again in between.             *)
FirstFailureOwesNothing ==
  ~overlapped => \A s \in Owed : \E l, m \in LinesOf(s) : l.commit # m.commit

(* RED BEFORE GREEN: when `check` passes, a recurring signature is pinned  *)
(* by a test that fails with the bug, unless the test was rewritten after  *)
(* it had been recorded red.                                               *)
GatePinsRecurring ==
  [][\A g \in Gate :
       (/\ gate[g].phase = "step" /\ Chain[gate[g].at] = Regression
        /\ gate'[g].phase = "green" \/ gate'[g].at > gate[g].at)
       => \A s \in Recurring \ rewritten : tests[s] = "real"]_vars
=============================================================================
