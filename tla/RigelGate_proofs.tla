-------------------------- MODULE RigelGate_proofs --------------------------
(***************************************************************************)
(* The gate: for any chain, any number of gates, commits and plans, a first *)
(* failure owes nothing, and a passed regression check means pinned        *)
(* signatures.  The lessons of its log: for any signatures, lessons and    *)
(* plans, what is promoted was earned, and what is called stale is quiet.  *)
(***************************************************************************)
EXTENDS RigelGate, RigelLessons, RigelInduction

GateType == [phase : Phase, at : 1..Len(Chain), commit : 1..MaxCommits, plan : 1..MaxPlans,
             failed : BOOLEAN]

(* A chain has a first step, and so has every gate's place in it. *)
LEMMA IdleType == Idle \in GateType
  BY ChainAssumption, BoundsAssumption DEF Idle, GateType, Phase, Step

(* Wherever a recorded failure leaves a gate, it is not about to append. *)
LEMMA AfterType ==
  ASSUME gate \in [Gate -> GateType], NEW g \in Gate
  PROVE  After(g) \in GateType /\ After(g).phase \in {"idle", "step"}
<1>1. gate[g].at \in 1..Len(Chain) /\ Len(Chain) \in Nat
  BY ChainAssumption DEF GateType
<1>2. CASE runner = "gate.sh" /\ gate[g].at < Len(Chain)
  <2>1. After(g) = [Idle EXCEPT !.phase = "step", !.at = gate[g].at + 1, !.failed = TRUE]
    BY <1>2 DEF After
  <2>2. gate[g].at + 1 \in 1..Len(Chain)
    BY <1>1, <1>2
  <2> QED
    BY <2>1, <2>2, IdleType DEF GateType, Phase, Idle
<1>3. CASE ~(runner = "gate.sh" /\ gate[g].at < Len(Chain))
  BY <1>3, IdleType DEF After, Idle
<1> QED
  BY <1>2, <1>3

(* Gates, log, proofs and counts keep their shape. *)
THEOREM TypeCorrect == Spec => []TypeOK
<1>1. Init => TypeOK
  <2> SUFFICES ASSUME Init PROVE TypeOK
    OBVIOUS
  <2>1. gate \in [Gate -> GateType]
    BY IdleType DEF Init
  <2>2. commit \in 1..MaxCommits /\ plan \in 1..MaxPlans
    BY BoundsAssumption DEF Init
  <2>3. tests \in [Step -> Kind] /\ proof \in [Step -> {"none", "red", "green"}]
    BY DEF Init, Kind
  <2> QED
    BY <2>1, <2>2, <2>3 DEF Init, TypeOK, GateType
<1>2. TypeOK /\ [Next]_vars => TypeOK'
  <2> SUFFICES ASSUME TypeOK, [Next]_vars PROVE TypeOK'
    OBVIOUS
  <2> DEFINE RestType == /\ broken \subseteq Step \ {Regression} /\ tests \in [Step -> Kind]
                         /\ proof \in [Step -> {"none", "red", "green"}]
                         /\ log \subseteq Line
                         /\ commit \in 1..MaxCommits /\ plan \in 1..MaxPlans
                         /\ runner \in Runner
                         /\ overlapped \in BOOLEAN /\ rewritten \subseteq Step
  <2>0. RestType /\ gate \in [Gate -> GateType]
    BY DEF TypeOK, GateType
  <2> HIDE DEF RestType
  <2>t. RestType' /\ (gate \in [Gate -> GateType])' => TypeOK'
    BY DEF RestType, TypeOK, GateType
  <2>1. ASSUME NEW g \in Gate, StartGate(g) PROVE TypeOK'
    <3>1. [Idle EXCEPT !.phase = "step"] \in GateType
      BY IdleType DEF GateType, Phase
    <3> QED
      BY <2>0, <2>t, <2>1, <3>1 DEF StartGate, RestType, devVars, recordVars, historyVars
  <2>2. ASSUME NEW g \in Gate, PassStep(g) PROVE TypeOK'
    <3>1. gate[g] \in GateType /\ gate[g].at \in 1..Len(Chain) /\ Len(Chain) \in Nat
      BY <2>0, ChainAssumption DEF GateType
    <3>3. [gate[g] EXCEPT !.phase = "green"] \in GateType
      BY <3>1 DEF GateType, Phase
    <3>4. gate[g].at < Len(Chain) => [gate[g] EXCEPT !.at = gate[g].at + 1] \in GateType
      BY <3>1 DEF GateType
    <3>2. gate' \in [Gate -> GateType]
      BY <2>0, <2>2, <3>3, <3>4, IdleType DEF PassStep
    <3> QED
      BY <2>0, <2>t, <2>2, <3>2 DEF PassStep, RestType, devVars, recordVars, historyVars
  <2>3. ASSUME NEW g \in Gate, FailStep(g) PROVE TypeOK'
    <3>1. gate' \in [Gate -> GateType]
      BY <2>0, <2>3 DEF FailStep, GateType, Phase
    <3> QED
      BY <2>0, <2>t, <2>3, <3>1 DEF FailStep, RestType, devVars, recordVars, historyVars
  <2>4. ASSUME NEW g \in Gate, ReadLog(g) PROVE TypeOK'
    <3>1. [gate[g] EXCEPT !.phase = "append", !.commit = commit,
                          !.plan = IF runner = "gate.mjs" THEN plan ELSE gate[g].plan] \in GateType
      BY <2>0 DEF GateType, Phase, RestType
    <3>2. gate' \in [Gate -> GateType]
      BY <2>0, <2>4, <3>1, AfterType DEF ReadLog
    <3>3. overlapped' \in BOOLEAN
      BY <2>4 DEF ReadLog
    <3> QED
      BY <2>0, <2>t, <2>4, <3>2, <3>3 DEF ReadLog, RestType, devVars, recordVars
  <2>5. ASSUME NEW g \in Gate, NEW p \in 1..MaxPlans, AppendTo(g, p) PROVE TypeOK'
    <3> DEFINE s == Chain[gate[g].at]
               line == [signature |-> s, commit |-> gate[g].commit, plan |-> p, by |-> g]
    <3>1. gate[g].at \in 1..Len(Chain) /\ gate[g].commit \in 1..MaxCommits
      BY <2>0 DEF GateType
    <3>2. s \in Step
      BY <3>1 DEF Step
    <3>3. line \in Line
      BY <3>1, <3>2 DEF Line
    <3>4. log' \subseteq Line
      BY <2>0, <2>5, <3>3 DEF AppendTo, RestType
    <3>5. gate' \in [Gate -> GateType]
      BY <2>0, <2>5, AfterType DEF AppendTo
    <3> QED
      BY <2>0, <2>t, <2>5, <3>4, <3>5 DEF AppendTo, RestType, devVars
  <2>13. ASSUME NEW g \in Gate, AppendLine(g) \/ AppendLinePy(g) PROVE TypeOK'
    <3>1. gate[g].plan \in 1..MaxPlans /\ plan \in 1..MaxPlans
      BY <2>0 DEF GateType, RestType
    <3> QED
      BY <2>5, <2>13, <3>1 DEF AppendLine, AppendLinePy
  <2>6. ASSUME NEW g \in Gate, Interrupt(g) PROVE TypeOK'
    BY <2>0, <2>t, <2>6, IdleType
    DEF Interrupt, RestType, devVars, recordVars, historyVars
  <2>7. ASSUME NEW s \in Tested, RecordRed(s) \/ RecordGreen(s) PROVE TypeOK'
    BY <2>0, <2>t, <2>7 DEF RecordRed, RecordGreen, RestType, devVars, historyVars
  <2>8. ASSUME NEW steps \in SUBSET (Step \ {Regression}), ChangeCode(steps) PROVE TypeOK'
    BY <2>0, <2>t, <2>8 DEF ChangeCode, RestType, recordVars, historyVars
  <2>9. ASSUME NEW s \in Tested, NEW kind \in Kind, WriteTest(s, kind) PROVE TypeOK'
    BY <2>0, <2>t, <2>9, TestedAssumption DEF WriteTest, RestType, recordVars
  <2>10. ASSUME Commit PROVE TypeOK'
    <3>1. commit' \in 1..MaxCommits
      BY <2>0, <2>10, BoundsAssumption DEF Commit, RestType
    <3> QED
      BY <2>0, <2>t, <2>10, <3>1 DEF Commit, RestType, recordVars, historyVars
  <2>11. ASSUME EndPlan PROVE TypeOK'
    <3>1. commit' \in 1..MaxCommits /\ plan' \in 1..MaxPlans
      BY <2>0, <2>11, BoundsAssumption DEF EndPlan, RestType
    <3>2. log' \subseteq Line /\ overlapped' \in BOOLEAN
      BY <2>0, <2>11 DEF EndPlan, RestType
    <3> QED
      BY <2>0, <2>t, <2>11, <3>1, <3>2 DEF EndPlan, RestType
  <2>12. ASSUME UNCHANGED vars PROVE TypeOK'
    BY <2>0, <2>t, <2>12 DEF vars, devVars, recordVars, historyVars, RestType
  <2> QED
    BY <2>1, <2>2, <2>3, <2>4, <2>5, <2>6, <2>7, <2>8, <2>9, <2>10, <2>11, <2>12, <2>13 DEF Next
<1> QED
  BY <1>1, <1>2, PTL DEF Spec

-----------------------------------------------------------------------------
(* GateInv is inductive. *)

LEMMA GateInit == Init => GateInv
  BY DEF Init, GateInv, OncePerCommit, RedIsReal, Idle

(* Red proofs: what records them has seen the test fail, what changes a    *)
(* test marks it rewritten.                                                *)
LEMMA RedIsRealStep == TypeOK /\ RedIsReal /\ [Next]_vars => RedIsReal'
<1> SUFFICES ASSUME TypeOK, RedIsReal, [Next]_vars PROVE RedIsReal'
  OBVIOUS
<1> USE DEF RedIsReal
<1>1. CASE UNCHANGED <<tests, proof, rewritten>>
  BY <1>1
<1>2. ASSUME NEW s \in Tested, RecordRed(s) PROVE RedIsReal'
  BY <1>2, TestedAssumption DEF RecordRed, RunTest, RunTestPy, TypeOK, devVars
<1>3. ASSUME NEW s \in Tested, RecordGreen(s) PROVE RedIsReal'
  BY <1>3, TestedAssumption DEF RecordGreen, TypeOK, devVars, historyVars
<1>4. ASSUME NEW s \in Tested, NEW kind \in Kind, WriteTest(s, kind) PROVE RedIsReal'
  BY <1>4, TestedAssumption DEF WriteTest, TypeOK, recordVars
<1> QED
  BY <1>1, <1>2, <1>3, <1>4 DEF Next, vars, devVars, recordVars, historyVars, StartGate,
     PassStep, FailStep, ReadLog, AppendLine, AppendLinePy, AppendTo, Interrupt, ChangeCode,
     Commit, EndPlan

\* Nothing that leaves the log alone and puts no gate before its append
\* disturbs the log.
LEMMA LogUntouched ==
  ASSUME OncePerCommit, log' = log,
         \A g \in Gate : gate'[g].phase = "append" => gate'[g] = gate[g]
  PROVE  OncePerCommit'
  BY DEF OncePerCommit, Known, LinesOf

LEMMA OncePerCommitStep ==
  TypeOK /\ (~overlapped => OncePerCommit) /\ [Next]_vars
  => (~overlapped => OncePerCommit)'
<1> SUFFICES ASSUME TypeOK, ~overlapped => OncePerCommit, [Next]_vars, ~overlapped'
             PROVE  OncePerCommit'
  OBVIOUS
<1>1. gate \in [Gate -> GateType]
  BY DEF TypeOK, GateType
<1>2. ASSUME NEW g \in Gate, StartGate(g) \/ PassStep(g) \/ FailStep(g) \/ Interrupt(g)
      PROVE  OncePerCommit'
  <2>1. overlapped' = overlapped /\ log' = log
    BY <1>2 DEF StartGate, PassStep, FailStep, Interrupt, recordVars, historyVars
  <2>2. gate[g].phase # "append" => gate'[g].phase # "append"
    BY <1>1, <1>2 DEF StartGate, PassStep, FailStep, Interrupt, Idle, GateType
  <2>3. gate'[g].phase # "append" /\ \A h \in Gate \ {g} : gate'[h] = gate[h]
    BY <1>1, <1>2, <2>2 DEF StartGate, PassStep, FailStep, Interrupt, Idle, GateType
  <2> QED
    BY <2>1, <2>3, LogUntouched
<1>3. ASSUME NEW g \in Gate, ReadLog(g) PROVE OncePerCommit'
  <2>1. ~overlapped /\ log' = log /\ \A h \in Gate \ {g} : gate[h].phase # "append"
    BY <1>3 DEF ReadLog, recordVars
  <2>2. \A h \in Gate \ {g} : gate'[h] = gate[h]
    BY <1>1, <1>3 DEF ReadLog
  <2>3. gate'[g].phase = "append"
        => /\ gate'[g].at = gate[g].at /\ gate'[g].commit = commit
           /\ ~Known(Chain[gate[g].at], commit)
    BY <1>1, <1>3, AfterType DEF ReadLog, GateType
  <2> QED
    BY <2>1, <2>2, <2>3 DEF OncePerCommit, Known, LinesOf
<1>4. ASSUME NEW g \in Gate, NEW p, AppendTo(g, p) PROVE OncePerCommit'
  <2> DEFINE line == [signature |-> Chain[gate[g].at], commit |-> gate[g].commit,
                      plan |-> p, by |-> g]
  <2>1. /\ OncePerCommit /\ gate[g].phase = "append" /\ log' = log \cup {line}
        /\ gate'[g].phase # "append" /\ \A h \in Gate \ {g} : gate'[h] = gate[h]
    BY <1>1, <1>4, AfterType DEF AppendTo
  <2>2. \A l \in log : ~(l.signature = line.signature /\ l.commit = line.commit)
    BY <2>1 DEF OncePerCommit, Known, LinesOf
  <2>3. \A l, m \in log' : l.signature = m.signature /\ l.commit = m.commit => l = m
    BY <2>1, <2>2 DEF OncePerCommit
  <2>4. \A h \in Gate : gate'[h].phase # "append"
    BY <2>1 DEF OncePerCommit
  <2> QED
    BY <2>3, <2>4 DEF OncePerCommit
<1>5. ASSUME EndPlan PROVE OncePerCommit'
  <2>1. OncePerCommit /\ gate' = gate /\ log' \subseteq log
        /\ \A g \in Gate : gate[g].phase # "append"
    BY <1>5 DEF EndPlan
  <2> QED
    BY <2>1 DEF OncePerCommit
<1>6. CASE UNCHANGED <<log, gate, overlapped>>
  BY <1>6, LogUntouched
<1> QED
  BY <1>2, <1>3, <1>4, <1>5, <1>6 DEF Next, vars, recordVars, historyVars, AppendLine, AppendLinePy,
     RecordRed, RecordGreen, ChangeCode, WriteTest, Commit

(* The log repeats itself only after a race, and red proofs were seen. *)
THEOREM GateInvariant == Spec => []GateInv
<1>1. TypeOK /\ GateInv /\ [Next]_vars => GateInv'
  BY RedIsRealStep, OncePerCommitStep DEF GateInv
<1> QED
  BY <1>1, TypeCorrect, GateInit, PTL DEF Spec

(* However often a red gate is run again, a demand is for a signature that *)
(* failed at two commits.                                                  *)
THEOREM NoDemandForOneFailure == Spec => []FirstFailureOwesNothing
<1>1. GateInv => FirstFailureOwesNothing
  BY DEF GateInv, OncePerCommit, FirstFailureOwesNothing, Owed, Recurring, LinesOf
<1> QED
  BY <1>1, GateInvariant, PTL

(* A regression check that passes leaves every recurring signature with a  *)
(* test that fails with the bug, or with one rewritten since.              *)
THEOREM CheckPins == Spec => GatePinsRecurring
<1>1. ASSUME TypeOK, GateInv, [Next]_vars, NEW g \in Gate, gate[g].phase = "step",
             Chain[gate[g].at] = Regression,
             gate'[g].phase = "green" \/ gate'[g].at > gate[g].at
      PROVE  \A s \in Recurring \ rewritten : tests[s] = "real"
  <2>1. gate \in [Gate -> GateType] /\ gate[g].at \in Nat \ {0}
    BY <1>1 DEF TypeOK, GateType
  <2>2. ~UNCHANGED gate
    BY <1>1, <2>1
  <2>3. ASSUME NEW h \in Gate,
               \/ StartGate(h) \/ FailStep(h) \/ ReadLog(h) \/ Interrupt(h)
               \/ \E p : AppendTo(h, p)
        PROVE  FALSE
    <3>1. CASE h # g
      BY <1>1, <2>1, <2>3, <3>1 DEF StartGate, FailStep, ReadLog, AppendTo, Interrupt
    <3>2. CASE h = g
      BY <1>1, <2>1, <2>3, <3>2
      DEF StartGate, FailStep, ReadLog, AppendTo, Interrupt, Idle, GateType
    <3> QED
      BY <3>1, <3>2
  <2>4. ASSUME NEW h \in Gate, PassStep(h) PROVE h = g
    BY <1>1, <2>1, <2>4 DEF PassStep
  <2>5. PassStep(g)
    BY <1>1, <2>2, <2>3, <2>4 DEF Next, vars, RecordRed, RecordGreen, ChangeCode,
       WriteTest, Commit, EndPlan, AppendLine, AppendLinePy
  <2>6. Owed = {}
    BY <1>1, <2>5 DEF PassStep, StepFails, Owed, OwedPy, Pinned
  <2> QED
    BY <1>1, <2>6 DEF Owed, Pinned, Recurring, GateInv, RedIsReal
<1>2. TypeOK /\ GateInv /\ [Next]_vars
      => [\A g \in Gate :
            (/\ gate[g].phase = "step" /\ Chain[gate[g].at] = Regression
             /\ gate'[g].phase = "green" \/ gate'[g].at > gate[g].at)
            => \A s \in Recurring \ rewritten : tests[s] = "real"]_vars
  BY <1>1
<1> QED
  BY <1>2, TypeCorrect, GateInvariant, PTL DEF Spec, GatePinsRecurring

-----------------------------------------------------------------------------
(* Lessons: an occasion is a plan in which a signature failed, or a        *)
(* stretch between plans.  Whatever is counted has happened: a count       *)
(* stands for occasions before the log was last emptied, a line of the     *)
(* log for one after.                                                      *)

Status == {"OBSERVED", "DISTILLED", "ENFORCED"}
Rule == {"none", "real", "decorative", "overbroad"}

LessonRecord == [signatures : SUBSET Signature, status : Status, rule : Rule,
                 seen : Nat \cup {Commented}, lastSeen : Nat \cup {Planless}]

\* A stretch between plans, and a plan.
OccasionsUpTo(now) == ({Planless} \X (0..now)) \cup {<<p, p>> : p \in 1..now}

Occasion == OccasionsUpTo(current)

LessonTypeOK ==
  /\ lessons \in [Lesson -> LessonRecord \cup {NoLesson}] /\ IsFiniteSet(Written)
  /\ \A l \in Written : lessons[l].lastSeen = Planless \/ lessons[l].lastSeen <= current
  /\ IsFiniteSet(failures)
  /\ \A x \in failures : x.signature \in Signature /\ x.plan \in (1..current) \cup {Planless}
  /\ current \in Nat \ {0} /\ active \in BOOLEAN /\ shared \subseteq Lesson
  /\ occasions \in [Signature -> SUBSET Occasion]

\* An occasion before the log was emptied at the end of plan k.
IsOld(o, k) == IF o[1] = Planless THEN o[2] = 0 \/ o[2] < k ELSE o[1] <= k

\* All that a lesson stands for, and how much of it is older than the log.
OccasionsOf(l) == UNION {occasions[s] : s \in lessons[l].signatures}

OldOf(set, k) == {o \in set : IsOld(o, k)}

\* A count that is kept stands for so many occasions before the log.
CountsAreOld(k) ==
  \A l \in Written :
    lessons[l].seen = Commented \/ lessons[l].seen <= Cardinality(OldOf(OccasionsOf(l), k))

\* A line of the log is of an occasion after that ...
LinesAreNew(k) ==
  \A x \in failures :
    IF x.plan = Planless THEN \E c \in k..current : c # 0 /\ <<Planless, c>> \in occasions[x.signature]
    ELSE x.plan > k /\ <<x.plan, x.plan>> \in occasions[x.signature]

\* ... and a plan after it in which a signature failed has its line.
NewAreLogged(k) ==
  \A s \in Signature, p \in 1..current :
    p > k /\ <<p, p>> \in occasions[s] => \E x \in failures : x.signature = s /\ x.plan = p

\* While a plan is active the log reaches back before it.
NotCuratedYet(k) ==
  active => k < current /\ \A s \in Signature : <<Planless, current>> \notin occasions[s]

\* A lesson nobody edited is alone with its signature, and remembers the
\* newest curated plan in which that failed.
AloneRemember(k) ==
  \A l \in Written \ shared :
    \E s \in Signature :
      /\ lessons[l].signatures = {s} /\ \A m \in Written \ {l} : s \notin lessons[m].signatures
      /\ lessons[l].lastSeen # Planless =>
           \A p \in 1..current : p <= k /\ <<p, p>> \in occasions[s] => p <= lessons[l].lastSeen

\* Three occasions, and a rule that blocks what it should.
EnforcedIsEarned ==
  \A l \in Written : lessons[l].status = "ENFORCED" =>
    lessons[l].rule = "real" /\ Cardinality(OccasionsOf(l)) >= 3

\* The log was emptied at the end of plan k.
CuratedUpTo(k) ==
  /\ CountsAreOld(k) /\ LinesAreNew(k) /\ NewAreLogged(k) /\ NotCuratedYet(k) /\ AloneRemember(k)

LessonInv == LessonTypeOK /\ EnforcedIsEarned /\ \E k \in 0..current : CuratedUpTo(k)

-----------------------------------------------------------------------------
\* What either scanner reads of the lessons.
IsRead(ls) ==
  /\ DOMAIN ls = Written
  /\ \A l \in Written :
       /\ ls[l] \in LessonRecord /\ ls[l].signatures = lessons[l].signatures /\ ls[l].status = lessons[l].status
       /\ ls[l].lastSeen = lessons[l].lastSeen /\ ls[l].rule = lessons[l].rule
       /\ \/ ls[l].seen = lessons[l].seen
          \/ lessons[l].seen = Commented /\ ls[l].seen = 0

\* What a written lesson holds.
LEMMA WrittenType ==
  ASSUME LessonTypeOK, NEW l \in Written
  PROVE  l \in Lesson /\ lessons[l] \in LessonRecord
  BY DEF LessonTypeOK, Written

\* Both scanners read the lessons; they differ over a commented count.
LEMMA ReadsRead ==
  ASSUME LessonTypeOK
  PROVE  IsRead(ReadLessons) /\ IsRead(ReadLessonsPy)
<1>1. IsRead(ReadLessons)
  BY WrittenType DEF IsRead, ReadLessons
<1>2. ASSUME NEW l \in Written
      PROVE  ReadLessonsPy[l] = [lessons[l] EXCEPT !.seen = IF @ = Commented THEN 0 ELSE @]
  BY DEF ReadLessonsPy
<1>3. IsRead(ReadLessonsPy)
  BY <1>2, WrittenType DEF IsRead, ReadLessonsPy, LessonRecord
<1> QED
  BY <1>1, <1>3

\* Somebody's newest plan is one of them.
LEMMA NewestIsGreatest ==
  ASSUME NEW S, S \subseteq 1..current, S # {}, current \in Nat
  PROVE  Newest(S) \in S /\ \A q \in S : q <= Newest(S)
<1>1. PICK m \in S : \A q \in S : q <= m
  <2>1. S \subseteq Nat /\ \A q \in S : q <= current
    OBVIOUS
  <2> QED
    BY <2>1, GreatestNumber
<1> QED
  BY <1>1 DEF Newest

\* The plans the log names for a signature are plans so far.
LEMMA PlansOfType ==
  ASSUME LessonTypeOK, NEW s
  PROVE  PlansOf(s) \subseteq 1..current /\ IsFiniteSet(PlansOf(s))
<1>1. current \in Nat
  BY DEF LessonTypeOK
<1>2. PlansOf(s) \subseteq 1..current
  BY DEF LessonTypeOK, PlansOf
<1>3. IsFiniteSet(1..current)
  BY <1>1, FS_Interval
<1> QED
  BY <1>2, <1>3, FS_Subset

\* An increment is a number.
LEMMA OccType ==
  ASSUME LessonTypeOK, NEW s
  PROVE  Occ(s) \in Nat
  BY PlansOfType, FS_CardinalityType DEF Occ

\* The plan the scanner takes for the current one is no later than that.
LEMMA CurrentPlanType ==
  ASSUME LessonTypeOK, NEW ls, IsRead(ls), NEW filed
  PROVE  \/ CurrentPlan(ls, filed) = Planless
         \/ CurrentPlan(ls, filed) \in Nat /\ CurrentPlan(ls, filed) <= current
<1> DEFINE mentioned == ({x.plan : x \in failures} \cup {ls[l].lastSeen : l \in DOMAIN ls}) \ {Planless}
<1>1. current \in Nat
  BY DEF LessonTypeOK
<1>2. \A p \in mentioned : p \in Nat /\ p <= current
  <2>1. ASSUME NEW x \in failures, x.plan # Planless PROVE x.plan \in Nat /\ x.plan <= current
    BY <1>1, <2>1 DEF LessonTypeOK
  <2>2. ASSUME NEW l \in DOMAIN ls, ls[l].lastSeen # Planless
        PROVE  ls[l].lastSeen \in Nat /\ ls[l].lastSeen <= current
    <3>1. l \in Written /\ ls[l].lastSeen = lessons[l].lastSeen
      BY DEF IsRead
    <3> QED
      BY <2>2, <3>1, WrittenType DEF LessonTypeOK, LessonRecord
  <2> QED
    BY <2>1, <2>2
<1>3. CASE ~filed
  BY <1>1, <1>3 DEF CurrentPlan
<1>4. CASE filed /\ mentioned = {}
  BY <1>4 DEF CurrentPlan
<1>5. CASE filed /\ mentioned # {}
  <2>1. PICK m \in mentioned : \A q \in mentioned : q <= m
    <3> HIDE DEF mentioned
    <3> QED
      BY <1>1, <1>2, <1>5, GreatestNumber
  <2>2. Newest(mentioned) \in mentioned
    BY <2>1 DEF Newest
  <2>3. CurrentPlan(ls, filed) = Newest(mentioned)
    BY <1>5 DEF CurrentPlan
  <2> QED
    BY <1>2, <2>2, <2>3
<1> QED
  BY <1>3, <1>4, <1>5

\* A signature failed finitely often ...
LEMMA OccasionsFinite ==
  ASSUME NEW now \in Nat
  PROVE  IsFiniteSet(OccasionsUpTo(now))
<1>1. IsFiniteSet(0..now) /\ IsFiniteSet({Planless})
  <2>1. IsFiniteSet(0..now)
    BY FS_Interval
  <2> QED
    BY <2>1, FS_Singleton
<1>2. IsFiniteSet({Planless} \cup 0..now)
  BY <1>1, FS_Union
<1>3. IsFiniteSet(({Planless} \cup 0..now) \X (0..now))
  BY <1>1, <1>2, FS_Product
<1>4. OccasionsUpTo(now) \subseteq ({Planless} \cup 0..now) \X (0..now)
  BY DEF OccasionsUpTo
<1> QED
  BY <1>3, <1>4, FS_Subset

\* ... and so did those of a lesson.
LEMMA OccasionsOfFinite ==
  ASSUME LessonTypeOK, NEW l \in Written
  PROVE  IsFiniteSet(OccasionsOf(l)) /\ OccasionsOf(l) \subseteq Occasion
<1>1. OccasionsOf(l) \subseteq Occasion
  BY WrittenType DEF LessonTypeOK, OccasionsOf, LessonRecord
<1>2. IsFiniteSet(Occasion)
  BY OccasionsFinite DEF LessonTypeOK, Occasion
<1> QED
  BY <1>1, <1>2, FS_Subset

-----------------------------------------------------------------------------
\* What the log counts for a signature happened on as many occasions, none of
\* them before the log was emptied, and all of them before it is emptied next.
LEMMA CountedOccasions ==
  ASSUME LessonTypeOK, NEW k \in 0..current, LinesAreNew(k), NotCuratedYet(k),
         NEW s \in Signature, NEW x \in failures, x.signature = s
  PROVE  \E G \in SUBSET occasions[s] :
           /\ IsFiniteSet(G) /\ Cardinality(G) = Occ(s)
           /\ \A o \in G : ~IsOld(o, k) /\ (active => IsOld(o, current))
<1>0. current \in Nat /\ k \in Nat
  BY DEF LessonTypeOK
<1>1. CASE PlansOf(s) = {}
  <2>1. x.plan = Planless
    BY <1>1 DEF PlansOf
  <2>2. PICK c \in k..current : c # 0 /\ <<Planless, c>> \in occasions[s]
    BY <2>1 DEF LinesAreNew
  <2> DEFINE G == {<<Planless, c>>}
  <2>3. IsFiniteSet(G) /\ Cardinality(G) = Occ(s)
    BY <1>1, FS_Singleton DEF Occ
  <2>4. \A o \in G : ~IsOld(o, k)
    BY <1>0, <2>2 DEF IsOld
  <2>5. \A o \in G : active => IsOld(o, current)
    <3>1. active => c # current
      BY <2>2 DEF NotCuratedYet
    <3>2. active => c < current
      BY <1>0, <3>1
    <3> QED
      BY <3>2 DEF IsOld
  <2> QED
    BY <2>2, <2>3, <2>4, <2>5
<1>2. CASE PlansOf(s) # {}
  <2> DEFINE G == {<<p, p>> : p \in PlansOf(s)}
             f == [p \in PlansOf(s) |-> <<p, p>>]
  <2>1. f \in Bijection(PlansOf(s), G)
    <3>1. f \in [PlansOf(s) -> G]
      OBVIOUS
    <3>2. \A p, q \in PlansOf(s) : f[p] = f[q] => p = q
      OBVIOUS
    <3>3. \A g \in G : \E p \in PlansOf(s) : f[p] = g
      OBVIOUS
    <3> HIDE DEF f, G
    <3>4. DOMAIN f = PlansOf(s)
      BY <3>1
    <3> QED
      BY <3>1, <3>2, <3>3, <3>4 DEF Bijection, Injection, Surjection, IsInjective
  <2>2. IsFiniteSet(PlansOf(s)) /\ PlansOf(s) \subseteq 1..current
    BY PlansOfType
  <2>3. IsFiniteSet(G) /\ Cardinality(G) = Cardinality(PlansOf(s))
    BY <2>1, <2>2, FS_Bijection DEF ExistsBijection
  <2>4. \A p \in PlansOf(s) : p > k /\ <<p, p>> \in occasions[s]
    BY DEF PlansOf, LinesAreNew
  <2>5. \A p \in PlansOf(s) : p # Planless /\ p \in Nat /\ p <= current
    BY <1>0, <2>2, ValuesOfLessons
  <2>6. \A o \in G : ~IsOld(o, k) /\ IsOld(o, current)
    BY <1>0, <2>4, <2>5 DEF IsOld
  <2> QED
    BY <1>2, <2>3, <2>4, <2>6 DEF Occ
<1> QED
  BY <1>1, <1>2

\* What was older than the log is older than the next.
LEMMA AgesOnly ==
  ASSUME LessonTypeOK, NEW k \in 0..current, NEW o \in Occasion, IsOld(o, k)
  PROVE  IsOld(o, current)
<1>1. k \in Nat /\ current \in Nat /\ k <= current
  BY DEF LessonTypeOK
<1>2. CASE o[1] = Planless
  <2>1. o[2] \in 0..current
    BY <1>2, ValuesOfLessons DEF Occasion, OccasionsUpTo
  <2> QED
    BY <1>1, <1>2, <2>1 DEF IsOld
<1>3. CASE o[1] # Planless
  <2>1. o[1] \in 1..current
    BY <1>3 DEF Occasion, OccasionsUpTo
  <2> QED
    BY <1>1, <1>3, <2>1 DEF IsOld
<1> QED
  BY <1>2, <1>3

\* Whatever a count stood for, and what the log adds to it, are different
\* occasions.
LEMMA CountsAdd ==
  ASSUME LessonTypeOK, NEW k \in 0..current, LinesAreNew(k), NotCuratedYet(k),
         NEW s \in Signature, NEW x \in failures, x.signature = s,
         NEW U \in SUBSET Occasion, IsFiniteSet(U), occasions[s] \subseteq U
  PROVE  /\ Cardinality(OldOf(U, k)) + Occ(s) <= Cardinality(U)
         /\ active => Cardinality(OldOf(U, k)) + Occ(s) <= Cardinality(OldOf(U, current))
<1>1. PICK G \in SUBSET occasions[s] :
        /\ IsFiniteSet(G) /\ Cardinality(G) = Occ(s)
        /\ \A o \in G : ~IsOld(o, k) /\ (active => IsOld(o, current))
  BY CountedOccasions
<1>2. OldOf(U, k) \subseteq U /\ G \subseteq U /\ OldOf(U, k) \cap G = {}
  BY <1>1 DEF OldOf
<1>3. IsFiniteSet(OldOf(U, k))
  BY <1>2, FS_Subset
<1>4. Cardinality(OldOf(U, k)) \in Nat /\ Cardinality(G) \in Nat
  BY <1>1, <1>3, FS_CardinalityType
<1>5. Cardinality(OldOf(U, k) \cup G) = Cardinality(OldOf(U, k)) + Occ(s)
  <2>1. Cardinality(OldOf(U, k) \cup G) = Cardinality(OldOf(U, k)) + Cardinality(G)
    BY <1>1, <1>2, <1>3, DisjointUnion
  <2> QED
    BY <1>1, <2>1
<1>6. Cardinality(OldOf(U, k) \cup G) <= Cardinality(U)
  BY <1>2, FS_Subset
<1>7. ASSUME active PROVE Cardinality(OldOf(U, k) \cup G) <= Cardinality(OldOf(U, current))
  <2>1. OldOf(U, k) \cup G \subseteq OldOf(U, current)
    BY <1>1, <1>2, <1>7, AgesOnly DEF OldOf
  <2>2. IsFiniteSet(OldOf(U, current))
    <3>1. OldOf(U, current) \subseteq U
      BY DEF OldOf
    <3> QED
      BY <3>1, FS_Subset
  <2> QED
    BY <2>1, <2>2, FS_Subset
<1> QED
  BY <1>5, <1>6, <1>7

\* More occasions, no smaller a count.
LEMMA CountsGrow ==
  ASSUME NEW U, NEW V, IsFiniteSet(V), U \subseteq V, NEW k
  PROVE  /\ Cardinality(U) <= Cardinality(V) /\ Cardinality(U) \in Nat /\ Cardinality(V) \in Nat
         /\ Cardinality(OldOf(U, k)) <= Cardinality(OldOf(V, k))
         /\ Cardinality(OldOf(U, k)) \in Nat /\ Cardinality(OldOf(V, k)) \in Nat
<1>1. OldOf(U, k) \subseteq OldOf(V, k) /\ OldOf(V, k) \subseteq V
  BY DEF OldOf
<1>2. IsFiniteSet(OldOf(V, k)) /\ IsFiniteSet(U)
  BY <1>1, FS_Subset
<1>3. IsFiniteSet(OldOf(U, k))
  BY <1>1, <1>2, FS_Subset
<1> QED
  BY <1>1, <1>2, <1>3, FS_Subset, FS_CardinalityType

\* What is reported ready has been counted three times, this log included.
LEMMA ReadyCounted ==
  ASSUME NEW ls, NEW now, NEW l \in Scan(ls, now).ready
  PROVE  /\ l \in DOMAIN ls
         /\ \/ Enough(ls[l].seen)
            \/ \E x \in failures : /\ x.signature \in ls[l].signatures
                                  /\ Enough(Plus(ls[l].seen, Occ(x.signature)))
<1> DEFINE failed == {x.signature : x \in failures}
           claimed(n) == {s \in failed : Cardinality(Matches(ls, s)) = n}
           increments == [m \in DOMAIN ls |-> {s \in claimed(1) : m \in Matches(ls, s)}]
<1>1. /\ l \in DOMAIN ls
      /\ \/ Enough(ls[l].seen)
         \/ \E s \in increments[l] : Enough(Plus(ls[l].seen, Occ(s)))
  BY DEF Scan
<1>2. \A s \in increments[l] : s \in failed /\ s \in ls[l].signatures
  BY <1>1 DEF Matches
<1> QED
  BY <1>1, <1>2

\* What a scan reports ready has failed on three occasions.
LEMMA ReadyIsEarned ==
  ASSUME LessonTypeOK, NEW k \in 0..current, CuratedUpTo(k), NEW l \in Written,
         NEW filed, NEW p \in Scans(filed), l \in p.ready
  PROVE  Cardinality(OccasionsOf(l)) >= 3
<1>1. PICK ls, now : IsRead(ls) /\ p = Scan(ls, now)
  BY ReadsRead DEF Scans, ScanPy
<1> DEFINE U == OccasionsOf(l)
           old == Cardinality(OldOf(U, k))
<1>2. IsFiniteSet(U) /\ U \subseteq Occasion
  BY OccasionsOfFinite
<1>3. old \in Nat /\ Cardinality(U) \in Nat /\ old <= Cardinality(U)
  <2>1. OldOf(U, k) \subseteq U
    BY DEF OldOf
  <2> QED
    BY <1>2, <2>1, FS_Subset, FS_CardinalityType
<1>4. ls[l].seen = Commented \/ (ls[l].seen \in Nat /\ ls[l].seen <= old)
  <2>1. lessons[l].seen \in Nat \cup {Commented}
    BY WrittenType DEF LessonRecord
  <2>2. lessons[l].seen = Commented \/ lessons[l].seen <= old
    BY DEF CuratedUpTo, CountsAreOld
  <2> QED
    BY <1>1, <1>3, <2>1, <2>2 DEF IsRead
<1>5. CASE Enough(ls[l].seen)
  BY <1>3, <1>4, <1>5 DEF Enough
<1>6. CASE \E x \in failures : /\ x.signature \in ls[l].signatures
                              /\ Enough(Plus(ls[l].seen, Occ(x.signature)))
  <2>1. PICK x \in failures : /\ x.signature \in lessons[l].signatures
                             /\ Enough(Plus(ls[l].seen, Occ(x.signature)))
    BY <1>1, <1>6 DEF IsRead
  <2>2. x.signature \in Signature /\ occasions[x.signature] \subseteq U
    BY <2>1 DEF LessonTypeOK, OccasionsOf
  <2>3. old + Occ(x.signature) <= Cardinality(U)
    BY <1>2, <2>2, CountsAdd DEF CuratedUpTo
  <2>4. Occ(x.signature) \in Nat
    BY OccType
  <2>5. ls[l].seen # Commented /\ ls[l].seen + Occ(x.signature) >= 3
    BY <2>1 DEF Enough, Plus
  <2> QED
    BY <1>3, <1>4, <2>3, <2>4, <2>5
<1> QED
  BY <1>1, <1>5, <1>6, ReadyCounted

-----------------------------------------------------------------------------
Failed == {x.signature : x \in failures}

Created == {s \in Failed : \A l \in Written : s \notin lessons[l].signatures}

\* What a scan finds, in the terms of the lessons as they are filed.
LEMMA ScanParts ==
  ASSUME LessonTypeOK, NEW ls, IsRead(ls), NEW now
  PROVE  /\ Scan(ls, now).create = Created
         /\ Scan(ls, now).disambiguate \subseteq Failed
         /\ \A l \in Written :
              /\ Scan(ls, now).increments[l] \subseteq Failed \cap lessons[l].signatures
              /\ \A s \in Failed :
                   (\A m \in Written : s \in lessons[m].signatures <=> m = l)
                     => s \in Scan(ls, now).increments[l]
<1> DEFINE claimed(n) == {s \in Failed : Cardinality(Matches(ls, s)) = n}
<1>1. /\ Scan(ls, now).create = claimed(0)
      /\ Scan(ls, now).disambiguate = Failed \ (claimed(0) \cup claimed(1))
      /\ \A l \in DOMAIN ls :
           Scan(ls, now).increments[l] = {s \in claimed(1) : l \in Matches(ls, s)}
  BY DEF Scan, Failed
<1>2. DOMAIN ls = Written /\ \A s : Matches(ls, s) = {l \in Written : s \in lessons[l].signatures}
  BY DEF IsRead, Matches
<1>3. \A s : IsFiniteSet(Matches(ls, s))
  <2> TAKE s
  <2>1. Matches(ls, s) \subseteq Written /\ IsFiniteSet(Written)
    BY <1>2 DEF LessonTypeOK
  <2> QED
    BY <2>1, FS_Subset
<1>4. claimed(0) = Created
  <2>1. \A s : Cardinality(Matches(ls, s)) = 0 <=> Matches(ls, s) = {}
    BY <1>3, FS_EmptySet
  <2> QED
    BY <1>2, <2>1 DEF Created
<1>5. ASSUME NEW l \in Written, NEW s \in Failed,
             \A m \in Written : s \in lessons[m].signatures <=> m = l
      PROVE  s \in claimed(1) /\ l \in Matches(ls, s)
  <2>1. Matches(ls, s) = {l}
    BY <1>2, <1>5
  <2> QED
    BY <2>1, FS_Singleton
<1> QED
  BY <1>1, <1>2, <1>4, <1>5

\* What /curate does to the lessons, whichever scanner it listens to.
LEMMA CurateEffect ==
  ASSUME LessonTypeOK, NEW read, IsRead(read), NEW now, Curate(read, Scan(read, now))
  PROVE  \E by \in [Written -> Signature \cup {NoLesson}], new \in [Created -> Lesson \ Written] :
           /\ \A l \in Written : /\ by[l] # NoLesson => by[l] \in Failed \cap lessons[l].signatures
                                /\ \A s \in Failed :
                                     (\A m \in Written : s \in lessons[m].signatures <=> m = l)
                                       => by[l] # NoLesson
           /\ \A s, t \in Created : new[s] = new[t] => s = t
           /\ lessons' = [l \in Lesson |->
                IF l \in Written THEN IF by[l] = NoLesson THEN lessons[l] ELSE Counted(read[l], by[l])
                ELSE IF \E s \in Created : new[s] = l
                     THEN Observed(CHOOSE s \in Created : new[s] = l) ELSE NoLesson]
<1> DEFINE p == Scan(read, now)
<1>1. /\ p.create = Created /\ p.disambiguate \subseteq Failed
      /\ \A l \in Written :
           /\ p.increments[l] \subseteq Failed \cap lessons[l].signatures
           /\ \A s \in Failed : (\A m \in Written : s \in lessons[m].signatures <=> m = l)
                                 => s \in p.increments[l]
  BY ScanParts
<1> HIDE DEF p
<1>2. PICK by \in Attributions(p), new \in [p.create -> Unused(Cardinality(p.create))] :
        /\ \A s, t \in p.create : new[s] = new[t] => s = t
        /\ lessons' = [l \in Lesson |->
             IF l \in Written THEN IF by[l] = NoLesson THEN lessons[l] ELSE Counted(read[l], by[l])
             ELSE IF \E s \in p.create : new[s] = l
                  THEN Observed(CHOOSE s \in p.create : new[s] = l) ELSE NoLesson]
  <2>1. Curate(read, p)
    BY DEF p
  <2> QED
    BY <2>1 DEF Curate
<1>3. /\ by \in [Written -> Signature \cup {NoLesson}]
      /\ \A l \in Written :
           \/ by[l] \in p.increments[l]
           \/ p.increments[l] = {} /\ by[l] = NoLesson
           \/ p.increments[l] = {} /\ by[l] \in p.disambiguate \cap lessons[l].signatures
  BY <1>2 DEF Attributions
<1>4. new \in [Created -> Lesson \ Written]
  BY <1>1, <1>2 DEF Unused
<1>5. \A l \in Written : by[l] # NoLesson => by[l] \in Failed \cap lessons[l].signatures
  BY <1>1, <1>3
<1>6. \A l \in Written : p.increments[l] # {} => by[l] # NoLesson
  <2> SUFFICES ASSUME NEW l \in Written, p.increments[l] # {} PROVE by[l] # NoLesson
    OBVIOUS
  <2>1. by[l] \in Failed /\ Failed \subseteq Signature
    BY <1>1, <1>3 DEF LessonTypeOK, Failed
  <2> QED
    BY <2>1, ValuesOfLessons
<1>7. \A l \in Written, s \in Failed :
        (\A m \in Written : s \in lessons[m].signatures <=> m = l) => by[l] # NoLesson
  BY <1>1, <1>6
<1> QED
  BY <1>1, <1>2, <1>3, <1>4, <1>5, <1>7

\* A lesson that is counted up keeps all but its count and date.
LEMMA CountedType ==
  ASSUME LessonTypeOK, NEW read, IsRead(read), NEW l \in Written, NEW s \in Signature
  PROVE  /\ Counted(read[l], s) \in LessonRecord
         /\ Counted(read[l], s).signatures = lessons[l].signatures
         /\ Counted(read[l], s).status = lessons[l].status
         /\ Counted(read[l], s).rule = lessons[l].rule
         /\ Counted(read[l], s).seen = Plus(read[l].seen, Occ(s))
         /\ Counted(read[l], s).lastSeen
              = IF PlansOf(s) = {} THEN lessons[l].lastSeen ELSE Newest(PlansOf(s))
         /\ \/ Counted(read[l], s).lastSeen = Planless
            \/ Counted(read[l], s).lastSeen \in Nat /\ Counted(read[l], s).lastSeen <= current
<1>1. read[l] \in LessonRecord
  BY DEF IsRead
<1>2. Plus(read[l].seen, Occ(s)) \in Nat \cup {Commented}
  BY <1>1, OccType DEF Plus, LessonRecord
<1>3. PlansOf(s) # {} => /\ Newest(PlansOf(s)) \in Nat /\ Newest(PlansOf(s)) <= current
  <2>1. current \in Nat
    BY DEF LessonTypeOK
  <2> QED
    BY <2>1, PlansOfType, NewestIsGreatest
<1>4. lessons[l].lastSeen = Planless \/ (lessons[l].lastSeen \in Nat /\ lessons[l].lastSeen <= current)
  BY WrittenType DEF LessonTypeOK, LessonRecord
<1>5. Counted(read[l], s) \in LessonRecord
  BY <1>1, <1>2, <1>3 DEF Counted, LessonRecord
<1>6. /\ Counted(read[l], s).signatures = lessons[l].signatures
      /\ Counted(read[l], s).status = lessons[l].status
      /\ Counted(read[l], s).rule = lessons[l].rule
      /\ Counted(read[l], s).seen = Plus(read[l].seen, Occ(s))
      /\ Counted(read[l], s).lastSeen
           = IF PlansOf(s) = {} THEN lessons[l].lastSeen ELSE Newest(PlansOf(s))
  BY <1>1 DEF Counted, LessonRecord, IsRead
<1> QED
  BY <1>3, <1>4, <1>5, <1>6

\* The lesson of a new signature is a lesson.
LEMMA ObservedType ==
  ASSUME LessonTypeOK, NEW s \in Signature
  PROVE  /\ Observed(s) \in LessonRecord
         /\ \/ Observed(s).lastSeen = Planless
            \/ Observed(s).lastSeen \in Nat /\ Observed(s).lastSeen <= current
<1>1. PlansOf(s) # {} => /\ Newest(PlansOf(s)) \in Nat /\ Newest(PlansOf(s)) <= current
  <2>1. current \in Nat
    BY DEF LessonTypeOK
  <2> QED
    BY <2>1, PlansOfType, NewestIsGreatest
<1> QED
  BY <1>1, OccType DEF Observed, LessonRecord, Status, Rule

\* The log names finitely many signatures.
LEMMA FailedType ==
  ASSUME LessonTypeOK
  PROVE  Failed \subseteq Signature /\ IsFiniteSet(Failed) /\ IsFiniteSet(Created)
<1> DEFINE f == [x \in failures |-> x.signature]
<1>1. Failed \subseteq Signature
  BY DEF LessonTypeOK, Failed
<1>2. f \in Surjection(failures, Failed)
  BY DEF Surjection, Failed
<1>3. IsFiniteSet(failures)
  BY DEF LessonTypeOK
<1>4. IsFiniteSet(Failed)
  BY <1>2, <1>3, FS_Surjection
<1>5. Created \subseteq Failed
  BY DEF Created
<1> QED
  BY <1>1, <1>4, <1>5, FS_Subset

\* A lesson, as a curation leaves it.
LEMMA CuratedLessons ==
  ASSUME LessonTypeOK, NEW read, IsRead(read), NEW now, Curate(read, Scan(read, now))
  PROVE  /\ lessons' \in [Lesson -> LessonRecord \cup {NoLesson}] /\ IsFiniteSet(Written')
         /\ \A l \in Written :
              \/ /\ lessons'[l] = lessons[l]
                 /\ \A s \in Failed : ~(\A m \in Written : s \in lessons[m].signatures <=> m = l)
              \/ \E s \in Failed \cap lessons[l].signatures : lessons'[l] = Counted(read[l], s)
         /\ \A l \in Written' \ Written : \E s \in Created : lessons'[l] = Observed(s)
         /\ \A l, m \in Written' \ Written :
              lessons'[l].signatures = lessons'[m].signatures => l = m
<1>1. PICK by \in [Written -> Signature \cup {NoLesson}], new \in [Created -> Lesson \ Written] :
        /\ \A l \in Written : /\ by[l] # NoLesson => by[l] \in Failed \cap lessons[l].signatures
                             /\ \A s \in Failed :
                                  (\A m \in Written : s \in lessons[m].signatures <=> m = l)
                                    => by[l] # NoLesson
        /\ \A s, t \in Created : new[s] = new[t] => s = t
        /\ lessons' = [l \in Lesson |->
             IF l \in Written THEN IF by[l] = NoLesson THEN lessons[l] ELSE Counted(read[l], by[l])
             ELSE IF \E s \in Created : new[s] = l
                  THEN Observed(CHOOSE s \in Created : new[s] = l) ELSE NoLesson]
  BY CurateEffect
<1>2. Failed \subseteq Signature /\ IsFiniteSet(Created) /\ Created \subseteq Failed
  BY FailedType DEF Created
<1>3. ASSUME NEW l \in Written
      PROVE  /\ lessons'[l] \in LessonRecord \cup {NoLesson}
             /\ \/ /\ lessons'[l] = lessons[l]
                   /\ \A s \in Failed : ~(\A m \in Written : s \in lessons[m].signatures <=> m = l)
                \/ \E s \in Failed \cap lessons[l].signatures : lessons'[l] = Counted(read[l], s)
  <2>1. l \in Lesson /\ lessons[l] \in LessonRecord
    BY WrittenType
  <2>2. CASE by[l] = NoLesson
    BY <1>1, <2>1, <2>2
  <2>3. CASE by[l] # NoLesson
    <3>1. by[l] \in Failed \cap lessons[l].signatures /\ lessons'[l] = Counted(read[l], by[l])
      BY <1>1, <2>1, <2>3
    <3> QED
      BY <1>2, <3>1, CountedType
  <2> QED
    BY <2>2, <2>3
<1>4. ASSUME NEW l \in Lesson \ Written
      PROVE  \/ lessons'[l] = NoLesson
             \/ \E s \in Created : new[s] = l /\ lessons'[l] = Observed(s)
  BY <1>1
<1>5. lessons' \in [Lesson -> LessonRecord \cup {NoLesson}]
  <2>1. ASSUME NEW l \in Lesson PROVE lessons'[l] \in LessonRecord \cup {NoLesson}
    BY <1>2, <1>3, <1>4, ObservedType
  <2>2. DOMAIN lessons' = Lesson /\ lessons' = [l \in Lesson |-> lessons'[l]]
    BY <1>1
  <2> QED
    BY <2>1, <2>2
<1>6. \A l \in Written' \ Written : \E s \in Created : new[s] = l /\ lessons'[l] = Observed(s)
  BY <1>4 DEF Written
<1>7. IsFiniteSet(Written')
  <2> DEFINE R == {new[s] : s \in Created}
  <2>1. new \in Surjection(Created, R)
    BY DEF Surjection
  <2>2. IsFiniteSet(R) /\ IsFiniteSet(Written)
    BY <1>2, <2>1, FS_Surjection DEF LessonTypeOK
  <2>3. Written' \subseteq Written \cup R
    BY <1>6
  <2> HIDE DEF R
  <2>4. IsFiniteSet(Written \cup R)
    BY <2>2, FS_Union
  <2> QED
    BY <2>3, <2>4, FS_Subset
<1>8. ASSUME NEW l \in Written' \ Written, NEW m \in Written' \ Written,
             lessons'[l].signatures = lessons'[m].signatures
      PROVE  l = m
  <2>1. PICK s \in Created : new[s] = l /\ lessons'[l] = Observed(s)
    BY <1>6
  <2>2. PICK t \in Created : new[t] = m /\ lessons'[m] = Observed(t)
    BY <1>6
  <2>3. {s} = {t}
    BY <1>8, <2>1, <2>2 DEF Observed
  <2> QED
    BY <2>1, <2>2, <2>3
<1> QED
  BY <1>3, <1>5, <1>6, <1>7, <1>8

\* The line a failure leaves.
LEMMA RecordedLine ==
  ASSUME NEW s, RecordFailure(s)
  PROVE  \E x : /\ x.signature = s /\ x.plan = IF active THEN current ELSE Planless
               /\ failures' = failures \cup {x}
<1> DEFINE p == IF active THEN current ELSE Planless
           x == [signature |-> s, plan |-> p,
                 nth |-> Cardinality({y \in failures : y.signature = s /\ y.plan = p})]
<1>1. failures' = failures \cup {x}
  BY DEF RecordFailure
<1>2. x.signature = s /\ x.plan = p
  OBVIOUS
<1> HIDE DEF x
<1> QED
  BY <1>1, <1>2

(* Log, lessons and history keep their shape. *)
THEOREM LessonType == LessonSpec => []LessonTypeOK
<1>1. LessonsInit => LessonTypeOK
  <2> SUFFICES ASSUME LessonsInit PROVE LessonTypeOK
    OBVIOUS
  <2>1. Written = {}
    BY DEF LessonsInit, Written
  <2> QED
    BY <2>1, FS_EmptySet DEF LessonsInit, LessonTypeOK
<1>2. LessonTypeOK /\ [LessonNext]_lessonVars => LessonTypeOK'
  <2> SUFFICES ASSUME LessonTypeOK, [LessonNext]_lessonVars PROVE LessonTypeOK'
    OBVIOUS
  <2> DEFINE LT == /\ lessons \in [Lesson -> LessonRecord \cup {NoLesson}] /\ IsFiniteSet(Written)
                   /\ \A l \in Written : lessons[l].lastSeen = Planless \/ lessons[l].lastSeen <= current
             FT == /\ IsFiniteSet(failures)
                   /\ \A x \in failures : /\ x.signature \in Signature
                                         /\ x.plan \in (1..current) \cup {Planless}
             OT == /\ current \in Nat \ {0} /\ active \in BOOLEAN /\ shared \subseteq Lesson
                   /\ occasions \in [Signature -> SUBSET Occasion]
  <2>t. (LT' /\ FT' /\ OT' => LessonTypeOK') /\ LT /\ FT /\ OT
    BY DEF LessonTypeOK
  <2>o. current' = current => Occasion' = Occasion
    BY DEF Occasion, OccasionsUpTo
  <2>w. ASSUME NEW l \in Lesson, NEW r \in LessonRecord \cup {NoLesson},
               lessons' = [lessons EXCEPT ![l] = r], current' = current,
               r = NoLesson \/ r.lastSeen = Planless \/ r.lastSeen <= current
        PROVE  LT'
    <3>1. Written' \subseteq Written \cup {l} /\ IsFiniteSet(Written \cup {l})
      BY <2>t, <2>w, FS_AddElement DEF Written
    <3>2. IsFiniteSet(Written')
      BY <3>1, FS_Subset
    <3>3. \A m \in Written' : lessons'[m].lastSeen = Planless \/ lessons'[m].lastSeen <= current'
      BY <2>t, <2>w, <3>1 DEF Written
    <3> QED
      BY <2>t, <2>w, <3>2, <3>3
  <2>1. ASSUME NEW s \in Signature, RecordFailure(s) PROVE LessonTypeOK'
    <3> DEFINE noted == IF active THEN current ELSE Planless
    <3>1. PICK x : x.signature = s /\ x.plan = noted /\ failures' = failures \cup {x}
      BY <2>1, RecordedLine
    <3>2. IsFiniteSet(failures')
      BY <2>t, <3>1, FS_AddElement
    <3>a. FT'
      BY <2>t, <2>1, <3>1, <3>2 DEF RecordFailure
    <3>3. <<noted, current>> \in Occasion
      BY <2>t DEF Occasion, OccasionsUpTo
    <3>4. OT'
      BY <2>t, <2>o, <2>1, <3>3 DEF RecordFailure
    <3>5. LT'
      BY <2>t, <2>1 DEF RecordFailure, Written
    <3> QED
      BY <2>t, <3>a, <3>4, <3>5
  <2>2. CASE OpenPlan
    <3>1. Occasion \subseteq Occasion' /\ current' = current + 1
      BY <2>t, <2>2 DEF OpenPlan, Occasion, OccasionsUpTo
    <3>2. OT'
      BY <2>t, <2>2, <3>1 DEF OpenPlan, historyOfLessons
    <3>3. FT'
      BY <2>t, <2>2 DEF OpenPlan
    <3>4. \A l \in Written : lessons[l].lastSeen = Planless \/ lessons[l].lastSeen <= current + 1
      BY <2>t, WrittenType DEF LessonRecord
    <3>5. LT'
      BY <2>t, <2>2, <3>4 DEF OpenPlan, Written
    <3> QED
      BY <2>t, <3>2, <3>3, <3>5
  <2>3. CASE EndPlanUncurated
    <3>1. OT' /\ LT' /\ FT'
      BY <2>t, <2>o, <2>3 DEF EndPlanUncurated, historyOfLessons, Written
    <3> QED
      BY <2>t, <3>1
  <2>4. ASSUME NEW read, IsRead(read), NEW now, Curate(read, Scan(read, now)) PROVE LessonTypeOK'
    <3>0. current' = current /\ failures' = {} /\ active' = FALSE /\ shared' = shared
          /\ occasions' = occasions
      BY <2>4 DEF Curate, historyOfLessons
    <3>1. FT' /\ OT'
      BY <2>t, <2>o, <3>0, FS_EmptySet
    <3>2. ASSUME NEW l \in Written'
          PROVE  lessons'[l].lastSeen = Planless \/ lessons'[l].lastSeen <= current
      <4>1. CASE l \in Written
        <5>1. CASE lessons'[l] = lessons[l]
          BY <2>t, <4>1, <5>1
        <5>2. CASE \E s \in Failed \cap lessons[l].signatures : lessons'[l] = Counted(read[l], s)
          BY <2>4, <4>1, <5>2, CountedType, FailedType
        <5> QED
          BY <2>4, <4>1, <5>1, <5>2, CuratedLessons
      <4>2. CASE l \notin Written
        <5>1. PICK s \in Created : lessons'[l] = Observed(s)
          BY <2>4, <4>2, CuratedLessons
        <5>2. s \in Signature
          BY FailedType DEF Created
        <5> QED
          BY <5>1, <5>2, ObservedType
      <4> QED
        BY <4>1, <4>2
    <3>3. LT'
      BY <2>4, <3>0, <3>2, CuratedLessons
    <3> QED
      BY <2>t, <3>1, <3>3
  <2>5. ASSUME NEW l \in Lesson, NEW s \in Signature, AddSignature(l, s) PROVE LessonTypeOK'
    <3>1. lessons' = [lessons EXCEPT ![l] = [lessons[l] EXCEPT !.signatures = @ \cup {s}]]
          /\ l \in Written
      BY <2>5 DEF AddSignature
    <3>2. /\ [lessons[l] EXCEPT !.signatures = @ \cup {s}] \in LessonRecord
          /\ [lessons[l] EXCEPT !.signatures = @ \cup {s}].lastSeen = lessons[l].lastSeen
      BY <3>1, WrittenType DEF LessonRecord
    <3>3. LT'
      BY <2>t, <2>5, <2>w, <3>1, <3>2 DEF AddSignature
    <3>4. FT' /\ OT'
      BY <2>t, <2>o, <2>5 DEF AddSignature, Written
    <3> QED
      BY <2>t, <3>3, <3>4
  <2>6. ASSUME NEW l \in Lesson, NEW s \in Signature, NEW seen \in {1, Commented}, SeedLesson(l, s, seen)
        PROVE  LessonTypeOK'
    <3> DEFINE r == [signatures |-> {s}, status |-> "OBSERVED", seen |-> seen, lastSeen |-> current,
                     rule |-> "none"]
    <3>1. lessons' = [lessons EXCEPT ![l] = r]
      BY <2>6 DEF SeedLesson
    <3>2. r \in LessonRecord /\ r.lastSeen <= current
      BY <2>t DEF LessonRecord, Status, Rule
    <3>3. LT'
      <4> HIDE DEF r
      <4> QED
        BY <2>6, <2>w, <3>1, <3>2 DEF SeedLesson
    <3>4. <<Planless, 0>> \in Occasion
      BY <2>t DEF Occasion, OccasionsUpTo
    <3>5. FT' /\ OT'
      BY <2>t, <2>o, <2>6, <3>4 DEF SeedLesson, Written
    <3> QED
      BY <2>t, <3>3, <3>5
  <2>7. ASSUME NEW l \in Lesson, Distill(l) PROVE LessonTypeOK'
    <3>1. lessons' = [lessons EXCEPT ![l] = [lessons[l] EXCEPT !.status = "DISTILLED"]] /\ l \in Written
      BY <2>7 DEF Distill
    <3>2. /\ [lessons[l] EXCEPT !.status = "DISTILLED"] \in LessonRecord
          /\ [lessons[l] EXCEPT !.status = "DISTILLED"].lastSeen = lessons[l].lastSeen
      BY <3>1, WrittenType DEF LessonRecord, Status
    <3>3. LT'
      BY <2>t, <2>7, <2>w, <3>1, <3>2 DEF Distill
    <3>4. FT' /\ OT'
      BY <2>t, <2>o, <2>7 DEF Distill, historyOfLessons
    <3> QED
      BY <2>t, <3>3, <3>4
  <2>8. ASSUME NEW l \in Lesson, NEW rule \in Rule, Promote(l, rule) PROVE LessonTypeOK'
    <3> DEFINE r == [lessons[l] EXCEPT !.status = "ENFORCED", !.rule = rule]
    <3>1. lessons' = [lessons EXCEPT ![l] = r] /\ l \in Written
      BY <2>8 DEF Promote
    <3>2. r \in LessonRecord /\ r.lastSeen = lessons[l].lastSeen
      BY <3>1, WrittenType DEF LessonRecord, Status
    <3>3. LT'
      <4> HIDE DEF r
      <4>1. current' = current
        BY <2>8 DEF Promote
      <4>2. r.lastSeen = Planless \/ r.lastSeen <= current
        BY <2>t, <3>1, <3>2
      <4> HIDE DEF LT
      <4> QED
        BY <2>w, <3>1, <3>2, <4>1, <4>2
    <3>4. FT' /\ OT'
      BY <2>t, <2>o, <2>8 DEF Promote, historyOfLessons
    <3> QED
      BY <2>t, <3>3, <3>4
  <2>9. ASSUME NEW l \in Lesson, DeleteStale(l) PROVE LessonTypeOK'
    <3>1. LT'
      BY <2>9, <2>w DEF DeleteStale
    <3>2. FT' /\ OT'
      BY <2>t, <2>o, <2>9 DEF DeleteStale
    <3> QED
      BY <2>t, <3>1, <3>2
  <2>10. CASE UNCHANGED lessonVars
    BY <2>10 DEF lessonVars, historyOfLessons, LessonTypeOK, Written, Occasion
  <2>11. ASSUME NEW filed, \/ Curate(ReadLessons, Scan(ReadLessons, CurrentPlan(ReadLessons, filed)))
                           \/ Curate(ReadLessonsPy, ScanPy(filed))
         PROVE  LessonTypeOK'
    BY <2>4, <2>11, ReadsRead DEF ScanPy
  <2> QED
    BY <2>1, <2>2, <2>3, <2>5, <2>6, <2>7, <2>8, <2>9, <2>10, <2>11 DEF LessonNext, Keep, Rule
<1> QED
  BY <1>1, <1>2, PTL DEF LessonSpec

-----------------------------------------------------------------------------
\* What a repository remembers of a signature: an occasion is older than the
\* log, or in it.
LEMMA LoggedOrOld ==
  ASSUME LessonTypeOK, NEW k \in 0..current, LinesAreNew(k), NewAreLogged(k),
         NEW s \in Signature, NEW p \in 1..current, <<p, p>> \in occasions[s]
  PROVE  /\ p <= k \/ (p \in PlansOf(s) /\ s \in Failed)
         /\ PlansOf(s) # {} => p <= Newest(PlansOf(s))
<1>0. current \in Nat /\ k \in Nat /\ p \in Nat
  BY DEF LessonTypeOK
<1>1. p <= k \/ (p \in PlansOf(s) /\ s \in Failed)
  <2> SUFFICES ASSUME p > k PROVE p \in PlansOf(s) /\ s \in Failed
    BY <1>0
  <2>1. PICK x \in failures : x.signature = s /\ x.plan = p
    BY DEF NewAreLogged
  <2>2. p # Planless
    BY <1>0, ValuesOfLessons
  <2> QED
    BY <2>1, <2>2 DEF PlansOf, Failed
<1>2. ASSUME PlansOf(s) # {} PROVE p <= Newest(PlansOf(s))
  <2>1. /\ Newest(PlansOf(s)) \in PlansOf(s) /\ PlansOf(s) \subseteq 1..current
        /\ \A q \in PlansOf(s) : q <= Newest(PlansOf(s))
    BY <1>0, <1>2, PlansOfType, NewestIsGreatest
  <2>2. Newest(PlansOf(s)) > k
    BY <2>1 DEF PlansOf, LinesAreNew
  <2> QED
    BY <1>0, <1>1, <2>1, <2>2
<1> QED
  BY <1>1, <1>2

(* After a curation everything that was logged is old. *)
LEMMA CurateInv ==
  ASSUME LessonTypeOK, EnforcedIsEarned, NEW k \in 0..current, CuratedUpTo(k),
         NEW read, IsRead(read), NEW now, Curate(read, Scan(read, now))
  PROVE  EnforcedIsEarned' /\ CuratedUpTo(current)'
<1>0. /\ current' = current /\ failures' = {} /\ active /\ active' = FALSE /\ shared' = shared
      /\ occasions' = occasions /\ current \in Nat /\ k \in Nat
      /\ occasions \in [Signature -> SUBSET Occasion]
  BY DEF Curate, historyOfLessons, LessonTypeOK
<1>f. Failed \subseteq Signature /\ Created \subseteq Signature
  BY FailedType DEF Created
<1>x. \A s \in Failed : \E x \in failures : x.signature = s
  BY DEF Failed
<1>o. \A s : Observed(s).signatures = {s} /\ Observed(s).status = "OBSERVED"
  BY DEF Observed
<1>1. ASSUME NEW l \in Written
      PROVE  \/ /\ lessons'[l] = lessons[l]
                /\ \A s \in Failed : ~(\A m \in Written : s \in lessons[m].signatures <=> m = l)
             \/ \E s \in Failed \cap lessons[l].signatures : lessons'[l] = Counted(read[l], s)
  BY CuratedLessons
<1>2. ASSUME NEW l \in Written' \ Written
      PROVE  \E s \in Created : lessons'[l] = Observed(s)
  BY CuratedLessons
<1>3. \A l \in Written : /\ lessons'[l].signatures = lessons[l].signatures
                         /\ lessons'[l].status = lessons[l].status
                         /\ lessons'[l].rule = lessons[l].rule
                         /\ OccasionsOf(l)' = OccasionsOf(l)
  <2> TAKE l \in Written
  <2>1. /\ lessons'[l].signatures = lessons[l].signatures
        /\ lessons'[l].status = lessons[l].status
        /\ lessons'[l].rule = lessons[l].rule
    BY <1>1, <1>f, CountedType
  <2> QED
    BY <1>0, <2>1 DEF OccasionsOf
<1>4. EnforcedIsEarned'
  <2> SUFFICES ASSUME NEW l \in Written', lessons'[l].status = "ENFORCED"
               PROVE  lessons'[l].rule = "real" /\ Cardinality(OccasionsOf(l)') >= 3
    BY DEF EnforcedIsEarned
  <2>1. l \in Written
    BY <1>2, <1>o
  <2> QED
    BY <1>3, <2>1 DEF EnforcedIsEarned
<1>5. CountsAreOld(current)'
  <2> SUFFICES ASSUME NEW l \in Written'
               PROVE  lessons'[l].seen = Commented
                      \/ lessons'[l].seen <= Cardinality(OldOf(OccasionsOf(l)', current))
    BY <1>0 DEF CountsAreOld, OldOf
  <2>1. CASE l \in Written
    <3> DEFINE U == OccasionsOf(l)
    <3>1. OccasionsOf(l)' = U /\ IsFiniteSet(U) /\ U \subseteq Occasion
      BY <1>3, <2>1, OccasionsOfFinite
    <3>2. lessons[l].seen = Commented
          \/ (lessons[l].seen \in Nat /\ lessons[l].seen <= Cardinality(OldOf(U, k)))
      BY <2>1, WrittenType DEF CuratedUpTo, CountsAreOld, LessonRecord
    <3>3. /\ OldOf(U, k) \subseteq OldOf(U, current) /\ IsFiniteSet(OldOf(U, current))
      <4>1. OldOf(U, k) \subseteq OldOf(U, current)
        BY <3>1, AgesOnly DEF OldOf
      <4>2. OldOf(U, current) \subseteq U
        BY DEF OldOf
      <4> QED
        BY <3>1, <4>1, <4>2, FS_Subset
    <3>4. /\ Cardinality(OldOf(U, k)) <= Cardinality(OldOf(U, current))
          /\ Cardinality(OldOf(U, k)) \in Nat /\ Cardinality(OldOf(U, current)) \in Nat
      <4>1. IsFiniteSet(OldOf(U, k))
        BY <3>3, FS_Subset
      <4> QED
        BY <3>3, <4>1, FS_Subset, FS_CardinalityType
    <3>5. CASE lessons'[l] = lessons[l]
      BY <3>1, <3>2, <3>4, <3>5
    <3>6. ASSUME NEW s \in Failed \cap lessons[l].signatures, lessons'[l] = Counted(read[l], s)
          PROVE  lessons'[l].seen = Commented
                 \/ lessons'[l].seen <= Cardinality(OldOf(U, current))
      <4>1. s \in Signature /\ occasions[s] \subseteq U
        BY <1>f, <3>6 DEF OccasionsOf
      <4>2. PICK x \in failures : x.signature = s
        BY <1>x
      <4>3. Cardinality(OldOf(U, k)) + Occ(s) <= Cardinality(OldOf(U, current))
        BY <1>0, <3>1, <4>1, <4>2, CountsAdd DEF CuratedUpTo
      <4>4. lessons'[l].seen = Plus(read[l].seen, Occ(s)) /\ Occ(s) \in Nat
        BY <2>1, <3>6, <4>1, CountedType, OccType
      <4>5. read[l].seen = Commented
            \/ (read[l].seen \in Nat /\ read[l].seen <= Cardinality(OldOf(U, k)))
        BY <2>1, <3>2, <3>4 DEF IsRead
      <4>6. CASE read[l].seen = Commented
        BY <4>4, <4>6 DEF Plus
      <4>7. CASE read[l].seen # Commented
        <5>1. lessons'[l].seen = read[l].seen + Occ(s)
          BY <4>4, <4>7 DEF Plus
        <5> QED
          BY <3>4, <4>3, <4>4, <4>5, <4>7, <5>1
      <4> QED
        BY <4>6, <4>7
    <3> QED
      BY <1>1, <2>1, <3>1, <3>5, <3>6
  <2>2. CASE l \notin Written
    <3>1. PICK s \in Created : lessons'[l] = Observed(s)
      BY <1>2, <2>2
    <3> DEFINE U == occasions[s]
    <3>2. OccasionsOf(l)' = U /\ lessons'[l].seen = Occ(s)
      BY <1>0, <3>1 DEF OccasionsOf, Observed
    <3>3. IsFiniteSet(U) /\ U \subseteq Occasion
      <4>1. U \subseteq Occasion
        BY <1>0, <1>f
      <4>2. IsFiniteSet(Occasion)
        BY <1>0, OccasionsFinite DEF Occasion
      <4> QED
        BY <4>1, <4>2, FS_Subset
    <3>4. PICK x \in failures : x.signature = s
      BY <1>x DEF Created
    <3>5. Cardinality(OldOf(U, k)) + Occ(s) <= Cardinality(OldOf(U, current))
      BY <1>0, <1>f, <3>3, <3>4, CountsAdd DEF CuratedUpTo
    <3>6. /\ Cardinality(OldOf(U, k)) \in Nat /\ Cardinality(OldOf(U, current)) \in Nat
          /\ Occ(s) \in Nat
      BY <3>3, CountsGrow, OccType
    <3> QED
      BY <3>2, <3>5, <3>6
  <2> QED
    BY <2>1, <2>2
<1>6. AloneRemember(current)'
  <2> SUFFICES ASSUME NEW l \in Written' \ shared
               PROVE  \E s \in Signature :
                        /\ lessons'[l].signatures = {s}
                        /\ \A m \in Written' \ {l} : s \notin lessons'[m].signatures
                        /\ lessons'[l].lastSeen # Planless =>
                             \A p \in 1..current : <<p, p>> \in occasions[s] => p <= lessons'[l].lastSeen
    BY <1>0 DEF AloneRemember
  <2>0. \A m \in Written' \ Written : \E t \in Created : lessons'[m].signatures = {t}
    BY <1>2, <1>o
  <2>1. CASE l \in Written
    <3>1. PICK s \in Signature :
            /\ lessons[l].signatures = {s} /\ \A m \in Written \ {l} : s \notin lessons[m].signatures
            /\ lessons[l].lastSeen # Planless =>
                 \A p \in 1..current : p <= k /\ <<p, p>> \in occasions[s] => p <= lessons[l].lastSeen
      BY <2>1 DEF CuratedUpTo, AloneRemember
    <3>2. \A m \in Written' \ {l} : s \notin lessons'[m].signatures
      <4> TAKE m \in Written' \ {l}
      <4>1. CASE m \in Written
        BY <1>3, <3>1, <4>1
      <4>2. CASE m \notin Written
        BY <2>0, <2>1, <3>1, <4>2 DEF Created
      <4> QED
        BY <4>1, <4>2
    <3>3. lessons'[l].signatures = {s}
      BY <1>3, <2>1, <3>1
    <3>4. ASSUME lessons'[l].lastSeen # Planless, NEW p \in 1..current, <<p, p>> \in occasions[s]
          PROVE  p <= lessons'[l].lastSeen
      <4>0. /\ p <= k \/ (p \in PlansOf(s) /\ s \in Failed)
            /\ PlansOf(s) # {} => p <= Newest(PlansOf(s))
        BY <3>4, LoggedOrOld DEF CuratedUpTo
      <4>1. CASE lessons'[l] = lessons[l]
                 /\ \A t \in Failed : ~(\A m \in Written : t \in lessons[m].signatures <=> m = l)
        <5>1. s \notin Failed
          BY <2>1, <3>1, <4>1
        <5> QED
          BY <3>1, <3>4, <4>0, <4>1, <5>1
      <4>2. CASE \E t \in Failed \cap lessons[l].signatures : lessons'[l] = Counted(read[l], t)
        <5>1. lessons'[l] = Counted(read[l], s)
          BY <3>1, <4>2
        <5>2. lessons'[l].lastSeen
                = IF PlansOf(s) = {} THEN lessons[l].lastSeen ELSE Newest(PlansOf(s))
          BY <2>1, <5>1, CountedType
        <5> QED
          BY <3>1, <3>4, <4>0, <5>2
      <4> QED
        BY <1>1, <2>1, <4>1, <4>2
    <3> QED
      BY <3>2, <3>3, <3>4
  <2>2. CASE l \notin Written
    <3>1. PICK s \in Created : lessons'[l] = Observed(s)
      BY <1>2, <2>2
    <3>2. lessons'[l].signatures = {s}
          /\ lessons'[l].lastSeen = IF PlansOf(s) = {} THEN Planless ELSE Newest(PlansOf(s))
      BY <3>1 DEF Observed
    <3>3. \A m \in Written' \ {l} : s \notin lessons'[m].signatures
      <4> TAKE m \in Written' \ {l}
      <4>1. CASE m \in Written
        BY <1>3, <3>1, <4>1 DEF Created
      <4>2. CASE m \notin Written
        <5>1. PICK t \in Created : lessons'[m].signatures = {t}
          BY <2>0, <4>2
        <5>2. lessons'[l].signatures # lessons'[m].signatures
          BY <2>2, <4>2, CuratedLessons
        <5> QED
          BY <3>2, <5>1, <5>2
      <4> QED
        BY <4>1, <4>2
    <3>4. ASSUME lessons'[l].lastSeen # Planless, NEW p \in 1..current, <<p, p>> \in occasions[s]
          PROVE  p <= lessons'[l].lastSeen
      BY <1>f, <3>2, <3>4, LoggedOrOld DEF CuratedUpTo
    <3> QED
      BY <1>f, <3>2, <3>3, <3>4
  <2> QED
    BY <2>1, <2>2
<1>7. LinesAreNew(current)' /\ NotCuratedYet(current)'
  BY <1>0 DEF LinesAreNew, NotCuratedYet
<1>8. NewAreLogged(current)'
  BY <1>0 DEF NewAreLogged
<1> QED
  BY <1>4, <1>5, <1>6, <1>7, <1>8 DEF CuratedUpTo

\* Where occasions are only added, counts stay covered.
LEMMA CountsStay ==
  ASSUME LessonTypeOK', NEW k, NEW l \in Written, NEW m \in Written',
         OccasionsOf(l) \subseteq OccasionsOf(m)',
         \A s \in Signature : occasions'[s] \subseteq OccasionsUpTo(current')
  PROVE  /\ Cardinality(OldOf(OccasionsOf(l), k)) <= Cardinality(OldOf(OccasionsOf(m)', k))
         /\ Cardinality(OldOf(OccasionsOf(l), k)) \in Nat
         /\ Cardinality(OldOf(OccasionsOf(m)', k)) \in Nat
         /\ Cardinality(OccasionsOf(l)) <= Cardinality(OccasionsOf(m)')
         /\ Cardinality(OccasionsOf(l)) \in Nat /\ Cardinality(OccasionsOf(m)') \in Nat
<1>1. lessons'[m].signatures \subseteq Signature /\ current' \in Nat
  BY DEF LessonTypeOK, Written, LessonRecord
<1>2. OccasionsOf(m)' \subseteq OccasionsUpTo(current')
  BY <1>1 DEF OccasionsOf
<1>3. IsFiniteSet(OccasionsOf(m)')
  BY <1>1, <1>2, OccasionsFinite, FS_Subset
<1> QED
  BY <1>3, CountsGrow

(* Since the last curated plan k: counts are covered by older occasions,   *)
(* the log holds the newer ones, and an enforced lesson has earned it.     *)
THEOREM LessonInvariant == LessonSpec => []LessonInv
<1>1. LessonsInit => LessonInv
  <2> SUFFICES ASSUME LessonsInit PROVE LessonInv
    OBVIOUS
  <2>1. LessonTypeOK
    <3>1. Written = {}
      BY DEF LessonsInit, Written
    <3> QED
      BY <3>1, FS_EmptySet DEF LessonsInit, LessonTypeOK
  <2>2. Written = {} /\ 0 \in 0..current
    BY DEF LessonsInit, Written
  <2>3. CuratedUpTo(0) /\ EnforcedIsEarned
    BY <2>2 DEF LessonsInit, CuratedUpTo, CountsAreOld, LinesAreNew, NewAreLogged, NotCuratedYet,
                AloneRemember, EnforcedIsEarned
  <2> QED
    BY <2>1, <2>2, <2>3 DEF LessonInv
<1>2. LessonTypeOK /\ LessonTypeOK' /\ LessonInv /\ [LessonNext]_lessonVars => LessonInv'
  <2> SUFFICES ASSUME LessonTypeOK, LessonTypeOK', LessonInv, [LessonNext]_lessonVars PROVE LessonInv'
    OBVIOUS
  <2>1. PICK k \in 0..current : CuratedUpTo(k)
    BY DEF LessonInv
  <2>2. /\ EnforcedIsEarned
        /\ CountsAreOld(k) /\ LinesAreNew(k) /\ NewAreLogged(k) /\ NotCuratedYet(k) /\ AloneRemember(k)
    BY <2>1 DEF LessonInv, CuratedUpTo
  <2>3. /\ current \in Nat \ {0} /\ k \in Nat /\ k <= current /\ active \in BOOLEAN
        /\ Planless \notin Nat
        /\ occasions \in [Signature -> SUBSET OccasionsUpTo(current)]
        /\ lessons \in [Lesson -> LessonRecord \cup {NoLesson}]
        /\ \A s \in Signature : occasions'[s] \subseteq OccasionsUpTo(current')
    BY ValuesOfLessons DEF LessonTypeOK, Occasion
  <2>4. ASSUME NEW j \in 0..current', EnforcedIsEarned',
               CountsAreOld(j)', LinesAreNew(j)', NewAreLogged(j)', NotCuratedYet(j)', AloneRemember(j)'
        PROVE  LessonInv'
    BY <2>4 DEF LessonInv, CuratedUpTo
  \* Steps that add occasions, and leave counts, promotions and claims as they are.
  <2>5. ASSUME \A m \in Written' :
                 /\ m \in Written /\ OccasionsOf(m) \subseteq OccasionsOf(m)'
                 /\ lessons'[m].seen = lessons[m].seen /\ lessons'[m].status = lessons[m].status
                 /\ lessons'[m].rule = lessons[m].rule
        PROVE  CountsAreOld(k)' /\ EnforcedIsEarned'
    <3>1. ASSUME NEW m \in Written'
          PROVE  \/ lessons'[m].seen = Commented
                 \/ lessons'[m].seen <= Cardinality(OldOf(OccasionsOf(m)', k))
      <4>1. lessons[m].seen = Commented
            \/ (lessons[m].seen \in Nat /\ lessons[m].seen <= Cardinality(OldOf(OccasionsOf(m), k)))
        BY <2>2, <2>5, WrittenType DEF CountsAreOld, LessonRecord
      <4>2. /\ Cardinality(OldOf(OccasionsOf(m), k)) <= Cardinality(OldOf(OccasionsOf(m)', k))
            /\ Cardinality(OldOf(OccasionsOf(m), k)) \in Nat
            /\ Cardinality(OldOf(OccasionsOf(m)', k)) \in Nat
        BY <2>3, <2>5, CountsStay
      <4> QED
        BY <2>5, <4>1, <4>2
    <3>2. ASSUME NEW m \in Written', lessons'[m].status = "ENFORCED"
          PROVE  lessons'[m].rule = "real" /\ Cardinality(OccasionsOf(m)') >= 3
      BY <2>2, <2>3, <2>5, <3>2, CountsStay DEF EnforcedIsEarned
    <3> QED
      BY <3>1, <3>2 DEF CountsAreOld, EnforcedIsEarned, OldOf, IsOld
  <2>6. ASSUME NEW s \in Signature, RecordFailure(s) PROVE LessonInv'
    <3> DEFINE noted == IF active THEN current ELSE Planless
    <3>1. PICK x : x.signature = s /\ x.plan = noted /\ failures' = failures \cup {x}
      BY <2>6, RecordedLine
    <3>2. /\ lessons' = lessons /\ current' = current /\ active' = active /\ shared' = shared
          /\ Written' = Written
          /\ occasions' = [occasions EXCEPT ![s] = @ \cup {<<noted, current>>}]
      BY <2>6 DEF RecordFailure, Written
    <3>3. \A t \in Signature : /\ occasions[t] \subseteq occasions'[t]
                               /\ occasions'[t] \subseteq occasions[t] \cup {<<noted, current>>}
                               /\ <<noted, current>> \in occasions'[s]
      BY <2>3, <3>2
    <3>4. CountsAreOld(k)' /\ EnforcedIsEarned'
      <4>1. \A m \in Written' : OccasionsOf(m) \subseteq OccasionsOf(m)'
        BY <3>2, <3>3, WrittenType DEF OccasionsOf, LessonRecord
      <4> QED
        BY <2>5, <3>2, <4>1
    <3>5. LinesAreNew(k)'
      <4>1. ASSUME NEW y \in failures
            PROVE  IF y.plan = Planless
                   THEN \E c \in k..current : c # 0 /\ <<Planless, c>> \in occasions'[y.signature]
                   ELSE y.plan > k /\ <<y.plan, y.plan>> \in occasions'[y.signature]
        <5>1. y.signature \in Signature
          BY DEF LessonTypeOK
        <5> QED
          BY <2>2, <3>3, <5>1 DEF LinesAreNew
      <4>2. IF x.plan = Planless
            THEN \E c \in k..current : c # 0 /\ <<Planless, c>> \in occasions'[x.signature]
            ELSE x.plan > k /\ <<x.plan, x.plan>> \in occasions'[x.signature]
        <5>1. CASE active
          BY <2>2, <2>3, <3>1, <3>3, <5>1 DEF NotCuratedYet
        <5>2. CASE ~active
          <6>1. current \in k..current /\ current # 0
            BY <2>3
          <6> QED
            BY <3>1, <3>3, <5>2, <6>1
        <5> QED
          BY <5>1, <5>2
      <4> QED
        BY <3>1, <3>2, <4>1, <4>2 DEF LinesAreNew
    <3>6. NewAreLogged(k)'
      <4> SUFFICES ASSUME NEW t \in Signature, NEW p \in 1..current, p > k, <<p, p>> \in occasions'[t]
                   PROVE  \E y \in failures' : y.signature = t /\ y.plan = p
        BY <3>2 DEF NewAreLogged
      <4>1. CASE <<p, p>> \in occasions[t]
        BY <2>2, <3>1, <4>1 DEF NewAreLogged
      <4>2. CASE <<p, p>> \notin occasions[t]
        <5>1. t = s /\ <<p, p>> = <<noted, current>>
          BY <2>3, <3>2, <4>2
        <5> QED
          BY <3>1, <5>1
      <4> QED
        BY <4>1, <4>2
    <3>7. NotCuratedYet(k)'
      BY <2>2, <2>3, <3>2, <3>3 DEF NotCuratedYet
    <3>8. AloneRemember(k)'
      <4>1. \A t \in Signature, p \in 1..current :
              p <= k /\ <<p, p>> \in occasions'[t] => <<p, p>> \in occasions[t]
        BY <2>2, <2>3, <3>3 DEF NotCuratedYet
      <4> QED
        BY <2>2, <3>2, <4>1 DEF AloneRemember
    <3> QED
      BY <2>3, <2>4, <3>2, <3>4, <3>5, <3>6, <3>7, <3>8
  <2>7. CASE OpenPlan
    <3>1. /\ ~active /\ current' = current + 1 /\ failures' = failures /\ lessons' = lessons
          /\ occasions' = occasions /\ shared' = shared /\ Written' = Written
      BY <2>7 DEF OpenPlan, historyOfLessons, Written
    <3>2. \A s \in Signature : /\ <<Planless, current + 1>> \notin occasions[s]
                               /\ <<current + 1, current + 1>> \notin occasions[s]
      BY <2>3 DEF OccasionsUpTo
    <3>3. 1..current' = 1..current \cup {current + 1} /\ k..current \subseteq k..current'
          /\ k \in 0..current'
      BY <2>3, <3>1
    <3>4. CountsAreOld(k)' /\ EnforcedIsEarned'
      BY <2>5, <3>1 DEF OccasionsOf
    <3>5. LinesAreNew(k)'
      BY <2>2, <3>1, <3>3 DEF LinesAreNew
    <3>6. NewAreLogged(k)'
      BY <2>2, <3>1, <3>2, <3>3 DEF NewAreLogged
    <3>7. NotCuratedYet(k)'
      BY <2>3, <3>1, <3>2 DEF NotCuratedYet
    <3>8. AloneRemember(k)'
      BY <2>2, <3>1, <3>2, <3>3 DEF AloneRemember
    <3> QED
      BY <2>4, <3>3, <3>4, <3>5, <3>6, <3>7, <3>8
  <2>8. CASE EndPlanUncurated
    <3>1. /\ active' = FALSE /\ current' = current /\ failures' = failures /\ lessons' = lessons
          /\ occasions' = occasions /\ shared' = shared /\ Written' = Written
      BY <2>8 DEF EndPlanUncurated, historyOfLessons, Written
    <3>2. CountsAreOld(k)' /\ EnforcedIsEarned'
      BY <2>5, <3>1 DEF OccasionsOf
    <3>3. LinesAreNew(k)' /\ NewAreLogged(k)' /\ NotCuratedYet(k)' /\ AloneRemember(k)'
      BY <2>2, <3>1 DEF LinesAreNew, NewAreLogged, NotCuratedYet, AloneRemember
    <3> QED
      BY <2>4, <3>1, <3>2, <3>3
  <2>9. ASSUME NEW read, IsRead(read), NEW now, Curate(read, Scan(read, now)) PROVE LessonInv'
    <3>0. current' = current
      BY <2>9 DEF Curate
    <3>1. EnforcedIsEarned' /\ CuratedUpTo(current)'
      BY <2>1, <2>2, <2>9, CurateInv
    <3>2. current \in 0..current'
      BY <2>3, <3>0
    <3> QED
      BY <3>0, <3>1, <3>2 DEF LessonInv, CuratedUpTo, CountsAreOld, LinesAreNew, NewAreLogged,
                        NotCuratedYet, AloneRemember
  \* Steps of a human that leave signatures, counts and plans of a lesson.
  <2>10. ASSUME /\ failures' = failures /\ current' = current /\ active' = active
                /\ occasions' = occasions,
                \A m \in Written' :
                  /\ m \in Written /\ (m \notin shared' => m \notin shared)
                  /\ lessons'[m].signatures = lessons[m].signatures
                  /\ lessons'[m].seen = lessons[m].seen /\ lessons'[m].lastSeen = lessons[m].lastSeen
         PROVE  CuratedUpTo(k)'
    <3>1. CountsAreOld(k)'
      <4>1. \A m \in Written' : OccasionsOf(m)' = OccasionsOf(m)
        BY <2>10 DEF OccasionsOf
      <4> QED
        BY <2>2, <2>10, <4>1 DEF CountsAreOld, OldOf
    <3>2. LinesAreNew(k)' /\ NewAreLogged(k)' /\ NotCuratedYet(k)'
      BY <2>2, <2>10 DEF LinesAreNew, NewAreLogged, NotCuratedYet
    <3>3. AloneRemember(k)'
      BY <2>2, <2>10 DEF AloneRemember
    <3> QED
      BY <3>1, <3>2, <3>3 DEF CuratedUpTo
  <2>11. ASSUME NEW l \in Lesson, Distill(l) PROVE LessonInv'
    <3>1. \A m \in Written' :
            /\ m \in Written /\ lessons'[m].signatures = lessons[m].signatures
            /\ lessons'[m].seen = lessons[m].seen /\ lessons'[m].lastSeen = lessons[m].lastSeen
            /\ lessons'[m].rule = lessons[m].rule
            /\ lessons'[m].status = "ENFORCED" => lessons[m].status = "ENFORCED"
      BY <2>3, <2>11, WrittenType DEF Distill, Written, LessonRecord
    <3>2. CuratedUpTo(k)'
      BY <2>10, <2>11, <3>1 DEF Distill, historyOfLessons
    <3>3. EnforcedIsEarned'
      <4>1. \A m \in Written' : OccasionsOf(m)' = OccasionsOf(m)
        BY <2>11, <3>1 DEF Distill, historyOfLessons, OccasionsOf
      <4> QED
        BY <2>2, <3>1, <4>1 DEF EnforcedIsEarned
    <3> QED
      BY <2>3, <2>4, <2>11, <3>2, <3>3 DEF Distill, CuratedUpTo
  <2>12. ASSUME NEW l \in Lesson, NEW rule \in Rule, Promote(l, rule) PROVE LessonInv'
    <3>1. \A m \in Written' :
            /\ m \in Written /\ lessons'[m].signatures = lessons[m].signatures
            /\ lessons'[m].seen = lessons[m].seen /\ lessons'[m].lastSeen = lessons[m].lastSeen
            /\ m # l => lessons'[m] = lessons[m]
      BY <2>3, <2>12, WrittenType DEF Promote, Written, LessonRecord
    <3>2. CuratedUpTo(k)'
      BY <2>10, <2>12, <3>1 DEF Promote, historyOfLessons
    <3>3. EnforcedIsEarned'
      <4>1. \A m \in Written' : OccasionsOf(m)' = OccasionsOf(m)
        <5>1. occasions' = occasions
          BY <2>12 DEF Promote, historyOfLessons
        <5> QED
          BY <3>1, <5>1 DEF OccasionsOf
      <4>2. Cardinality(OccasionsOf(l)) >= 3
        BY <2>1, <2>12, ReadyIsEarned DEF Promote
      <4>3. lessons'[l].rule = rule
        BY <2>3, <2>12, WrittenType DEF Promote, LessonRecord
      <4>4. rule = "real"
        <5>1. \/ VerifyPromotion(lessons[l].status, rule, rule # "decorative")
              \/ VerifyPromotionPy(lessons[l].status, rule, rule # "decorative")
          BY <2>12 DEF Promote
        <5>2. rule \notin {"none", "overbroad", "decorative"}
          BY <5>1 DEF VerifyPromotion, VerifyPromotionPy
        <5> QED
          BY <5>2 DEF Rule
      <4> QED
        BY <2>2, <3>1, <4>1, <4>2, <4>3, <4>4 DEF EnforcedIsEarned
    <3> QED
      BY <2>3, <2>4, <2>12, <3>2, <3>3 DEF Promote, CuratedUpTo
  <2>13. ASSUME NEW l \in Lesson, DeleteStale(l) PROVE LessonInv'
    <3>1. /\ \A m \in Written' : m \in Written /\ lessons'[m] = lessons[m]
          /\ l \notin Written'
      BY <2>3, <2>13 DEF DeleteStale, Written
    <3>2. CuratedUpTo(k)'
      BY <2>10, <2>13, <3>1 DEF DeleteStale
    <3>3. EnforcedIsEarned'
      <4>1. \A m \in Written' : OccasionsOf(m)' = OccasionsOf(m)
        BY <2>13, <3>1 DEF DeleteStale, OccasionsOf
      <4> QED
        BY <2>2, <3>1, <4>1 DEF EnforcedIsEarned
    <3> QED
      BY <2>3, <2>4, <2>13, <3>2, <3>3 DEF DeleteStale, CuratedUpTo
  <2>14. ASSUME NEW l \in Lesson, NEW s \in Signature, AddSignature(l, s) PROVE LessonInv'
    <3> DEFINE others == {m \in Written : s \in lessons[m].signatures}
    <3>1. /\ failures' = failures /\ current' = current /\ active' = active /\ occasions' = occasions
          /\ shared' = shared \cup others \cup {l} /\ l \in Written
          /\ lessons' = [lessons EXCEPT ![l].signatures = @ \cup {s}]
      BY <2>14 DEF AddSignature
    <3>2. \A m \in Written' :
            /\ m \in Written /\ lessons[m].signatures \subseteq lessons'[m].signatures
            /\ lessons'[m].seen = lessons[m].seen /\ lessons'[m].status = lessons[m].status
            /\ lessons'[m].rule = lessons[m].rule
            /\ m # l => lessons'[m] = lessons[m]
            /\ lessons'[m].signatures \subseteq lessons[m].signatures \cup {s}
      BY <2>3, <3>1, WrittenType DEF Written, LessonRecord
    <3>3. CountsAreOld(k)' /\ EnforcedIsEarned'
      <4>1. \A m \in Written' : OccasionsOf(m) \subseteq OccasionsOf(m)'
        BY <3>1, <3>2 DEF OccasionsOf
      <4> QED
        BY <2>5, <3>2, <4>1
    <3>4. AloneRemember(k)'
      <4> SUFFICES ASSUME NEW m \in Written' \ shared'
                   PROVE  \E t \in Signature :
                            /\ lessons'[m].signatures = {t}
                            /\ \A n \in Written' \ {m} : t \notin lessons'[n].signatures
                            /\ lessons'[m].lastSeen # Planless =>
                                 \A p \in 1..current : p <= k /\ <<p, p>> \in occasions[t]
                                                        => p <= lessons'[m].lastSeen
        BY <3>1 DEF AloneRemember
      <4>1. m \in Written \ shared /\ m # l /\ s \notin lessons[m].signatures /\ lessons'[m] = lessons[m]
        BY <3>1, <3>2
      <4>2. PICK t \in Signature :
              /\ lessons[m].signatures = {t}
              /\ \A n \in Written \ {m} : t \notin lessons[n].signatures
              /\ lessons[m].lastSeen # Planless =>
                   \A p \in 1..current : p <= k /\ <<p, p>> \in occasions[t] => p <= lessons[m].lastSeen
        BY <2>2, <4>1 DEF AloneRemember
      <4>3. \A n \in Written' \ {m} : t \notin lessons'[n].signatures
        BY <3>2, <4>1, <4>2
      <4> QED
        BY <4>1, <4>2, <4>3
    <3>5. LinesAreNew(k)' /\ NewAreLogged(k)' /\ NotCuratedYet(k)'
      BY <2>2, <3>1 DEF LinesAreNew, NewAreLogged, NotCuratedYet
    <3> QED
      BY <2>3, <2>4, <3>1, <3>3, <3>4, <3>5
  <2>15. ASSUME NEW l \in Lesson, NEW s \in Signature, NEW seen \in {1, Commented}, SeedLesson(l, s, seen)
         PROVE  LessonInv'
    <3> DEFINE others == {m \in Written : s \in lessons[m].signatures}
               r == [signatures |-> {s}, status |-> "OBSERVED", seen |-> seen, lastSeen |-> current,
                     rule |-> "none"]
    <3>1. /\ failures' = failures /\ current' = current /\ active' = active
          /\ occasions' = [occasions EXCEPT ![s] = @ \cup {<<Planless, 0>>}]
          /\ shared' = IF others = {} THEN shared \ {l} ELSE shared \cup others \cup {l}
          /\ lessons' = [lessons EXCEPT ![l] = r] /\ l \notin Written
      BY <2>15 DEF SeedLesson, Unused
    <3>2. \A m \in Written' : m # l => m \in Written /\ lessons'[m] = lessons[m]
      BY <2>3, <3>1 DEF Written
    <3>3. /\ lessons'[l] = r /\ r.signatures = {s} /\ r.seen = seen /\ r.status = "OBSERVED"
          /\ r.lastSeen = current
      BY <2>3, <3>1
    <3>4. \A t \in Signature : /\ occasions[t] \subseteq occasions'[t]
                               /\ occasions'[t] \subseteq occasions[t] \cup {<<Planless, 0>>}
                               /\ <<Planless, 0>> \in occasions'[s]
      BY <2>3, <3>1
    <3> HIDE DEF r
    <3>5. ASSUME NEW m \in Written', m # l PROVE OccasionsOf(m) \subseteq OccasionsOf(m)'
      BY <3>2, <3>4, <3>5, WrittenType DEF OccasionsOf, LessonRecord
    <3>6. CountsAreOld(k)'
      <4> SUFFICES ASSUME NEW m \in Written'
                   PROVE  \/ lessons'[m].seen = Commented
                          \/ lessons'[m].seen <= Cardinality(OldOf(OccasionsOf(m)', k))
        BY DEF CountsAreOld, OldOf
      <4>1. CASE m # l
        <5>1. lessons[m].seen = Commented
              \/ (lessons[m].seen \in Nat /\ lessons[m].seen <= Cardinality(OldOf(OccasionsOf(m), k)))
          BY <2>2, <3>2, <4>1, WrittenType DEF CountsAreOld, LessonRecord
        <5>2. /\ Cardinality(OldOf(OccasionsOf(m), k)) <= Cardinality(OldOf(OccasionsOf(m)', k))
              /\ Cardinality(OldOf(OccasionsOf(m), k)) \in Nat
              /\ Cardinality(OldOf(OccasionsOf(m)', k)) \in Nat
          BY <2>3, <3>2, <3>5, <4>1, CountsStay
        <5> QED
          BY <3>2, <4>1, <5>1, <5>2
      <4>2. CASE m = l
        <5> DEFINE V == OccasionsOf(l)'
        <5>1. V = occasions'[s]
          BY <3>3 DEF OccasionsOf
        <5>2. IsFiniteSet(V)
          <6>1. V \subseteq OccasionsUpTo(current') /\ current' \in Nat
            BY <2>3, <3>1, <5>1
          <6> QED
            BY <6>1, OccasionsFinite, FS_Subset
        <5> HIDE DEF V
        <5>3. {<<Planless, 0>>} \subseteq OldOf(V, k)
          BY <3>4, <5>1 DEF OldOf, IsOld
        <5>4. OldOf(V, k) \subseteq V
          BY DEF OldOf
        <5>5. IsFiniteSet(OldOf(V, k))
          BY <5>2, <5>4, FS_Subset
        <5>6. Cardinality({<<Planless, 0>>}) = 1
          BY FS_Singleton
        <5>7. Cardinality({<<Planless, 0>>}) <= Cardinality(OldOf(V, k))
          BY <5>3, <5>5, FS_Subset
        <5> QED
          BY <2>15, <3>3, <4>2, <5>6, <5>7 DEF V
      <4> QED
        BY <4>1, <4>2
    <3>7. EnforcedIsEarned'
      <4> SUFFICES ASSUME NEW m \in Written', lessons'[m].status = "ENFORCED"
                   PROVE  lessons'[m].rule = "real" /\ Cardinality(OccasionsOf(m)') >= 3
        BY DEF EnforcedIsEarned
      <4>1. m # l
        BY <3>3
      <4> QED
        BY <2>2, <2>3, <3>2, <3>5, <4>1, CountsStay DEF EnforcedIsEarned
    <3>8. LinesAreNew(k)'
      <4>1. \A x \in failures : x.signature \in Signature
        BY DEF LessonTypeOK
      <4> QED
        BY <2>2, <3>1, <3>4, <4>1 DEF LinesAreNew
    <3>9. NewAreLogged(k)' /\ NotCuratedYet(k)'
      <4>1. \A t \in Signature, p \in 1..current : <<p, p>> \in occasions'[t] => <<p, p>> \in occasions[t]
        BY <2>3, <3>4
      <4>2. NewAreLogged(k)'
        BY <2>2, <3>1, <4>1 DEF NewAreLogged
      <4>3. NotCuratedYet(k)'
        BY <2>2, <2>3, <3>1, <3>4 DEF NotCuratedYet
      <4> QED
        BY <4>2, <4>3
    <3>10. AloneRemember(k)'
      <4> SUFFICES ASSUME NEW m \in Written' \ shared'
                   PROVE  \E t \in Signature :
                            /\ lessons'[m].signatures = {t}
                            /\ \A n \in Written' \ {m} : t \notin lessons'[n].signatures
                            /\ lessons'[m].lastSeen # Planless =>
                                 \A p \in 1..current : p <= k /\ <<p, p>> \in occasions'[t]
                                                        => p <= lessons'[m].lastSeen
        BY <3>1 DEF AloneRemember
      <4>0. \A t \in Signature, p \in 1..current : <<p, p>> \in occasions'[t] => <<p, p>> \in occasions[t]
        BY <2>3, <3>4
      <4>1. CASE m = l
        <5>1. others = {}
          BY <3>1, <4>1
        <5>2. \A n \in Written' \ {m} : s \notin lessons'[n].signatures
          BY <3>2, <4>1, <5>1
        <5>3. \A p \in 1..current : p <= lessons'[m].lastSeen
          BY <2>3, <3>3, <4>1
        <5> QED
          BY <3>3, <4>1, <5>2, <5>3
      <4>2. CASE m # l
        <5>1. m \in Written \ shared /\ m \notin others /\ lessons'[m] = lessons[m]
          BY <3>1, <3>2, <4>2
        <5>2. PICK t \in Signature :
                /\ lessons[m].signatures = {t}
                /\ \A n \in Written \ {m} : t \notin lessons[n].signatures
                /\ lessons[m].lastSeen # Planless =>
                     \A p \in 1..current : p <= k /\ <<p, p>> \in occasions[t] => p <= lessons[m].lastSeen
          BY <2>2, <5>1 DEF AloneRemember
        <5>3. \A n \in Written' \ {m} : t \notin lessons'[n].signatures
          BY <3>2, <3>3, <5>1, <5>2
        <5> QED
          BY <4>0, <5>1, <5>2, <5>3
      <4> QED
        BY <4>1, <4>2
    <3> QED
      BY <2>3, <2>4, <3>1, <3>6, <3>7, <3>8, <3>9, <3>10
  <2>16. CASE UNCHANGED lessonVars
    <3>1. /\ failures' = failures /\ lessons' = lessons /\ current' = current /\ active' = active
          /\ occasions' = occasions /\ shared' = shared
      BY <2>16 DEF lessonVars, historyOfLessons
    <3>2. Written' = Written
      BY <3>1 DEF Written
    <3>3. CuratedUpTo(k)'
      BY <2>10, <3>1, <3>2
    <3>4. EnforcedIsEarned'
      BY <2>2, <3>1, <3>2 DEF EnforcedIsEarned, OccasionsOf
    <3> QED
      BY <2>3, <2>4, <3>1, <3>3, <3>4 DEF CuratedUpTo
  <2>17. ASSUME NEW filed, \/ Curate(ReadLessons, Scan(ReadLessons, CurrentPlan(ReadLessons, filed)))
                           \/ Curate(ReadLessonsPy, ScanPy(filed))
         PROVE  LessonInv'
    BY <2>9, <2>17, ReadsRead DEF ScanPy
  <2> QED
    BY <2>6, <2>7, <2>8, <2>11, <2>12, <2>13, <2>14, <2>15, <2>16, <2>17 DEF LessonNext, Keep, Rule
<1> QED
  BY <1>1, <1>2, LessonType, PTL DEF LessonSpec

(* What is enforced or reported ready has failed on three occasions, and   *)
(* what is enforced blocks what it should and nothing else.                *)
THEOREM PromotionsAreEarned == LessonSpec => []PromotionIsEarned
<1>1. LessonInv => PromotionIsEarned
  <2> SUFFICES ASSUME LessonInv, NEW l \in Written
               PROVE  /\ Cardinality(OccasionsOf(l)) < 3 =>
                           /\ lessons[l].status # "ENFORCED"
                           /\ \A p \in Scans(~active) : l \notin p.ready
                      /\ lessons[l].status = "ENFORCED" => lessons[l].rule = "real"
    BY DEF PromotionIsEarned, OccasionsOf
  <2>1. PICK k \in 0..current : CuratedUpTo(k)
    BY DEF LessonInv
  <2>2. LessonTypeOK /\ EnforcedIsEarned
    BY DEF LessonInv
  <2>3. Cardinality(OccasionsOf(l)) \in Nat
    BY <2>2, OccasionsOfFinite, FS_CardinalityType
  <2>4. lessons[l].status = "ENFORCED" => lessons[l].rule = "real" /\ Cardinality(OccasionsOf(l)) >= 3
    BY <2>2 DEF EnforcedIsEarned
  <2>5. \A p \in Scans(~active) : l \in p.ready => Cardinality(OccasionsOf(l)) >= 3
    BY <2>1, <2>2, ReadyIsEarned
  <2> QED
    BY <2>3, <2>4, <2>5
<1> QED
  BY <1>1, LessonInvariant, PTL

(* Nothing is reported stale that one of the last plans recorded.          *)
THEOREM StaleAreQuiet == LessonSpec => []StaleIsQuiet
<1>1. LessonInv => StaleIsQuiet
  <2> SUFFICES ASSUME LessonInv, NEW l \in Written \ shared, NEW t \in lessons[l].signatures,
                      NEW o \in occasions[t], o[1] # Planless, current - o[1] < StaleAfter,
                      NEW scan \in Scans(~active), l \in scan.stale
               PROVE  FALSE
    BY DEF StaleIsQuiet
  <2>1. PICK k \in 0..current : CuratedUpTo(k)
    BY DEF LessonInv
  <2>2. LessonTypeOK
    BY DEF LessonInv
  <2>3. PICK ls, filed : IsRead(ls) /\ scan = Scan(ls, CurrentPlan(ls, filed))
    BY <2>2, ReadsRead DEF Scans, ScanPy
  <2> DEFINE now == CurrentPlan(ls, filed)
  <2>4. /\ Scan(ls, now).increments[l] = {} /\ ls[l].lastSeen # Planless
        /\ now # Planless /\ now - ls[l].lastSeen >= StaleAfter
    BY <2>3 DEF Scan, StaleCandidates
  <2>5. PICK s \in Signature :
          /\ lessons[l].signatures = {s} /\ \A m \in Written \ {l} : s \notin lessons[m].signatures
          /\ lessons[l].lastSeen # Planless =>
               \A p \in 1..current : p <= k /\ <<p, p>> \in occasions[s] => p <= lessons[l].lastSeen
    BY <2>1 DEF CuratedUpTo, AloneRemember
  <2>6. s \notin Failed
    BY <2>2, <2>3, <2>4, <2>5, ScanParts
  <2>7. PICK p \in 1..current : o = <<p, p>> /\ t = s
    BY <2>2, <2>5 DEF LessonTypeOK, Occasion, OccasionsUpTo
  <2>8. p <= k
    BY <2>1, <2>2, <2>6, <2>7, LoggedOrOld DEF CuratedUpTo
  <2>9. ls[l].lastSeen = lessons[l].lastSeen
    BY <2>3 DEF IsRead
  <2>10. p <= lessons[l].lastSeen
    BY <2>4, <2>5, <2>7, <2>8, <2>9
  <2>11. /\ now \in Nat /\ now <= current /\ current \in Nat /\ lessons[l].lastSeen \in Nat
         /\ StaleAfter \in Nat
    BY <2>2, <2>3, <2>4, <2>9, CurrentPlanType, WrittenType, BoundsOfLessons DEF LessonTypeOK, LessonRecord
  <2> QED
    BY <2>4, <2>7, <2>9, <2>10, <2>11
<1> QED
  BY <1>1, LessonInvariant, PTL

=============================================================================
