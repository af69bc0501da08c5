------------------------- MODULE RigelEvals_proofs --------------------------
(***************************************************************************)
(* Nightly: for any criteria, any values of --k, any number of nights and  *)
(* commits, an alarm is replicated and keeps ringing, and green was earned. *)
(* Champion: for any directories of trials, advice is fair.                *)
(***************************************************************************)
EXTENDS RigelNightly, RigelChampion, RigelInduction

\* What a baseline promises is what the first run, or a human, put there; the
\* trials of a directory can be counted.
NightlyInv ==
  /\ NightlyTypeOK
  /\ IsFiniteSet(DOMAIN dir) /\ night.next >= 1
  /\ baseline # NoFile => baseline = trusted

ReportsAreRight == AlarmIsReplicated /\ AlarmKeepsRinging /\ GreenIsEarned

-----------------------------------------------------------------------------
(* Counting trials. *)

LEMMA MinFailuresBounds ==
  ASSUME NEW k \in Nat, k >= 1
  PROVE  /\ MinFailures(k) \in Nat /\ 1 <= MinFailures(k) /\ MinFailures(k) <= k
         /\ 3 * MinFailures(k) >= 2 * k
         /\ k > 1 => MinFailures(k) > 1
  BY DEF MinFailures

LEMMA TallyIsCount ==
  ASSUME NightlyInv, NEW c
  PROVE  /\ Tally(dir, c, "FAIL") = Cardinality(FailedIn(c))
         /\ Tally(dir, c, "FAIL") \in Nat /\ Tally(dir, c, "PASS") \in Nat
         /\ Cardinality(DOMAIN dir) \in Nat /\ Tally(dir, c, "FAIL") <= Cardinality(DOMAIN dir)
         /\ DOMAIN dir # {} => Cardinality(DOMAIN dir) >= 1
         /\ Tally(dir, c, "FAIL") = 0 <=> FailedIn(c) = {}
         /\ Tally(dir, c, "PASS") > 0 => c \in AllCheckIds(dir)
<1>1. IsFiniteSet(DOMAIN dir)
  BY DEF NightlyInv
<1>2. FailedIn(c) = {i \in DOMAIN dir : Counts(dir[i], c, "FAIL")}
  BY DEF FailedIn, Counts
<1> DEFINE passed == {i \in DOMAIN dir : Counts(dir[i], c, "PASS")}
<1>3. IsFiniteSet(FailedIn(c)) /\ IsFiniteSet(passed)
  BY <1>1, <1>2, FS_Subset
<1>4. Cardinality(FailedIn(c)) \in Nat /\ Cardinality(passed) \in Nat /\ Cardinality(DOMAIN dir) \in Nat
  BY <1>1, <1>3, FS_CardinalityType
<1>5. Cardinality(FailedIn(c)) <= Cardinality(DOMAIN dir)
  BY <1>1, <1>2, FS_Subset
<1>6. Cardinality(FailedIn(c)) = 0 <=> FailedIn(c) = {}
  BY <1>3, FS_EmptySet
<1>7. DOMAIN dir # {} => Cardinality(DOMAIN dir) >= 1
  BY <1>1, <1>4, FS_EmptySet
<1>8. Cardinality(passed) > 0 => c \in AllCheckIds(dir)
  <2>1. Cardinality(passed) > 0 => passed # {}
    BY <1>3, FS_EmptySet
  <2> QED
    BY <2>1 DEF AllCheckIds, Counts
<1> QED
  BY <1>2, <1>4, <1>5, <1>6, <1>7, <1>8 DEF Tally

\* A directory maps the numbers of some trials to trials.
LEMMA DirShape ==
  ASSUME NEW d
  PROVE  d \in Dir <=> /\ DOMAIN d \subseteq UNION {1..k : k \in K}
                      /\ d \in [DOMAIN d -> Trial]
<1>1. ASSUME d \in Dir
      PROVE  DOMAIN d \subseteq UNION {1..k : k \in K} /\ d \in [DOMAIN d -> Trial]
  <2>1. PICK D \in SUBSET UNION {1..k : k \in K} : d \in [D -> Trial]
    BY <1>1 DEF Dir
  <2>2. DOMAIN d = D
    BY <2>1
  <2> QED
    BY <2>1, <2>2
<1>2. ASSUME DOMAIN d \subseteq UNION {1..k : k \in K}, d \in [DOMAIN d -> Trial]
      PROVE  d \in Dir
  <2> DEFINE N == UNION {1..k : k \in K}
  <2>1. DOMAIN d \in SUBSET N
    BY <1>2
  <2>2. [DOMAIN d -> Trial] \in {[D -> Trial] : D \in SUBSET N}
    BY <2>1, Zenon
  <2> QED
    BY <1>2, <2>2, Zenon DEF Dir
<1> QED
  BY <1>1, <1>2

LEMMA IdsAreChecks ==
  ASSUME NightlyTypeOK
  PROVE  AllCheckIds(dir) \subseteq Check
<1>1. \A i \in DOMAIN dir : dir[i] \in Trial
  BY DirShape DEF NightlyTypeOK
<1>2. \A i \in DOMAIN dir : DOMAIN dir[i].checks \subseteq Check
  BY <1>1 DEF Trial, Verdicts
<1> QED
  BY <1>2 DEF AllCheckIds

-----------------------------------------------------------------------------
LEMMA TrialType == \A t \in RunOneTrial : t \in Trial
<1>1. << >> \in Verdicts
  <2>1. << >> \in [{} -> {"PASS", "FAIL"}]
    OBVIOUS
  <2> QED
    BY <2>1 DEF Verdicts
<1>2. ChecksFromAcResults \subseteq Verdicts
  BY DEF ChecksFromAcResults, Verdicts, Check
<1> QED
  BY <1>1, <1>2 DEF RunOneTrial, Trial

(* A score's report has the shape of one, and its baseline is trusted.     *)
LEMMA ScoreType ==
  ASSUME NightlyInv, ScoreAndReport
  PROVE  NightlyInv'
<1>1. /\ AllCheckIds(dir) \subseteq Check
      /\ \A c : Cardinality(FailedIn(c)) \in Nat /\ Cardinality(DOMAIN dir) \in Nat
      /\ \A c : PassK(dir, c) => c \in AllCheckIds(dir)
  BY IdsAreChecks, TallyIsCount DEF NightlyInv, PassK
<1>2. baseline' = SetBaseline(dir, baseline)
      /\ trusted' = IF baseline = NoFile THEN {c \in Check : PassK(dir, c)} ELSE trusted
  BY DEF ScoreAndReport
<1>3. baseline' = NoFile \/ baseline' = trusted'
  BY <1>1, <1>2 DEF SetBaseline, NightlyInv
<1>4. baseline' \in (SUBSET Check) \cup {NoFile} /\ trusted' \in SUBSET Check
  BY <1>1, <1>2 DEF SetBaseline, NightlyInv, NightlyTypeOK
<1>5. report' \in [k : Nat, flagged : SUBSET Check, green : BOOLEAN,
                   passed : SUBSET Check, failed : [Check -> Nat], trusted : SUBSET Check]
  <2>1. DetectRegressions(dir, baseline) \subseteq Check
    BY <1>1 DEF DetectRegressions
  <2>2. Green(dir) \in BOOLEAN
    BY DEF Green
  <2>3. [c \in Check |-> Cardinality(FailedIn(c))] \in [Check -> Nat]
    BY <1>1
  <2>4. (IF baseline = NoFile THEN {} ELSE trusted) \in SUBSET Check
    BY DEF NightlyInv, NightlyTypeOK
  <2>5. Cardinality(DOMAIN dir) \in Nat /\ {c \in Check : PassK(dir, c)} \in SUBSET Check
    BY <1>1
  <2> DEFINE n == Cardinality(DOMAIN dir)
             flags == DetectRegressions(dir, baseline)
             gr == Green(dir)
             pass == {c \in Check : PassK(dir, c)}
             fails == [c \in Check |-> Cardinality(FailedIn(c))]
             tr == IF baseline = NoFile THEN {} ELSE trusted
  <2>6. report' = [k |-> n, flagged |-> flags, green |-> gr, passed |-> pass, failed |-> fails,
                   trusted |-> tr]
    BY DEF ScoreAndReport
  <2>7. n \in Nat /\ flags \in SUBSET Check /\ gr \in BOOLEAN /\ pass \in SUBSET Check
        /\ fails \in [Check -> Nat] /\ tr \in SUBSET Check
    BY <2>1, <2>2, <2>3, <2>4, <2>5
  <2> HIDE DEF n, flags, gr, pass, fails, tr
  <2> QED
    BY <2>6, <2>7
<1>6. UNCHANGED <<reference, dir, nights, commits>>
  BY DEF ScoreAndReport
<1>7. night' \in [phase : {"idle", "listed", "trials"}, k : K \cup {0}, next : Nat]
      /\ night'.next >= 1
  BY DEF ScoreAndReport, Idle
<1> QED
  BY <1>3, <1>4, <1>5, <1>6, <1>7 DEF NightlyInv, NightlyTypeOK

(* The night, its directory and its report keep their shape, and a         *)
(* baseline is what the first run or a human made of it.                   *)
THEOREM NightlyInvariant == NightlySpec => []NightlyInv
<1>1. NightlyInit => NightlyInv
  <2> SUFFICES ASSUME NightlyInit PROVE NightlyInv
    OBVIOUS
  <2>1. dir \in Dir /\ IsFiniteSet(DOMAIN dir)
    <3>1. << >> \in [{} -> Trial] /\ DOMAIN << >> = {}
      OBVIOUS
    <3>2. IsFiniteSet({})
      BY FS_EmptySet
    <3> QED
      BY <3>1, <3>2 DEF NightlyInit, Dir
  <2> QED
    BY <2>1, NightlyBoundsAssumption DEF NightlyInit, NightlyInv, NightlyTypeOK, Idle
<1>2. NightlyInv /\ [NightlyNext]_nightlyVars => NightlyInv'
  <2> SUFFICES ASSUME NightlyInv, [NightlyNext]_nightlyVars PROVE NightlyInv'
    OBVIOUS
  <2> USE DEF NightlyInv
  <2>0. /\ night \in [phase : {"idle", "listed", "trials"}, k : K \cup {0}, next : Nat]
        /\ night.next >= 1
    BY DEF NightlyTypeOK
  <2>1. ASSUME NEW k \in K, StartNight(k) PROVE NightlyInv'
    <3>1. night' \in [phase : {"idle", "listed", "trials"}, k : K \cup {0}, next : Nat]
          /\ night'.next >= 1
      BY <2>1 DEF StartNight
    <3>0. nights \in 0..MaxNights
      BY DEF NightlyTypeOK
    <3>2. nights' \in 0..MaxNights
      BY <2>1, <3>0, NightlyBoundsAssumption DEF StartNight
    <3> QED
      BY <2>1, <3>1, <3>2 DEF StartNight, NightlyTypeOK, trialVars
  <2>2. CASE StartTrials \/ NightDies
    <3>1. night' \in [phase : {"idle", "listed", "trials"}, k : K \cup {0}, next : Nat]
          /\ night'.next >= 1
      BY <2>0, <2>2 DEF StartTrials, NightDies, Idle
    <3> QED
      BY <2>2, <3>1 DEF StartTrials, NightDies, NightlyTypeOK, trialVars
  <2>3. ASSUME NEW t \in RunOneTrial, RunTrial(t) PROVE NightlyInv'
    <3> DEFINE D == DOMAIN dir \cup {night.next}
    <3>1. night.k \in K /\ night.next \in 1..night.k
      BY <2>0, <2>3, KAssumption DEF RunTrial
    <3>2. DOMAIN dir \subseteq UNION {1..k : k \in K} /\ dir \in [DOMAIN dir -> Trial]
      BY DirShape DEF NightlyTypeOK
    <3>3. D \subseteq UNION {1..k : k \in K} /\ dir' \in [D -> Trial] /\ DOMAIN dir' = D
      BY <2>3, <3>1, <3>2, TrialType DEF RunTrial
    <3>4. dir' \in Dir
      BY <3>3, DirShape
    <3>5. IsFiniteSet(DOMAIN dir')
      BY <3>3, FS_AddElement
    <3>6. night' \in [phase : {"idle", "listed", "trials"}, k : K \cup {0}, next : Nat]
          /\ night'.next >= 1
      BY <2>0, <2>3 DEF RunTrial
    <3> QED
      BY <2>3, <3>4, <3>5, <3>6 DEF RunTrial, NightlyTypeOK
  <2>4. CASE FinishNight \/ ScoreOnly
    BY <2>4, ScoreType DEF FinishNight, ScoreOnly
  <2>5. CASE NewCommit
    <3>1. dir' \in Dir /\ IsFiniteSet(DOMAIN dir')
      <4>1. << >> \in [{} -> Trial] /\ DOMAIN << >> = {}
        OBVIOUS
      <4>2. IsFiniteSet({})
        BY FS_EmptySet
      <4> QED
        BY <2>5, <4>1, <4>2 DEF NewCommit, Dir
    <3>0. commits \in 0..MaxCommits
      BY DEF NightlyTypeOK
    <3>2. commits' \in 0..MaxCommits
      BY <2>5, <3>0, NightlyBoundsAssumption DEF NewCommit
    <3> QED
      BY <2>5, <3>1, <3>2 DEF NewCommit, NightlyTypeOK
  <2>6. CASE AcceptBaseline
    BY <2>6 DEF AcceptBaseline, NightlyTypeOK
  <2>7. ASSUME NEW grade \in {"not green", "green"}, Regrade(grade) PROVE NightlyInv'
    BY <2>7 DEF Regrade, NightlyTypeOK
  <2>8. CASE UNCHANGED nightlyVars
    BY <2>8 DEF nightlyVars, trialVars, NightlyTypeOK
  <2> QED
    BY <2>1, <2>2, <2>3, <2>4, <2>5, <2>6, <2>7, <2>8 DEF NightlyNext
<1> QED
  BY <1>1, <1>2, PTL DEF NightlySpec

-----------------------------------------------------------------------------
(* What a score says of the trials it found. *)

LEMMA ScoreIsRight ==
  ASSUME NightlyInv, ScoreAndReport
  PROVE  ReportsAreRight'
<1> DEFINE n == Cardinality(DOMAIN dir)
           F(c) == Cardinality(FailedIn(c))
<1>1. /\ report'.k = n /\ report'.flagged = DetectRegressions(dir, baseline)
      /\ report'.green = Green(dir)
      /\ report'.trusted = IF baseline = NoFile THEN {} ELSE trusted
      /\ \A c \in Check : report'.failed[c] = F(c)
  BY DEF ScoreAndReport
<1>2. n \in Nat /\ n >= 1
  BY TallyIsCount DEF ScoreAndReport
<1>3. \A c : Tally(dir, c, "FAIL") = F(c) /\ F(c) \in Nat /\ Tally(dir, c, "PASS") \in Nat
  BY TallyIsCount
<1>4. \A c : F(c) = 0 <=> FailedIn(c) = {}
  BY TallyIsCount
<1>5. /\ MinFailures(n) \in Nat /\ 1 <= MinFailures(n) /\ MinFailures(n) <= n
      /\ 3 * MinFailures(n) >= 2 * n /\ (n > 1 => MinFailures(n) > 1)
  BY <1>2, MinFailuresBounds
<1>6. AllCheckIds(dir) \subseteq Check
  BY IdsAreChecks DEF NightlyInv
<1>7. \A c \in DetectRegressions(dir, baseline) :
        c \in AllCheckIds(dir) /\ F(c) >= MinFailures(n)
  BY <1>3 DEF DetectRegressions
<1> HIDE DEF n, F
<1>8. AlarmIsReplicated'
  <2> SUFFICES ASSUME NEW c \in report'.flagged
               PROVE  /\ 3 * report'.failed[c] >= 2 * report'.k
                      /\ report'.k > 1 => report'.failed[c] > 1
    BY DEF AlarmIsReplicated
  <2>1. c \in Check /\ F(c) >= MinFailures(n) /\ F(c) \in Nat
    BY <1>1, <1>3, <1>6, <1>7
  <2>2. 3 * F(c) >= 2 * n /\ (n > 1 => F(c) > 1)
    BY <1>2, <1>5, <2>1
  <2> QED
    BY <1>1, <2>1, <2>2
<1>9. AlarmKeepsRinging'
  <2> SUFFICES ASSUME NEW c \in report'.trusted, report'.failed[c] = report'.k
               PROVE  c \in report'.flagged
    BY DEF AlarmKeepsRinging
  <2>1. baseline # NoFile /\ c \in baseline /\ c \in Check
    BY <1>1 DEF NightlyInv, NightlyTypeOK
  <2>2. F(c) = n
    BY <1>1, <2>1
  <2>3. F(c) # 0
    BY <1>2, <2>2
  <2>4. c \in AllCheckIds(dir)
    BY <1>4, <2>3 DEF FailedIn, AllCheckIds
  <2>5. Tally(dir, c, "FAIL") >= MinFailures(Cardinality(DOMAIN dir))
    BY <1>2, <1>3, <1>5, <2>2 DEF n
  <2> QED
    BY <1>1, <2>1, <2>4, <2>5 DEF DetectRegressions
<1>10. GreenIsEarned'
  <2> SUFFICES ASSUME Green(dir)
               PROVE  report'.flagged = {} /\ \A c \in Check : report'.failed[c] = 0
    BY <1>1 DEF GreenIsEarned
  <2>1. \A c \in AllCheckIds(dir) : F(c) = 0
    BY <1>3 DEF Green, NoData, PassK
  <2>2. \A c \in Check : c \notin AllCheckIds(dir) => F(c) = 0
    BY <1>4 DEF FailedIn, AllCheckIds
  <2>3. DetectRegressions(dir, baseline) = {}
    BY <1>5, <1>7, <2>1
  <2> QED
    BY <1>1, <2>1, <2>2, <2>3
<1> QED
  BY <1>8, <1>9, <1>10 DEF ReportsAreRight

(* Every report, of a night or of --score-only, over whatever a directory  *)
(* holds: alarms are replicated, what was established rings as long as it  *)
(* fails, and green has no finished trial that failed.                     *)
LEMMA ReportsRight == NightlySpec => []AlarmIsReplicated /\ []AlarmKeepsRinging /\ []GreenIsEarned
<1>1. NightlyInit => ReportsAreRight
  BY DEF NightlyInit, ReportsAreRight, AlarmIsReplicated, AlarmKeepsRinging, GreenIsEarned
<1>2. NightlyInv /\ ReportsAreRight /\ [NightlyNext]_nightlyVars => ReportsAreRight'
  <2> SUFFICES ASSUME NightlyInv, ReportsAreRight, [NightlyNext]_nightlyVars
               PROVE  ReportsAreRight'
    OBVIOUS
  <2>1. CASE FinishNight \/ ScoreOnly
    BY <2>1, ScoreIsRight DEF FinishNight, ScoreOnly
  <2>2. CASE report' = report \/ report' = NoFile
    BY <2>2 DEF ReportsAreRight, AlarmIsReplicated, AlarmKeepsRinging, GreenIsEarned
  <2> QED
    BY <2>1, <2>2 DEF NightlyNext, nightlyVars, StartNight, StartTrials, RunTrial, NightDies,
       NewCommit, AcceptBaseline, Regrade
<1>3. ReportsAreRight => AlarmIsReplicated /\ AlarmKeepsRinging /\ GreenIsEarned
  BY DEF ReportsAreRight
<1> QED
  BY <1>1, <1>2, <1>3, NightlyInvariant, PTL DEF NightlySpec

(* An alarm rings for failures that were repeated and finished.            *)
THEOREM AlarmsReplicated == NightlySpec => []AlarmIsReplicated
BY ReportsRight, PTL

(* What was established and still fails keeps ringing, night after night.  *)
THEOREM AlarmsKeepRinging == NightlySpec => []AlarmKeepsRinging
BY ReportsRight, PTL

(* Green is earned by finished trials.                                     *)
THEOREM GreenEarned == NightlySpec => []GreenIsEarned
BY ReportsRight, PTL

-----------------------------------------------------------------------------
(* Champion: 40 * P(X <= k) is one at least when k is short of half the    *)
(* coins by five halves or less.  The last of these grows fourfold as the  *)
(* outcomes do (CdfQuadruples), and fewer coins make it likelier.          *)

\* The triangle, row by row.
LEMMA ChooseSteps ==
  /\ \A n, k \in Nat : Choose[n][k] \in Nat
  /\ \A n \in Nat : Choose[n][0] = 1
  /\ \A k \in Nat : k # 0 => Choose[0][k] = 0
  /\ \A n, k \in Nat : Choose[n + 1][k + 1] = Choose[n][k] + Choose[n][k + 1]
<1> DEFINE S == [Nat -> Nat]
           Next(row) == [k \in Nat |-> IF k = 0 THEN 1 ELSE row[k - 1] + row[k]]
           start == [k \in Nat |-> IF k = 0 THEN 1 ELSE 0]
           step == [p \in Nat \X S |-> Next(p[2])]
<1>1. \A row \in S : Next(row) \in S
  <2> SUFFICES ASSUME NEW row \in S, NEW k \in Nat
               PROVE  (IF k = 0 THEN 1 ELSE row[k - 1] + row[k]) \in Nat
    OBVIOUS
  <2>1. k # 0 => k - 1 \in Nat
    OBVIOUS
  <2> QED
    BY <2>1
<1>2. step \in [Nat \X S -> S] /\ start \in S
  <2>1. start \in S
    OBVIOUS
  <2> HIDE DEF S, Next, start
  <2> QED
    BY <1>1, <2>1
<1>3. PICK c \in [Nat -> S] : Iterates(c, start, step)
  <2> HIDE DEF S, step, start
  <2> QED
    BY <1>2, Iteration
<1>4. c[0] = start /\ \A n \in Nat : c[n + 1] = Next(c[n])
  <2>1. \A n \in Nat : <<n, c[n]>> \in Nat \X S
    OBVIOUS
  <2>2. \A n \in Nat : step[<<n, c[n]>>] = Next(c[n])
    <3> HIDE DEF S, Next
    <3> QED
      BY <2>1
  <2> HIDE DEF S, Next, start, step
  <2> QED
    BY <1>3, <2>2 DEF Iterates
<1> DEFINE Row(C, n) ==
             [k \in Nat |-> IF k = 0 THEN 1 ELSE IF n = 0 THEN 0 ELSE C[n - 1][k - 1] + C[n - 1][k]]
<1>5. c = [n \in Nat |-> Row(c, n)]
  <2> SUFFICES ASSUME NEW n \in Nat PROVE c[n] = Row(c, n)
    BY <1>3
  <2>1. CASE n = 0
    BY <1>4, <2>1
  <2>2. CASE n # 0
    <3>1. n - 1 \in Nat /\ n - 1 + 1 = n
      BY <2>2
    <3>2. c[n] = Next(c[n - 1])
      <4> HIDE DEF Next
      <4> QED
        BY <1>4, <3>1
    <3> QED
      BY <2>2, <3>2
  <2> QED
    BY <2>1, <2>2
<1>6. Choose = [n \in Nat |-> Row(Choose, n)]
  BY <1>5 DEF Choose
<1>7. \A n, k \in Nat : Choose[n][k] = IF k = 0 THEN 1 ELSE IF n = 0 THEN 0
                                       ELSE Choose[n - 1][k - 1] + Choose[n - 1][k]
  <2> SUFFICES ASSUME NEW n \in Nat, NEW k \in Nat
               PROVE  Choose[n][k] = IF k = 0 THEN 1 ELSE IF n = 0 THEN 0
                                     ELSE Choose[n - 1][k - 1] + Choose[n - 1][k]
    OBVIOUS
  <2>1. Choose[n] = Row(Choose, n)
    <3> HIDE DEF Row
    <3> QED
      BY <1>6
  <2>2. Row(Choose, n)[k] = IF k = 0 THEN 1 ELSE IF n = 0 THEN 0
                            ELSE Choose[n - 1][k - 1] + Choose[n - 1][k]
    OBVIOUS
  <2> QED
    BY <2>1, <2>2
<1> HIDE DEF Row
<1>8. ASSUME NEW n \in Nat, NEW k \in Nat
      PROVE  Choose[n + 1][k + 1] = Choose[n][k] + Choose[n][k + 1]
  <2> DEFINE m == n + 1
             j == k + 1
  <2>1. m \in Nat /\ m # 0 /\ m - 1 = n /\ j \in Nat /\ j # 0 /\ j - 1 = k
    OBVIOUS
  <2> HIDE DEF m, j
  <2>2. Choose[m][j] = Choose[m - 1][j - 1] + Choose[m - 1][j]
    BY <1>7, <2>1
  <2>3. Choose[m][j] = Choose[n][k] + Choose[n][j]
    BY <2>1, <2>2
  <2> QED
    BY <2>3 DEF m, j
<1>9. (\A n \in Nat : Choose[n][0] = 1) /\ (\A k \in Nat : k # 0 => Choose[0][k] = 0)
  BY <1>7
<1> DEFINE N == {n \in Nat : \A k \in Nat : Choose[n][k] \in Nat}
<1>10. 0 \in N
  BY <1>9
<1>11. ASSUME NEW n \in Nat, n \in N PROVE n + 1 \in N
  <2>1. ASSUME NEW k \in Nat PROVE Choose[n + 1][k] \in Nat
    <3>0. \A j \in Nat : Choose[n][j] \in Nat
      BY <1>11
    <3>1. CASE k = 0
      <4>1. n + 1 \in Nat
        OBVIOUS
      <4> QED
        BY <1>9, <3>1, <4>1
    <3>2. CASE k # 0
      <4> DEFINE j == k - 1
      <4>1. j \in Nat /\ j + 1 = k
        BY <3>2
      <4>2. Choose[n + 1][k] = Choose[n][j] + Choose[n][k]
        BY <1>8, <4>1
      <4>3. Choose[n][j] \in Nat /\ Choose[n][k] \in Nat
        BY <3>0, <4>1
      <4> HIDE DEF j
      <4>4. \A x, y \in Nat : x + y \in Nat
        OBVIOUS
      <4>5. Choose[n][j] + Choose[n][k] \in Nat
        BY <4>3, <4>4, Zenon
      <4> QED
        BY <4>2, <4>5, Zenon
    <3> QED
      BY <3>1, <3>2
  <2>2. n + 1 \in Nat
    OBVIOUS
  <2> QED
    BY <2>1, <2>2
<1>12. Nat \subseteq N
  <2> HIDE DEF N
  <2> QED
    BY <1>10, <1>11, AllNumbers
<1> QED
  BY <1>8, <1>9, <1>12

\* One coin more doubles what may show.
LEMMA OutcomesSteps ==
  /\ Outcomes[0] = 1
  /\ \A n \in Nat : Outcomes[n] \in Nat /\ Outcomes[n + 1] = 2 * Outcomes[n]
<1> DEFINE step == [p \in Nat \X Nat |-> 2 * p[2]]
           start == 1
<1>1. step \in [Nat \X Nat -> Nat] /\ start \in Nat
  OBVIOUS
<1>2. PICK c \in [Nat -> Nat] : Iterates(c, start, step)
  <2> HIDE DEF start, step
  <2> QED
    BY <1>1, Iteration
<1>3. c[0] = 1 /\ \A n \in Nat : c[n + 1] = 2 * c[n]
  <2>1. \A n \in Nat : step[<<n, c[n]>>] = 2 * c[n]
    OBVIOUS
  <2> QED
    BY <1>2, <2>1 DEF Iterates
<1>4. c = [n \in Nat |-> IF n = 0 THEN 1 ELSE 2 * c[n - 1]]
  <2> SUFFICES ASSUME NEW n \in Nat PROVE c[n] = IF n = 0 THEN 1 ELSE 2 * c[n - 1]
    OBVIOUS
  <2>1. n # 0 => n - 1 \in Nat /\ n - 1 + 1 = n
    OBVIOUS
  <2> QED
    BY <1>3, <2>1
<1>5. Outcomes = [n \in Nat |-> IF n = 0 THEN 1 ELSE 2 * Outcomes[n - 1]]
  BY <1>4 DEF Outcomes
<1>6. Outcomes[0] = 1
  BY <1>5
<1>7. ASSUME NEW n \in Nat PROVE Outcomes[n + 1] = 2 * Outcomes[n]
  <2>1. n + 1 \in Nat /\ n + 1 # 0 /\ n + 1 - 1 = n
    OBVIOUS
  <2> QED
    BY <1>5, <2>1
<1> DEFINE N == {n \in Nat : Outcomes[n] \in Nat}
<1>8. 0 \in N /\ \A n \in Nat : n \in N => n + 1 \in N
  BY <1>6, <1>7
<1>9. Nat \subseteq N
  <2> HIDE DEF N
  <2> QED
    BY <1>8, AllNumbers
<1> QED
  BY <1>6, <1>7, <1>9

\* The sum, term by term.
LEMMA CdfSteps ==
  ASSUME NEW n \in Nat
  PROVE  /\ BinomialCdf(n)[0] = 1
         /\ \A k \in Nat : /\ BinomialCdf(n)[k] \in Nat
                           /\ BinomialCdf(n)[k + 1] = BinomialCdf(n)[k] + Choose[n][k + 1]
<1> DEFINE row == [k \in Nat |-> Choose[n][k]]
           first == Choose[n][0]
           Sum == BinomialCdf(n)
<1>1. row \in [Nat -> Nat] /\ first \in Nat /\ first = 1
  BY ChooseSteps
<1>2. PICK s \in [Nat -> Nat] : s = [k \in Nat |-> IF k = 0 THEN first ELSE s[k - 1] + row[k]]
  <2> HIDE DEF row, first
  <2> QED
    BY <1>1, Total
<1>3. s = [k \in Nat |-> IF k = 0 THEN Choose[n][0] ELSE s[k - 1] + Choose[n][k]]
  BY <1>2
<1>4. Sum = [k \in Nat |-> IF k = 0 THEN Choose[n][0] ELSE Sum[k - 1] + Choose[n][k]]
  BY <1>3 DEF BinomialCdf
<1> HIDE DEF Sum
<1>5. Sum[0] = 1
  BY <1>1, <1>4
<1>6. ASSUME NEW k \in Nat PROVE Sum[k + 1] = Sum[k] + Choose[n][k + 1]
  <2>1. k + 1 \in Nat /\ k + 1 # 0 /\ k + 1 - 1 = k
    OBVIOUS
  <2> QED
    BY <1>4, <2>1
<1> DEFINE N == {k \in Nat : Sum[k] \in Nat}
<1>7. 0 \in N
  BY <1>5
<1>8. ASSUME NEW k \in Nat, k \in N PROVE k + 1 \in N
  <2>1. k + 1 \in Nat /\ Choose[n][k + 1] \in Nat
    BY ChooseSteps
  <2>2. Sum[k + 1] \in Nat
    BY <1>6, <1>8, <2>1
  <2> QED
    BY <2>1, <2>2
<1>9. Nat \subseteq N
  <2> HIDE DEF N
  <2> QED
    BY <1>7, <1>8, AllNumbers
<1> QED
  BY <1>5, <1>6, <1>9 DEF Sum

\* A row of the triangle rises to its middle, and falls no lower on the way down.
LEMMA Rising ==
  \A n \in Nat : \A a, b \in Nat : a <= b /\ a + b <= n => Choose[n][a] <= Choose[n][b]
<1> DEFINE N == {n \in Nat : \A a, b \in Nat : a <= b /\ a + b <= n => Choose[n][a] <= Choose[n][b]}
<1>1. 0 \in N
  <2> SUFFICES ASSUME NEW a \in Nat, NEW b \in Nat, a <= b, a + b <= 0
               PROVE  Choose[0][a] <= Choose[0][b]
    OBVIOUS
  <2>1. a = 0 /\ b = 0
    OBVIOUS
  <2> QED
    BY <2>1, ChooseSteps
<1>2. ASSUME NEW n \in Nat, n \in N PROVE n + 1 \in N
  <2> SUFFICES ASSUME NEW a \in Nat, NEW b \in Nat, a <= b, a + b <= n + 1
               PROVE  Choose[n + 1][a] <= Choose[n + 1][b]
    OBVIOUS
  <2>0. Choose[n + 1][a] \in Nat /\ Choose[n + 1][b] \in Nat
    BY ChooseSteps
  <2>1. CASE a = b
    BY <2>0, <2>1
  <2>2. CASE a # b
    <3> DEFINE d == b - 1
    <3>1. d \in Nat /\ d + 1 = b /\ a <= d /\ a + d <= n
      BY <2>2
    <3>2. Choose[n + 1][b] = Choose[n][d] + Choose[n][b]
      BY <3>1, ChooseSteps
    <3>3. Choose[n][a] <= Choose[n][d]
      BY <1>2, <3>1
    <3>4. CASE a = 0
      <4>1. Choose[n + 1][a] = 1 /\ Choose[n][a] = 1
        BY <3>4, ChooseSteps
      <4>2. Choose[n][d] \in Nat /\ Choose[n][b] \in Nat
        BY <3>1, ChooseSteps
      <4> QED
        BY <3>2, <3>3, <4>1, <4>2
    <3>5. CASE a # 0
      <4> DEFINE c == a - 1
      <4>1. c \in Nat /\ c + 1 = a /\ c <= b /\ c + b <= n
        BY <3>5
      <4>2. Choose[n + 1][a] = Choose[n][c] + Choose[n][a]
        BY <4>1, ChooseSteps
      <4>3. Choose[n][c] <= Choose[n][b]
        BY <1>2, <4>1
      <4>4. /\ Choose[n][a] \in Nat /\ Choose[n][b] \in Nat
            /\ Choose[n][c] \in Nat /\ Choose[n][d] \in Nat
        BY <3>1, <4>1, ChooseSteps
      <4> QED
        BY <3>2, <3>3, <4>2, <4>3, <4>4
    <3> QED
      BY <3>4, <3>5
  <2> QED
    BY <2>1, <2>2
<1>3. Nat \subseteq N
  <2> HIDE DEF N
  <2> QED
    BY <1>1, <1>2, AllNumbers
<1> QED
  BY <1>3

\* One coin more.
LEMMA CdfNextRow ==
  ASSUME NEW n \in Nat
  PROVE  \A k \in Nat : BinomialCdf(n + 1)[k + 1] = BinomialCdf(n)[k + 1] + BinomialCdf(n)[k]
<1> DEFINE Now == BinomialCdf(n)
           Then == BinomialCdf(n + 1)
           N == {k \in Nat : Then[k + 1] = Now[k + 1] + Now[k]}
<1>1. Now[0] = 1 /\ \A k \in Nat : Now[k] \in Nat /\ Now[k + 1] = Now[k] + Choose[n][k + 1]
  BY CdfSteps
<1>2. Then[0] = 1 /\ \A k \in Nat : Then[k] \in Nat /\ Then[k + 1] = Then[k] + Choose[n + 1][k + 1]
  BY CdfSteps
<1>3. /\ \A k \in Nat : Choose[n][k] \in Nat
      /\ \A k \in Nat : Choose[n + 1][k + 1] = Choose[n][k] + Choose[n][k + 1]
      /\ Choose[n][0] = 1
  BY ChooseSteps
<1> HIDE DEF Now, Then
<1>4. 0 \in N
  <2>1. Now[0 + 1] = Now[0] + Choose[n][0 + 1]
    BY <1>1
  <2>2. Then[0 + 1] = Then[0] + Choose[n + 1][0 + 1]
    BY <1>2
  <2>3. Choose[n + 1][0 + 1] = Choose[n][0] + Choose[n][0 + 1] /\ Choose[n][0 + 1] \in Nat
    BY <1>3
  <2> QED
    BY <1>1, <1>2, <1>3, <2>1, <2>2, <2>3
<1>5. ASSUME NEW k \in Nat, k \in N PROVE k + 1 \in N
  <2>1. Now[k + 1] = Now[k] + Choose[n][k + 1] /\ Now[k + 1 + 1] = Now[k + 1] + Choose[n][k + 1 + 1]
    BY <1>1
  <2>2. Then[k + 1 + 1] = Then[k + 1] + Choose[n + 1][k + 1 + 1]
    BY <1>2
  <2>3. /\ Choose[n + 1][k + 1 + 1] = Choose[n][k + 1] + Choose[n][k + 1 + 1]
        /\ Choose[n][k + 1] \in Nat /\ Choose[n][k + 1 + 1] \in Nat
    BY <1>3
  <2>4. Now[k] \in Nat /\ Now[k + 1] \in Nat /\ Then[k + 1] = Now[k + 1] + Now[k]
    BY <1>1, <1>5
  <2>5. Then[k + 1 + 1] = Now[k + 1 + 1] + Now[k + 1]
    BY <2>1, <2>2, <2>3, <2>4
  <2> QED
    BY <2>5
<1>6. Nat \subseteq N
  <2> HIDE DEF N
  <2> QED
    BY <1>4, <1>5, AllNumbers
<1> QED
  BY <1>6 DEF Now, Then

\* More coins, more outcomes, and the same few heads are rarer.
LEMMA CdfHalves ==
  ASSUME NEW n \in Nat, NEW k \in Nat
  PROVE  BinomialCdf(n + 1)[k] <= 2 * BinomialCdf(n)[k]
<1>1. /\ BinomialCdf(n)[0] = 1 /\ BinomialCdf(n + 1)[0] = 1
      /\ \A j \in Nat : BinomialCdf(n)[j] \in Nat /\ BinomialCdf(n)[j + 1] = BinomialCdf(n)[j] + Choose[n][j + 1]
  BY CdfSteps
<1>2. CASE k = 0
  BY <1>1, <1>2
<1>3. CASE k # 0
  <2> DEFINE j == k - 1
  <2>1. j \in Nat /\ j + 1 = k
    BY <1>3
  <2> HIDE DEF j
  <2>2. BinomialCdf(n + 1)[j + 1] = BinomialCdf(n)[j + 1] + BinomialCdf(n)[j]
    BY <2>1, CdfNextRow
  <2>3. BinomialCdf(n)[j + 1] = BinomialCdf(n)[j] + Choose[n][j + 1]
    BY <1>1, <2>1
  <2>4. BinomialCdf(n)[j] \in Nat /\ Choose[n][j + 1] \in Nat
    BY <1>1, <2>1, ChooseSteps
  <2>5. BinomialCdf(n + 1)[j + 1] <= 2 * BinomialCdf(n)[j + 1]
    BY <2>2, <2>3, <2>4
  <2> QED
    BY <2>1, <2>5
<1> QED
  BY <1>2, <1>3

\* Two coins more and one head more, below the middle of the row.
LEMMA CdfQuadruples ==
  ASSUME NEW n \in Nat, NEW k \in Nat, 2 * k + 1 <= n
  PROVE  4 * BinomialCdf(n)[k] <= BinomialCdf(n + 2)[k + 1]
<1> DEFINE S(j) == BinomialCdf(n)[j]
           T(j) == BinomialCdf(n + 1)[j]
<1>1. \A j \in Nat : S(j) \in Nat /\ Choose[n][j] \in Nat
  BY CdfSteps, ChooseSteps
<1>2. \A j \in Nat : S(j + 1) = S(j) + Choose[n][j + 1]
  BY CdfSteps
<1>3. \A j \in Nat : T(j + 1) = S(j + 1) + S(j)
  BY CdfNextRow
<1>4. BinomialCdf(n + 2)[k + 1] = T(k + 1) + T(k)
  <2>1. n + 1 \in Nat /\ n + 1 + 1 = n + 2
    OBVIOUS
  <2>2. BinomialCdf(n + 1 + 1)[k + 1] = BinomialCdf(n + 1)[k + 1] + BinomialCdf(n + 1)[k]
    BY <2>1, CdfNextRow
  <2> QED
    BY <2>1, <2>2
<1>5. Choose[n][k] <= Choose[n][k + 1]
  BY Rising
<1>6. S(0) = 1 /\ T(0) = 1 /\ Choose[n][0] = 1
  <2>1. n + 1 \in Nat
    OBVIOUS
  <2> QED
    BY <2>1, CdfSteps, ChooseSteps
<1> HIDE DEF S, T
<1>7. S(k + 1) = S(k) + Choose[n][k + 1] /\ T(k + 1) = S(k + 1) + S(k)
  BY <1>2, <1>3
<1>8. S(k) \in Nat /\ S(k + 1) \in Nat /\ Choose[n][k] \in Nat /\ Choose[n][k + 1] \in Nat
  BY <1>1
<1>9. 2 * S(k) = T(k) + Choose[n][k]
  <2>1. CASE k = 0
    BY <1>6, <2>1
  <2>2. CASE k # 0
    <3> DEFINE j == k - 1
    <3>1. j \in Nat /\ j + 1 = k
      BY <2>2
    <3> HIDE DEF j
    <3>2. S(j + 1) = S(j) + Choose[n][j + 1] /\ T(j + 1) = S(j + 1) + S(j)
      BY <1>2, <1>3, <3>1
    <3>3. S(k) = S(j) + Choose[n][k] /\ T(k) = S(k) + S(j) /\ S(j) \in Nat
      BY <1>1, <3>1, <3>2
    <3> QED
      BY <1>8, <3>3
  <2> QED
    BY <2>1, <2>2
<1>10. 4 * S(k) <= T(k + 1) + T(k)
  <2>1. T(k) = 2 * S(k) - Choose[n][k]
    <3>1. T(k) \in Nat
      <4>1. n + 1 \in Nat
        OBVIOUS
      <4> QED
        BY <4>1, CdfSteps DEF T
    <3> QED
      BY <1>8, <1>9, <3>1
  <2> QED
    BY <1>5, <1>7, <1>8, <2>1
<1> QED
  BY <1>4, <1>10 DEF S

\* k heads or fewer of 2k + 5 coins show in one outcome of forty at least ...
LEMMA FiveApart ==
  \A k \in Nat : Outcomes[2 * k + 5] <= 40 * BinomialCdf(2 * k + 5)[k]
<1> DEFINE N == {k \in Nat : Outcomes[2 * k + 5] <= 40 * BinomialCdf(2 * k + 5)[k]}
<1>1. 0 \in N
  <2>1. Outcomes[0] = 1 /\ Outcomes[1] = 2 /\ Outcomes[2] = 4 /\ Outcomes[3] = 8
    <3>1. Outcomes[0 + 1] = 2 * Outcomes[0] /\ Outcomes[1 + 1] = 2 * Outcomes[1]
          /\ Outcomes[2 + 1] = 2 * Outcomes[2]
      BY OutcomesSteps
    <3> QED
      BY <3>1, OutcomesSteps
  <2>2. Outcomes[4] = 16 /\ Outcomes[5] = 32
    <3>1. Outcomes[3 + 1] = 2 * Outcomes[3] /\ Outcomes[4 + 1] = 2 * Outcomes[4]
      BY OutcomesSteps
    <3> QED
      BY <2>1, <3>1
  <2>3. BinomialCdf(5)[0] = 1
    BY CdfSteps
  <2> QED
    BY <2>2, <2>3
<1>2. ASSUME NEW k \in Nat, k \in N PROVE k + 1 \in N
  <2> DEFINE n == 2 * k + 5
  <2>1. n \in Nat /\ n + 1 \in Nat /\ 2 * k + 1 <= n /\ n + 1 + 1 = n + 2 /\ 2 * (k + 1) + 5 = n + 2
    OBVIOUS
  <2>2. Outcomes[n] <= 40 * BinomialCdf(n)[k]
    BY <1>2
  <2> HIDE DEF n
  <2>3. 4 * BinomialCdf(n)[k] <= BinomialCdf(n + 2)[k + 1]
    BY <2>1, CdfQuadruples
  <2>4. Outcomes[n + 1] = 2 * Outcomes[n] /\ Outcomes[n + 1 + 1] = 2 * Outcomes[n + 1]
    BY <2>1, OutcomesSteps
  <2>5. Outcomes[n + 2] = 4 * Outcomes[n] /\ Outcomes[n] \in Nat
    BY <2>1, <2>4, OutcomesSteps
  <2>6. BinomialCdf(n)[k] \in Nat /\ BinomialCdf(n + 2)[k + 1] \in Nat
    <3>1. n + 2 \in Nat /\ k + 1 \in Nat
      BY <2>1
    <3> QED
      BY <2>1, <3>1, CdfSteps
  <2>7. Outcomes[n + 2] <= 40 * BinomialCdf(n + 2)[k + 1]
    BY <2>2, <2>3, <2>5, <2>6
  <2> QED
    BY <2>1, <2>7
<1>3. Nat \subseteq N
  <2> HIDE DEF N
  <2> QED
    BY <1>1, <1>2, AllNumbers
<1> QED
  BY <1>3

\* What is likely stays so with one coin less.
LEMMA OneCloser ==
  ASSUME NEW n \in Nat, NEW k \in Nat, Outcomes[n + 1] <= 40 * BinomialCdf(n + 1)[k]
  PROVE  Outcomes[n] <= 40 * BinomialCdf(n)[k]
<1>1. Outcomes[n + 1] = 2 * Outcomes[n] /\ Outcomes[n] \in Nat
  BY OutcomesSteps
<1>2. BinomialCdf(n + 1)[k] <= 2 * BinomialCdf(n)[k]
  BY CdfHalves
<1>3. BinomialCdf(n)[k] \in Nat /\ BinomialCdf(n + 1)[k] \in Nat
  <2>1. n + 1 \in Nat
    OBVIOUS
  <2> QED
    BY <2>1, CdfSteps
<1> QED
  BY <1>1, <1>2, <1>3

\* ... and so in fewer coins.
LEMMA CloseIsLikely ==
  ASSUME NEW k \in Nat, NEW d \in 0..5
  PROVE  Outcomes[2 * k + d] <= 40 * BinomialCdf(2 * k + d)[k]
<1> DEFINE m == 2 * k
           Likely(n) == Outcomes[n] <= 40 * BinomialCdf(n)[k]
<1>1. m \in Nat /\ Likely(m + 5)
  BY FiveApart
<1> HIDE DEF m
<1>2. ASSUME NEW n \in Nat, Likely(n + 1) PROVE Likely(n)
  BY <1>2, OneCloser
<1> HIDE DEF Likely
<1>3. /\ m + 4 \in Nat /\ m + 3 \in Nat /\ m + 2 \in Nat /\ m + 1 \in Nat
      /\ m + 4 + 1 = m + 5 /\ m + 3 + 1 = m + 4 /\ m + 2 + 1 = m + 3 /\ m + 1 + 1 = m + 2
      /\ m + 0 = m
  BY <1>1
<1>4. Likely(m + 4)
  BY <1>1, <1>2, <1>3
<1>5. Likely(m + 3)
  BY <1>2, <1>3, <1>4
<1>6. Likely(m + 2)
  BY <1>2, <1>3, <1>5
<1>7. Likely(m + 1)
  BY <1>2, <1>3, <1>6
<1>8. Likely(m + 0)
  BY <1>1, <1>2, <1>3, <1>7
<1>9. d = 0 \/ d = 1 \/ d = 2 \/ d = 3 \/ d = 4 \/ d = 5
  OBVIOUS
<1>10. Likely(m + d)
  BY <1>1, <1>4, <1>5, <1>6, <1>7, <1>8, <1>9
<1> QED
  BY <1>10 DEF Likely, m

\* The sign test needs a lead of six.
LEMMA SignificantLead ==
  ASSUME NEW pos \in Nat, NEW neg \in Nat, Significant(pos, neg)
  PROVE  pos >= neg + 6 \/ neg >= pos + 6
<1> SUFFICES ASSUME ~(pos >= neg + 6), ~(neg >= pos + 6) PROVE FALSE
  OBVIOUS
<1> DEFINE few == IF pos < neg THEN pos ELSE neg
           d == IF pos < neg THEN neg - pos ELSE pos - neg
<1>1. few \in Nat /\ d \in 0..5 /\ pos + neg = 2 * few + d
  OBVIOUS
<1>2. 40 * BinomialCdf(pos + neg)[few] < Outcomes[pos + neg]
  BY DEF Significant
<1> HIDE DEF few, d
<1>3. Outcomes[2 * few + d] <= 40 * BinomialCdf(2 * few + d)[few]
  BY <1>1, CloseIsLikely
<1>4. BinomialCdf(pos + neg)[few] \in Nat /\ Outcomes[pos + neg] \in Nat
  <2>1. pos + neg \in Nat
    OBVIOUS
  <2> QED
    BY <1>1, <2>1, CdfSteps, OutcomesSteps
<1> QED
  BY <1>1, <1>2, <1>3, <1>4

\* The test is two-sided.
LEMMA SignificantMirrors ==
  ASSUME NEW pos \in Nat, NEW neg \in Nat
  PROVE  Significant(pos, neg) <=> Significant(neg, pos)
<1>1. pos + neg = neg + pos
  OBVIOUS
<1>2. (IF pos < neg THEN pos ELSE neg) = (IF neg < pos THEN neg ELSE pos)
  OBVIOUS
<1> QED
  BY <1>1, <1>2, Zenon DEF Significant

-----------------------------------------------------------------------------
\* The directories compared so far, or none.
Compared == Arms \cup {<< >>}

LEMMA ComparedShape ==
  ASSUME NEW b \in Compared
  PROVE  /\ IsFiniteSet(DOMAIN b) /\ DOMAIN b \subseteq Nat
         /\ \A n \in DOMAIN b : IsFiniteSet(DOMAIN b[n].checks)
<1>1. CASE b \in Arms
  BY <1>1, ArmsAssumption
<1>2. CASE b = << >>
  <2>1. DOMAIN b = {}
    BY <1>2
  <2> QED
    BY <2>1, FS_EmptySet
<1> QED
  BY <1>1, <1>2 DEF Compared

\* The pairs can be counted.
LEMMA WonNumber ==
  ASSUME NEW b \in Compared, NEW c \in Compared
  PROVE  Cardinality(Won(b, c)) \in Nat
<1> DEFINE D == [n \in DOMAIN b |-> DOMAIN b[n].checks]
           T == {D[n] : n \in DOMAIN b}
           U == (DOMAIN b) \X (DOMAIN c)
<1>1. IsFiniteSet(T)
  <2>1. D \in Surjection(DOMAIN b, T)
    BY DEF Surjection
  <2> QED
    BY <2>1, ComparedShape, FS_Surjection
<1>2. \A X \in T : IsFiniteSet(X)
  BY ComparedShape
<1>3. IsFiniteSet(UNION T)
  <2> HIDE DEF T
  <2> QED
    BY <1>1, <1>2, FS_UNION
<1> DEFINE V == U \X UNION T
           F == [p \in V |-> <<p[1][1], p[1][2], p[2]>>]
           W == {F[p] : p \in V}
<1>4. IsFiniteSet(V)
  <2>1. IsFiniteSet(U)
    BY ComparedShape, FS_Product
  <2> HIDE DEF T, U
  <2> QED
    BY <1>3, <2>1, FS_Product
<1>5. IsFiniteSet(W)
  <2>1. F \in Surjection(V, W)
    BY DEF Surjection
  <2> HIDE DEF F, V
  <2> QED
    BY <1>4, <2>1, FS_Surjection
<1>6. ASSUME NEW p \in Won(b, c) PROVE p \in W
  <2>0. PICK n \in DOMAIN b, m \in DOMAIN c : \E k \in DOMAIN b[n].checks : p = <<n, m, k>>
    BY <1>6 DEF Won, Pairs, Meetings
  <2>1. PICK k \in DOMAIN b[n].checks : p = <<n, m, k>>
    BY <2>0
  <2>2. k \in UNION T
    OBVIOUS
  <2>3. <<<<n, m>>, k>> \in V /\ p = F[<<<<n, m>>, k>>]
    BY <2>1, <2>2
  <2> QED
    BY <2>3
<1> QED
  BY <1>5, <1>6, FS_Subset, FS_CardinalityType

\* File names sort in one way.
LEMMA NamesSort ==
  ASSUME NEW m \in Nat, NEW n \in Nat
  PROVE  /\ ~SortsBefore(n, n)
         /\ m # n => SortsBefore(m, n) \/ SortsBefore(n, m)
         /\ SortsBefore(m, n) => \A k \in Nat : SortsBefore(k, m) => SortsBefore(k, n)
<1>1. \A k \in Nat : Leading(k) \in Nat
  BY DEF Leading
<1> QED
  BY <1>1 DEF SortsBefore

\* No two trials of a directory are loaded in the same place.
LEMMA PlacesDiffer ==
  ASSUME NEW b \in Compared, NEW m \in DOMAIN b, NEW n \in DOMAIN b, SortsBefore(m, n)
  PROVE  Place(b, m) # Place(b, n)
<1> DEFINE Before(i) == {k \in DOMAIN b : SortsBefore(k, i)}
<1>1. DOMAIN b \subseteq Nat /\ IsFiniteSet(DOMAIN b)
  BY ComparedShape
<1>2. IsFiniteSet(Before(n))
  BY <1>1, FS_Subset
<1>3. Before(m) \subseteq Before(n)
  BY <1>1, NamesSort
<1>4. m \in Before(n) /\ m \notin Before(m)
  BY <1>1, NamesSort
<1>5. Cardinality(Before(m)) # Cardinality(Before(n))
  <2>1. Before(m) \in SUBSET Before(n) /\ Before(m) # Before(n)
    BY <1>3, <1>4
  <2> HIDE DEF Before
  <2> QED
    BY <1>2, <2>1, FS_Subset
<1> QED
  BY <1>5 DEF Place

\* Of two directories with the same trials, trial n meets trial n.
LEMMA SamePlaces ==
  ASSUME NEW b \in Compared, NEW c \in Compared, DOMAIN b = DOMAIN c
  PROVE  Won(b, c) = Improved(b, c)
<1>1. \A n \in DOMAIN b : Place(c, n) = Place(b, n)
  BY DEF Place
<1>2. \A n, m \in DOMAIN b : Place(b, n) = Place(c, m) <=> n = m
  <2> SUFFICES ASSUME NEW n \in DOMAIN b, NEW m \in DOMAIN b, n # m
               PROVE  Place(b, n) # Place(b, m)
    BY <1>1
  <2>1. SortsBefore(m, n) \/ SortsBefore(n, m)
    BY ComparedShape, NamesSort
  <2> QED
    BY <2>1, PlacesDiffer
<1>3. ASSUME NEW p \in Won(b, c) PROVE p \in Improved(b, c)
  <2>1. PICK n \in DOMAIN b, m \in DOMAIN c :
          /\ Place(b, n) = Place(c, m)
          /\ b[n].status = "COMPLETE" /\ c[m].status = "COMPLETE"
          /\ \E k \in DOMAIN b[n].checks \cap DOMAIN c[m].checks : p = <<n, m, k>>
    BY <1>3 DEF Won, Pairs, Meetings
  <2>2. n = m
    BY <1>2, <2>1
  <2> QED
    BY <1>3, <2>1, <2>2 DEF Won, Improved
<1>4. ASSUME NEW p \in Improved(b, c) PROVE p \in Won(b, c)
  <2>1. PICK n \in DOMAIN b :
          /\ b[n].status = "COMPLETE" /\ c[n].status = "COMPLETE"
          /\ \E k \in DOMAIN b[n].checks \cap DOMAIN c[n].checks :
               /\ p = <<n, n, k>> /\ b[n].checks[k] = "FAIL" /\ c[n].checks[k] = "PASS"
    BY <1>4 DEF Improved
  <2>2. Place(b, n) = Place(c, n)
    BY <1>1
  <2>3. <<n, n>> \in Meetings(b, c)
    BY <2>1, <2>2 DEF Meetings
  <2>4. p \in Pairs(b, c)
    BY <2>1, <2>3 DEF Pairs
  <2> QED
    BY <2>1, <2>4 DEF Won
<1> QED
  BY <1>3, <1>4

(* The advice is that of the runs it is given about.                       *)
ChampionInv == base \in Compared /\ cand \in Compared /\ advice = Champion(base, cand)

\* Nothing compared is nothing to say.
LEMMA ChampionInvInit == ChampionInit => ChampionInv
<1> SUFFICES ASSUME ChampionInit PROVE ChampionInv
  OBVIOUS
<1>1. base = << >> /\ cand = << >> /\ advice = "REVIEW"
  BY DEF ChampionInit
<1>2. Won(<< >>, << >>) = {}
  BY DEF Won, Pairs, Meetings
<1>3. Cardinality(Won(<< >>, << >>)) = 0
  BY <1>2, FS_EmptySet
<1>4. ~Significant(0, 0)
  BY DEF Significant
<1>5. Champion(<< >>, << >>) = "REVIEW"
  BY <1>3, <1>4 DEF Champion, Recommend
<1> QED
  BY <1>1, <1>5 DEF ChampionInv, Compared

\* A comparison gives its own advice.
LEMMA ChampionInvStep == ChampionInv /\ [ChampionNext]_championVars => ChampionInv'
<1>1. ASSUME NEW b \in Arms, NEW c \in Arms, Compare(b, c) PROVE ChampionInv'
  BY <1>1 DEF ChampionInv, Compare, Compared
<1>2. ASSUME ChampionInv, UNCHANGED championVars PROVE ChampionInv'
  BY <1>2 DEF ChampionInv, championVars
<1> QED
  BY <1>1, <1>2 DEF ChampionNext

\* A significant lead is one side's, and six pairs long.
LEMMA InvIsFair == ChampionInv => AdviceIsFair
<1> SUFFICES ASSUME ChampionInv PROVE AdviceIsFair
  OBVIOUS
<1> DEFINE won == Cardinality(Won(base, cand))
           lost == Cardinality(Won(cand, base))
<1>1. won \in Nat /\ lost \in Nat
  BY WonNumber DEF ChampionInv
<1>2. /\ advice = IF ~Significant(won, lost) THEN "REVIEW"
                  ELSE IF lost > won THEN "BLOCK" ELSE "DEPLOY"
      /\ Champion(cand, base) = IF ~Significant(lost, won) THEN "REVIEW"
                                ELSE IF won > lost THEN "BLOCK" ELSE "DEPLOY"
  BY DEF ChampionInv, Champion, Recommend
<1> HIDE DEF won, lost
<1>3. Significant(won, lost) <=> Significant(lost, won)
  BY <1>1, SignificantMirrors
<1>4. Significant(won, lost) => won >= lost + 6 \/ lost >= won + 6
  BY <1>1, SignificantLead
<1>5. advice = Mirror(Champion(cand, base))
  <2>1. CASE ~Significant(won, lost)
    BY <1>2, <1>3, <2>1 DEF Mirror
  <2>2. CASE Significant(won, lost) /\ lost > won
    <3>1. ~(won > lost)
      BY <1>1, <2>2
    <3> QED
      BY <1>2, <1>3, <2>2, <3>1 DEF Mirror
  <2>3. CASE Significant(won, lost) /\ ~(lost > won)
    <3>1. won > lost
      BY <1>1, <1>4, <2>3
    <3> QED
      BY <1>2, <1>3, <2>3, <3>1 DEF Mirror
  <2> QED
    BY <2>1, <2>2, <2>3
<1>6. advice # "REVIEW" => won >= lost + 6 \/ lost >= won + 6
  BY <1>2, <1>4
<1>7. DOMAIN base = DOMAIN cand =>
        advice = Recommend(Cardinality(Improved(base, cand)), Cardinality(Improved(cand, base)))
  BY SamePlaces DEF ChampionInv, Champion
<1> QED
  BY <1>5, <1>6, <1>7 DEF AdviceIsFair, won, lost

(* Arms with the same trials are compared trial by trial, whatever order   *)
(* their files sort in and whichever crashed; the advice does not depend   *)
(* on which arm was named first, and other than REVIEW it takes a lead of  *)
(* six pairs of a trial and a check.                                       *)
THEOREM AdviceFair == ChampionSpec => []AdviceIsFair
<1>1. ChampionInit => ChampionInv
  BY ChampionInvInit
<1>2. ChampionInv /\ [ChampionNext]_championVars => ChampionInv'
  BY ChampionInvStep
<1>3. ChampionInv => AdviceIsFair
  BY InvIsFair
<1> QED
  BY <1>1, <1>2, <1>3, PTL DEF ChampionSpec

=============================================================================
