---------------------------- MODULE RigelChampion ----------------------------
(***************************************************************************)
(* Champion against challenger: the trials of one golden spec under two    *)
(* harness commits are loaded from their directories, paired by their      *)
(* place among the loaded, and a sign test over the checks of the pairs    *)
(* recommends to block, to deploy, or to look.                             *)
(***************************************************************************)
EXTENDS Naturals, FiniteSets

CONSTANTS Arms   \* bound: directories that are compared: trials by their number

ASSUME ArmsAssumption ==
  \A dir \in Arms : /\ IsFiniteSet(DOMAIN dir) /\ DOMAIN dir \subseteq 1..99
                    /\ \A n \in DOMAIN dir : IsFiniteSet(DOMAIN dir[n].checks)

VARIABLES base, cand,  \* the last two directories compared
          advice       \* the recommendation

championVars == <<base, cand, advice>>

\* n over k.
Choose[n \in Nat] ==
  [k \in Nat |-> IF k = 0 THEN 1 ELSE IF n = 0 THEN 0 ELSE Choose[n - 1][k - 1] + Choose[n - 1][k]]

\* All that n fair coins may show.
Outcomes[n \in Nat] == IF n = 0 THEN 1 ELSE 2 * Outcomes[n - 1]

\* P(X <= k) for n fair coins, times Outcomes[n].
BinomialCdf(n) ==
  LET Sum[k \in Nat] == IF k = 0 THEN Choose[n][0] ELSE Sum[k - 1] + Choose[n][k]
  IN Sum

\* p < 0.05 in the two-sided sign test, ties dropped.
Significant(pos, neg) ==
  LET few == IF pos < neg THEN pos ELSE neg
  IN pos + neg > 0 /\ 40 * BinomialCdf(pos + neg)[few] < Outcomes[pos + neg]

\* loadRun sorts file names: trial-10.json comes before trial-2.json.
Leading(n) == IF n < 10 THEN n ELSE n \div 10

SortsBefore(m, n) == Leading(m) < Leading(n) \/ (Leading(m) = Leading(n) /\ m < n)

(* Mutant: ERRORED trials are dropped when a directory is loaded. *)
PlaceAmongFinished(dir, n) ==
  Cardinality({m \in DOMAIN dir : SortsBefore(m, n) /\ dir[m].status = "COMPLETE"})

\* How many trials of the directory are loaded before trial n.
Place(dir, n) == Cardinality({m \in DOMAIN dir : SortsBefore(m, n)})

\* Trials of both arms at the same place; an ERRORED one on either side voids it.
Meetings(b, c) ==
  {p \in (DOMAIN b) \X (DOMAIN c) :
     /\ Place(b, p[1]) = Place(c, p[2])
     /\ b[p[1]].status = "COMPLETE" /\ c[p[2]].status = "COMPLETE"}

\* With a check both were graded on.
Pairs(b, c) ==
  UNION {{p[1]} \X {p[2]} \X (DOMAIN b[p[1]].checks \cap DOMAIN c[p[2]].checks) :
           p \in Meetings(b, c)}

\* The pairs whose delta is +1.
Won(b, c) ==
  {p \in Pairs(b, c) : b[p[1]].checks[p[3]] = "FAIL" /\ c[p[2]].checks[p[3]] = "PASS"}

Recommend(pos, neg) ==
  IF ~Significant(pos, neg) THEN "REVIEW" ELSE IF neg > pos THEN "BLOCK" ELSE "DEPLOY"

Champion(b, c) == Recommend(Cardinality(Won(b, c)), Cardinality(Won(c, b)))

ChampionInit == base = << >> /\ cand = << >> /\ advice = "REVIEW"

Compare(b, c) == base' = b /\ cand' = c /\ advice' = Champion(b, c)

ChampionNext == \E b, c \in Arms : Compare(b, c)

ChampionSpec == ChampionInit /\ [][ChampionNext]_championVars

-----------------------------------------------------------------------------
(* The other arm's point of view. *)
Mirror(a) == CASE a = "BLOCK" -> "DEPLOY" [] a = "DEPLOY" -> "BLOCK" [] OTHER -> a

\* What the challenger improved, trial n against trial n.
Improved(b, c) ==
  UNION {{n} \X {n} \X {k \in DOMAIN b[n].checks \cap DOMAIN c[n].checks :
                         b[n].checks[k] = "FAIL" /\ c[n].checks[k] = "PASS"} :
           n \in {m \in DOMAIN b \cap DOMAIN c :
                    b[m].status = "COMPLETE" /\ c[m].status = "COMPLETE"}}

(* Advice is fair.  Arms with the same trials are compared trial by trial  *)
(* (champion.mjs:6-7): the order in which the file system sorts them, and  *)
(* trials that crashed in either arm, decide nothing.  Swapping any two    *)
(* arms mirrors the advice.  And a challenger is blocked or deployed only  *)
(* on a lead of six pairs of a trial and a check.  Nothing is promised     *)
(* about how many trials these come from: one trial graded on six checks   *)
(* is enough.                                                              *)
AdviceIsFair ==
  /\ DOMAIN base = DOMAIN cand =>
       advice = Recommend(Cardinality(Improved(base, cand)), Cardinality(Improved(cand, base)))
  /\ advice = Mirror(Champion(cand, base))
  /\ advice # "REVIEW" =>
       \/ Cardinality(Won(base, cand)) >= Cardinality(Won(cand, base)) + 6
       \/ Cardinality(Won(cand, base)) >= Cardinality(Won(base, cand)) + 6
=============================================================================
