---------------------------- MODULE RigelLessons ----------------------------
(***************************************************************************)
(* How recorded failures become lessons, and lessons become checks.  At    *)
(* the end of a plan curate-scan groups the log by signature, counts the   *)
(* plans of each, and says what to write, what to count, what is ready to  *)
(* be promoted and what may be deleted; /curate applies that and empties   *)
(* the log.  A human promotes what verify-promotion clears.  A plan may    *)
(* end uncurated, a gate may fail while no plan is active, a lesson may    *)
(* claim several signatures and a signature several lessons.               *)
(***************************************************************************)
EXTENDS FiniteSets, Integers

CONSTANTS Lesson,              \* numbers of lessons, the LSN-XXXX
          Signature,
          StaleAfter,          \* STALE_AFTER, which is 5
          LastPlan, MaxLines,  \* bounds: plans, lines of the log,
          MaxOccasions,        \* occasions on which something fails,
          MaxClaims,           \* signatures the lessons claim, together
          Planless, NoLesson,
          Commented            \* `seen: 1 # times ...`, as the template has it

ASSUME LessonsAreNumbered == Lesson \subseteq Nat
ASSUME ValuesOfLessons == Planless \notin Nat /\ Commented \notin Nat /\ NoLesson \notin Signature
ASSUME BoundsOfLessons ==
  StaleAfter \in Nat \ {0} /\ {LastPlan, MaxLines, MaxOccasions, MaxClaims} \subseteq Nat

VARIABLES
  failures,   \* .rigel/gate-failures.jsonl, a set of numbered lines
  lessons,    \* docs/design-docs/lessons
  current,    \* number of the newest plan
  active,     \* it is in docs/exec-plans/active
  occasions,  \* history: occasions[s], when s was recorded or written about
  shared      \* history: lessons that claimed more or less than one signature alone

historyOfLessons == <<occasions, shared>>
lessonVars == <<failures, lessons, current, active, historyOfLessons>>

Written == {l \in Lesson : lessons[l] # NoLesson}

\* The next n numbers.
Unused(n) == {l \in Lesson \ Written : Cardinality({k \in Lesson \ Written : k < l}) < n}

Claimed(ls) == {c \in Lesson \X Signature : ls[c[1]] # NoLesson /\ c[2] \in ls[c[1]].signatures}

Bounded(ls) == Cardinality(Claimed(ls)) <= MaxClaims

LessonsInit ==
  /\ failures = {} /\ lessons = [l \in Lesson |-> NoLesson]
  /\ current = 1 /\ active = TRUE
  /\ occasions = [s \in Signature |-> {}] /\ shared = {}

-----------------------------------------------------------------------------
(* curate-scan. *)

\* Number("1 # times") is not a number, and nothing added to it is one.
ReadLessons == [l \in Written |-> lessons[l]]

\* _to_int takes what is no number for 0.
ReadLessonsPy ==
  [l \in Written |-> [lessons[l] EXCEPT !.seen = IF @ = Commented THEN 0 ELSE @]]

PlansOf(s) == {r.plan : r \in {x \in failures : x.signature = s}} \ {Planless}

(* Mutant: every line counts. *)
OccLines(s) == Cardinality({x \in failures : x.signature = s})

\* Distinct plans; a same-plan repeat still counts once, as does no plan.
Occ(s) == IF PlansOf(s) = {} THEN 1 ELSE Cardinality(PlansOf(s))

Newest(plans) == CHOOSE p \in plans : \A q \in plans : q <= p

\* `filed`: the plan has already left docs/exec-plans/active.
CurrentPlan(ls, filed) ==
  LET mentioned == ({x.plan : x \in failures} \cup {ls[l].lastSeen : l \in DOMAIN ls}) \ {Planless}
  IN IF ~filed THEN current ELSE IF mentioned = {} THEN Planless ELSE Newest(mentioned)

Matches(ls, s) == {l \in DOMAIN ls : s \in ls[l].signatures}

Plus(seen, n) == IF seen = Commented THEN Commented ELSE seen + n
Enough(seen) == seen # Commented /\ seen >= 3

(* Mutant: what recurred in this very run is not looked at. *)
StaleByDateAlone(ls, touched, now) ==
  {l \in DOMAIN ls : /\ ls[l].status = "OBSERVED" /\ ls[l].lastSeen # Planless
                     /\ now # Planless /\ now - ls[l].lastSeen >= StaleAfter}

StaleCandidates(ls, touched, now) ==
  {l \in DOMAIN ls \ touched : /\ ls[l].status = "OBSERVED" /\ ls[l].lastSeen # Planless
                               /\ now # Planless /\ now - ls[l].lastSeen >= StaleAfter}

Scan(ls, now) ==
  LET failed == {x.signature : x \in failures}
      claimed(n) == {s \in failed : Cardinality(Matches(ls, s)) = n}
      increments == [l \in DOMAIN ls |-> {s \in claimed(1) : l \in Matches(ls, s)}]
  IN [create |-> claimed(0), increments |-> increments,
      disambiguate |-> failed \ (claimed(0) \cup claimed(1)),
      ready |-> {l \in DOMAIN ls :
        /\ ls[l].status = "DISTILLED"
        /\ \/ Enough(ls[l].seen)
           \/ \E s \in increments[l] : Enough(Plus(ls[l].seen, Occ(s)))},
      stale |-> StaleCandidates(ls, {l \in DOMAIN ls : increments[l] # {}}, now)]

\* The port, which reads lessons its own way and plans alike.
ScanPy(filed) == Scan(ReadLessonsPy, CurrentPlan(ReadLessonsPy, filed))

\* A repository has one of the two scanners; what holds, holds for either.
Scans(filed) == {Scan(ReadLessons, CurrentPlan(ReadLessons, filed)), ScanPy(filed)}

-----------------------------------------------------------------------------
(* The gate, and /curate at the end of a plan. *)

RecordFailure(s) ==
  LET p == IF active THEN current ELSE Planless
      mine == {x \in failures : x.signature = s /\ x.plan = p}
  IN /\ Cardinality(failures) < MaxLines
     /\ Cardinality(UNION {{t} \X occasions[t] : t \in Signature}) < MaxOccasions
     /\ failures' = failures \cup {[signature |-> s, plan |-> p, nth |-> Cardinality(mine)]}
     /\ occasions' = [occasions EXCEPT ![s] = @ \cup {<<p, current>>}]
     /\ UNCHANGED <<lessons, current, active, shared>>

OpenPlan ==
  /\ ~active /\ current < LastPlan /\ active' = TRUE /\ current' = current + 1
  /\ UNCHANGED <<failures, lessons, historyOfLessons>>

\* The lesson a new signature gets.
Observed(s) ==
  [signatures |-> {s}, status |-> "OBSERVED", seen |-> Occ(s), rule |-> "none",
   lastSeen |-> IF PlansOf(s) = {} THEN Planless ELSE Newest(PlansOf(s))]

Counted(lesson, s) ==
  [lesson EXCEPT !.seen = Plus(@, Occ(s)),
                 !.lastSeen = IF PlansOf(s) = {} THEN @ ELSE Newest(PlansOf(s))]

\* Which signature each lesson is counted for.  Every increment starts from the
\* count in the file: of two, the one written last stays.  An ambiguous
\* signature goes to one of its candidates, or to none.
Attributions(p) ==
  {by \in [Written -> Signature \cup {NoLesson}] :
     /\ \A l \in Written :
          \/ by[l] \in p.increments[l]
          \/ p.increments[l] = {} /\ by[l] = NoLesson
          \/ p.increments[l] = {} /\ by[l] \in p.disambiguate \cap lessons[l].signatures
     /\ \A l, k \in Written : by[l] = by[k] => l = k \/ by[l] = NoLesson}

Curate(read, p) ==
  /\ active /\ active' = FALSE
  /\ \E by \in Attributions(p), new \in [p.create -> Unused(Cardinality(p.create))] :
       /\ \A s, t \in p.create : new[s] = new[t] => s = t
       /\ lessons' = [l \in Lesson |->
            IF l \in Written THEN IF by[l] = NoLesson THEN lessons[l] ELSE Counted(read[l], by[l])
            ELSE IF \E s \in p.create : new[s] = l THEN Observed(CHOOSE s \in p.create : new[s] = l)
            ELSE NoLesson]
       /\ Bounded(lessons')
  /\ failures' = {}
  /\ UNCHANGED <<current, historyOfLessons>>

EndPlanUncurated ==
  /\ active /\ active' = FALSE
  /\ UNCHANGED <<failures, lessons, current, historyOfLessons>>

-----------------------------------------------------------------------------
(* The human who keeps the lessons. *)

SeedLesson(l, s, seen) ==
  LET others == {k \in Written : s \in lessons[k].signatures}
  IN /\ l \in Unused(1) /\ active
     /\ lessons' = [lessons EXCEPT ![l] =
          [signatures |-> {s}, status |-> "OBSERVED", seen |-> seen, lastSeen |-> current,
           rule |-> "none"]]
     /\ Bounded(lessons')
     /\ occasions' = [occasions EXCEPT ![s] = @ \cup {<<Planless, 0>>}]
     /\ shared' = IF others = {} THEN shared \ {l} ELSE shared \cup others \cup {l}
     /\ UNCHANGED <<failures, current, active>>

AddSignature(l, s) ==
  LET others == {k \in Written : s \in lessons[k].signatures}
  IN /\ l \in Written /\ s \notin lessons[l].signatures
     /\ lessons' = [lessons EXCEPT ![l].signatures = @ \cup {s}]
     /\ Bounded(lessons')
     /\ shared' = shared \cup others \cup {l}
     /\ UNCHANGED <<failures, current, active, occasions>>

\* INVESTIGATED and VERIFIED lie between; the scan looks for neither.
Distill(l) ==
  /\ l \in Written /\ lessons[l].status = "OBSERVED"
  /\ lessons' = [lessons EXCEPT ![l].status = "DISTILLED"]
  /\ UNCHANGED <<failures, current, active, historyOfLessons>>

\* verify-promotion on a rule that blocks what it should, blocks nothing, or
\* blocks clean code too: it is named, the gate passes with it, and somebody
\* says to have seen it block.
VerifyPromotion(status, rule, tamperVerified) ==
  /\ status \in {"DISTILLED", "ENFORCED"} /\ rule # "none" /\ rule # "overbroad"
  /\ tamperVerified

\* The port collects its problems, and wants none.
VerifyPromotionPy(status, rule, tamperVerified) ==
  LET missing == {what \in {"status", "rule", "gate", "attestation"} :
                    \/ what = "status" /\ status \notin {"DISTILLED", "ENFORCED"}
                    \/ what = "rule" /\ rule = "none"
                    \/ what = "gate" /\ rule = "overbroad"
                    \/ what = "attestation" /\ ~tamperVerified}
  IN missing = {}

\* Whoever attests the tamper test has made it.
Promote(l, rule) ==
  /\ l \in Written
  /\ \/ VerifyPromotion(lessons[l].status, rule, rule # "decorative")
     \/ VerifyPromotionPy(lessons[l].status, rule, rule # "decorative")
  /\ \E p \in Scans(~active) : l \in p.ready
  /\ lessons' = [lessons EXCEPT ![l].status = "ENFORCED", ![l].rule = rule]
  /\ UNCHANGED <<failures, current, active, historyOfLessons>>

DeleteStale(l) ==
  /\ l \in Written /\ \E p \in Scans(~active) : l \in p.stale
  /\ lessons' = [lessons EXCEPT ![l] = NoLesson]
  /\ shared' = shared \ {l}
  /\ UNCHANGED <<failures, current, active, occasions>>

Keep ==
  \E l \in Lesson :
    \/ \E s \in Signature : AddSignature(l, s) \/ \E seen \in {1, Commented} : SeedLesson(l, s, seen)
    \/ Distill(l) \/ DeleteStale(l)
    \/ \E rule \in {"none", "real", "decorative", "overbroad"} : Promote(l, rule)

LessonNext ==
  \/ \E s \in Signature : RecordFailure(s)
  \/ OpenPlan \/ EndPlanUncurated
  \/ \E filed \in BOOLEAN : \/ Curate(ReadLessons, Scan(ReadLessons, CurrentPlan(ReadLessons, filed)))
                            \/ Curate(ReadLessonsPy, ScanPy(filed))
  \/ Keep

LessonSpec == LessonsInit /\ [][LessonNext]_lessonVars

-----------------------------------------------------------------------------
(* Count and status alone promote: what has not failed on three occasions  *)
(* (a plan, or a stretch between plans), the one it was written about      *)
(* included, is neither enforced nor reported ready, whatever was re-run,  *)
(* merged or curated late; and a check that blocks nothing, or clean code, *)
(* is not enforced.                                                        *)
PromotionIsEarned ==
  \A l \in Written :
    /\ Cardinality(UNION {occasions[s] : s \in lessons[l].signatures}) < 3 =>
         /\ lessons[l].status # "ENFORCED"
         /\ \A p \in Scans(~active) : l \notin p.ready
    /\ lessons[l].status = "ENFORCED" => lessons[l].rule = "real"

(* What a human is told to delete is quiet: a lesson that was always alone  *)
(* with one signature is not reported stale while one of the last          *)
(* StaleAfter plans, this one included, recorded that signature.           *)
StaleIsQuiet ==
  \A l \in Written \ shared :
    (\E s \in lessons[l].signatures : \E o \in occasions[s] :
       o[1] # Planless /\ current - o[1] < StaleAfter)
    => \A p \in Scans(~active) : l \notin p.stale
=============================================================================
