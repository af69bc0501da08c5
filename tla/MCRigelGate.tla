---------------------------- MODULE MCRigelGate ----------------------------
(* Instances of RigelGate and of RigelLessons for TLC: a behaviour is about  *)
(* gates and their log, or about what curation makes of such a log.          *)
EXTENDS RigelGate, RigelLessons, TLC

CONSTANTS lint, regression, g1, g2, s1, s2

ShortChain == <<lint, regression>>
Lint == {lint}
TwoGates == {g1, g2}
Symmetry == Permutations(TwoGates) \cup Permutations({s1, s2})

VARIABLE learning  \* this behaviour is about lessons

LearningInit == learning \in BOOLEAN /\ Init /\ LessonsInit /\ (learning => broken = {})

LearningNext ==
  /\ UNCHANGED learning
  /\ \/ ~learning /\ Next /\ UNCHANGED lessonVars
     \/ learning /\ LessonNext /\ UNCHANGED vars

LearningSpec == LearningInit /\ [][LearningNext]_<<learning, vars, lessonVars>>
=============================================================================
