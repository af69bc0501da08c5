----------------------------- MODULE RigelBlast -----------------------------
(***************************************************************************)
(* Blast radius.  Before an agent edits a file that much of the repository *)
(* depends on, a hook denies the edit once and lists the importers; the    *)
(* retry goes through.  `impact` asks the same import graph after the      *)
(* edit.  Files are numbers: their order is the order of their names.      *)
(***************************************************************************)
EXTENDS FiniteSets, Integers

CONSTANTS Source,   \* files under src, app or lib
          Other,    \* tests and entry points, in the graph and never hot
          Pct,      \* DEFAULTS.pct, in percent
          Floor,    \* DEFAULTS.floor
          Depth,    \* DEFAULTS.depth
          MaxImports   \* bound on the imports of a file

File == Source \cup Other

ASSUME FileAssumption == /\ Source \subseteq Nat /\ Other \subseteq Nat
                         /\ Source \cap Other = {}
                         /\ IsFiniteSet(Source) /\ IsFiniteSet(Other)
ASSUME RankAssumption == Pct \in 0..100 /\ Floor \in Nat /\ Depth \in Nat

VARIABLES
  imports,  \* imports[f]: the files f imports
  shown     \* files the hook has denied in this session

blastVars == <<imports, shown>>

ReverseGraph(graph) == [t \in File |-> {f \in File : t \in graph[f]}]

(* Mutant: a file may be met again on another level. *)
NextUnseen(reverse, seen, frontier) == UNION {reverse[f] : f \in frontier}

NextLevel(reverse, seen, frontier) == (UNION {reverse[f] : f \in frontier}) \ seen

\* Breadth first, level by level: <<seen, last level>> after d levels.
Dependents(reverse, changed) ==
  LET L[d \in Nat] ==
        IF d = 0 THEN <<changed, changed>>
        ELSE LET before == L[d - 1]
                 next == NextLevel(reverse, before[1], before[2])
             IN <<before[1] \cup next, next>>
  IN L

\* levels.flat().length
Count(reverse, f) ==
  LET levels == Dependents(reverse, {f})
      Length[d \in Nat] == IF d = 0 THEN 0 ELSE Length[d - 1] + Cardinality(levels[d][2])
  IN Length[Depth]

\* Math.max(1, Math.ceil(files.length * pct))
Cut ==
  LET n == (Cardinality(Source) * Pct + 99) \div 100 IN IF n = 0 THEN 1 ELSE n

\* The first Cut source files by dependents, then by name, down to the floor.
HotSet(graph) ==
  LET reverse == ReverseGraph(graph)
      count == [f \in Source |-> Count(reverse, f)]
      Ahead(f) == {g \in Source : count[g] > count[f] \/ (count[g] = count[f] /\ g < f)}
  IN {f \in Source : count[f] >= Floor /\ Cardinality(Ahead(f)) < Cut}

Assess(graph, f) == f \in Source /\ f \in HotSet(graph)

-----------------------------------------------------------------------------
BlastInit ==
  imports = [f \in File |-> {}] /\ shown = {}

\* The hook: once per file and session.
Deny(f) ==
  /\ f \notin shown /\ Assess(imports, f)
  /\ shown' = shown \cup {f}
  /\ UNCHANGED imports

\* An edit the hook lets through changes what f imports.
Edit(f) ==
  /\ f \in shown \/ ~Assess(imports, f)
  /\ \E targets \in {S \in SUBSET Source : Cardinality(S) <= MaxImports} :
       imports' = [imports EXCEPT ![f] = targets]
  /\ UNCHANGED shown

NewSession == shown # {} /\ shown' = {} /\ UNCHANGED imports

BlastNext ==
  \/ \E f \in File : Deny(f) \/ Edit(f)
  \/ NewSession

BlastSpec == BlastInit /\ [][BlastNext]_blastVars

-----------------------------------------------------------------------------
(* What f reaches by imports in at most d steps, for every d. *)
Within(graph, f) ==
  LET W[d \in Nat] ==
        IF d = 0 THEN {f} ELSE W[d - 1] \cup UNION {graph[g] : g \in W[d - 1]}
  IN W

Users(graph, t) == {f \in File \ {t} : t \in Within(graph, f)[Depth]}

(* The denial is about the load-bearing file, whatever shape the imports   *)
(* have, cycles included.  A hot file is used, over at most Depth imports, *)
(* by as many files as the hook says; no file that is not hot has more     *)
(* users; and no more than the cut is ever hot.                            *)
HotIsHottest ==
  LET hot == HotSet(imports)
      users == [f \in Source |-> Cardinality(Users(imports, f))]
  IN /\ Cardinality(hot) <= Cut
     /\ \A f \in hot : /\ Count(ReverseGraph(imports), f) = users[f]
                      /\ \A g \in Source \ hot : users[g] <= users[f]
=============================================================================
