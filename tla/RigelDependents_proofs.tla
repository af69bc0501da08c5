----------------------- MODULE RigelDependents_proofs -----------------------
(***************************************************************************)
(* Who depends on whom.  Contract: for any endpoints, the two gates pass the *)
(* same trees, consumers are broken by permission only, and main's contract *)
(* is its code's.  Fleet: for any services, stacks and titles, no copy of  *)
(* the map, however old, names a consumer that never vendored the contract. *)
(* Blast radius: for any graph, depth, cut and floor, hot files are hottest. *)
(***************************************************************************)
EXTENDS RigelContract, RigelFleet, RigelBlast, RigelInduction

(* The gate and its port agree on every tree: the complaints the port adds *)
(* (about a comment that is read, an entry that may not suppress, a break  *)
(* declared and not yet authorized) only repeat what the other refuses.    *)
THEOREM PortsAgree ==
  ASSUME NEW found, NEW exports \in BOOLEAN, NEW exported, NEW base,
         NEW entries \in SUBSET Entry, NEW claim,
         NEW oasdiff \in {"works", "fails", "absent"}, NEW ciEnforces \in BOOLEAN
  PROVE  GatePasses(found, exports, exported, base, entries, claim, oasdiff, ciEnforces)
         <=> GatePassesPy(found, exports, exported, base, entries, claim, oasdiff, ciEnforces)
<1> DEFINE checked == IF exports THEN exported ELSE found
           breaking == oasdiff = "works" /\ Broken(base, checked) # {}
           suppressed == breaking /\ Unsuppressed(base, checked, entries) = {}
           authorized == suppressed /\ ~ExemptionsRotten(entries)
           Silent == /\ exports /\ exported = found
                     /\ \A e \in entries : e.is = "good"
                     /\ ~(oasdiff = "absent" /\ ~ciEnforces)
                     /\ ~(oasdiff = "fails" /\ base # NoSpec)
                     /\ ~(breaking /\ ~suppressed)
                     /\ ~(breaking /\ claim = "false")
<1>1. ASSUME NEW e \in entries PROVE e.is \in {"good", "rotten", "comment"}
  BY DEF Entry
<1>2. (\A e \in entries : e.is = "good")
      <=> ~(\E e \in entries : e.is = "comment") /\ ~ExemptionsRotten(entries)
  BY <1>1 DEF ExemptionsRotten
<1>3. ComplaintsPy(found, exports, exported, base, entries, claim, oasdiff, ciEnforces) = {}
      <=> Silent
  <2> HIDE DEF checked
  <2>1. (ComplaintsPy(found, exports, exported, base, entries, claim, oasdiff, ciEnforces) = {})
        <=> /\ exports /\ ~(exports /\ exported # found)
            /\ ~(\E e \in entries : e.is = "comment") /\ ~ExemptionsRotten(entries)
            /\ ~(oasdiff = "absent" /\ ~ciEnforces) /\ ~(oasdiff = "fails" /\ base # NoSpec)
            /\ ~(breaking /\ ~suppressed) /\ ~(suppressed /\ ~authorized)
            /\ ~(breaking /\ claim = "false") /\ ~(breaking /\ claim = "true" /\ ~authorized)
    <3> HIDE DEF breaking, suppressed, authorized
    <3> QED
      BY DEF ComplaintsPy, breaking, suppressed, authorized, checked
  <2> QED
    BY <1>2, <2>1
<1>4. Unsuppressed(base, checked, entries) = {} \/ Broken(base, checked) # {}
  BY DEF Unsuppressed
<1>5. GatePasses(found, exports, exported, base, entries, claim, oasdiff, ciEnforces)
      <=> (found # NoSpec => Silent)
  <2>1. (\A e \in entries : e.is = "good") => ~ExemptionsRotten(entries)
    BY <1>2
  <2> QED
    BY <1>4, <2>1 DEF GatePasses, Stale, FailsOnBreak, Undeclared, Authorized
<1> QED
  BY <1>3, <1>5 DEF GatePassesPy

\* What a merge is known by, whichever gate CI ran.
LEMMA MergedPassed ==
  ASSUME ContractTypeOK, MergeAfterCI, head # NoSpec
  PROVE  /\ head = code /\ \A e \in exemptions : e.is = "good"
         /\ Unsuppressed(main, code, exemptions) = {}
         /\ declared = "false" => Broken(main, code) = {}
<1>1. exemptions \in SUBSET Entry
  BY DEF ContractTypeOK, OneLineEach
<1>2. GatePasses(head, TRUE, code, main, exemptions, declared, "works", TRUE)
  BY <1>1, PortsAgree DEF MergeAfterCI
<1> QED
  BY <1>2 DEF GatePasses, Stale, FailsOnBreak, Undeclared

(* The state of branch, main and exemptions keeps its shape; of an         *)
(* exemption there is one line at most.                                    *)
THEOREM ContractType == ContractSpec => []ContractTypeOK
<1>1. ContractInit => ContractTypeOK
  <2> SUFFICES ASSUME ContractInit PROVE ContractTypeOK
    OBVIOUS
  <2>1. merged \in [code : SUBSET Op, declared : Declarations, broke : SUBSET Op,
                    permitted : SUBSET Op]
    BY DEF ContractInit, Declarations
  <2>2. exemptions \in OneLineEach /\ {worktree, head, main} \subseteq Contracts
    BY DEF ContractInit, OneLineEach, Contracts
  <2> QED
    BY <2>1, <2>2 DEF ContractInit, ContractTypeOK, Declarations
<1>2. ContractTypeOK /\ [ContractNext]_contractVars => ContractTypeOK'
  <2> SUFFICES ASSUME ContractTypeOK, [ContractNext]_contractVars PROVE ContractTypeOK'
    OBVIOUS
  <2> USE DEF ContractTypeOK
  <2>1. ASSUME NEW ops \in SUBSET Op, EditCode(ops) PROVE ContractTypeOK'
    BY <2>1 DEF EditCode
  <2>2. CASE WithdrawSpec \/ OpenapiExport \/ Commit
    BY <2>2 DEF WithdrawSpec, OpenapiExport, Commit, Contracts
  <2>3. ASSUME NEW op \in Op, NEW entries \in SUBSET Entry, entries = {} \/ \E e : e.op = op /\ entries = {e},
               EditExemptions(op, entries)
        PROVE  ContractTypeOK'
    <3>1. exemptions' \in OneLineEach
      BY <2>3 DEF EditExemptions, OneLineEach
    <3> QED
      BY <2>3, <3>1 DEF EditExemptions
  <2>4. ASSUME NEW e \in Entry, EditExemptions(e.op, {e}) PROVE ContractTypeOK'
    BY <2>3, <2>4 DEF Entry
  <2>5. ASSUME NEW e \in Entry, Expire(e) PROVE ContractTypeOK'
    <3> DEFINE rotten == [e EXCEPT !.is = "rotten"]
    <3>1. rotten \in Entry /\ rotten.op = e.op
      BY DEF Entry
    <3>2. exemptions' \in OneLineEach
      <4>1. exemptions' = (exemptions \ {e}) \cup {rotten}
        BY <2>5 DEF Expire
      <4> HIDE DEF rotten
      <4> QED
        BY <2>5, <3>1, <4>1 DEF Expire, OneLineEach
    <3> QED
      BY <2>5, <3>2 DEF Expire
  <2>6. ASSUME NEW claim \in Declarations, Declare(claim) PROVE ContractTypeOK'
    BY <2>6 DEF Declare
  <2>7. ASSUME NEW exports \in BOOLEAN, NEW ciEnforces \in BOOLEAN,
               NEW oasdiff \in {"works", "fails", "absent"},
               LocalGate(exports, oasdiff, ciEnforces)
        PROVE  ContractTypeOK'
    <3>1. local' \in BOOLEAN
      BY <2>7 DEF LocalGate, GatePasses, GatePassesPy
    <3>2. worktree' \in Contracts
      BY <2>7 DEF LocalGate, Contracts
    <3> QED
      BY <2>7, <3>1, <3>2 DEF LocalGate
  <2>8. CASE MergeAfterCI
    <3>1. {e.op : e \in {d \in exemptions : d.is = "good"}} \subseteq Op
      BY DEF OneLineEach, Entry
    <3>2. (IF head = NoSpec THEN {} ELSE Broken(main, head)) \subseteq Op
      BY DEF Broken, Contracts
    <3> QED
      BY <2>8, <3>1, <3>2 DEF MergeAfterCI, Contracts
  <2>9. CASE UNCHANGED contractVars
    BY <2>9 DEF contractVars
  <2> QED
    BY <2>1, <2>2, <2>3, <2>4, <2>5, <2>6, <2>7, <2>8, <2>9 DEF ContractNext
<1> QED
  BY <1>1, <1>2, PTL DEF ContractSpec

(* What main carries was merged by gates that passed: consumers were       *)
(* broken by permission only, and main's contract is main's code.          *)
LEMMA ContractKept == ContractSpec => []BreaksByPermission /\ []MainIsCurrent
<1>1. ContractInit => BreaksByPermission /\ MainIsCurrent
  BY DEF ContractInit, BreaksByPermission, MainIsCurrent
<1>2. ContractTypeOK /\ BreaksByPermission /\ MainIsCurrent /\ [ContractNext]_contractVars
      => (BreaksByPermission /\ MainIsCurrent)'
  <2> SUFFICES ASSUME ContractTypeOK, BreaksByPermission, MainIsCurrent,
                      [ContractNext]_contractVars
               PROVE  BreaksByPermission' /\ MainIsCurrent'
    OBVIOUS
  <2>1. CASE UNCHANGED <<main, merged>>
    BY <2>1 DEF BreaksByPermission, MainIsCurrent
  <2>2. CASE MergeAfterCI
    <3> DEFINE good == {e.op : e \in {d \in exemptions : d.is = "good"}}
    <3>1. main' = head /\ merged'.code = code /\ merged'.declared = declared
          /\ merged'.permitted = good
          /\ merged'.broke = IF head = NoSpec THEN {} ELSE Broken(main, head)
      BY <2>2 DEF MergeAfterCI
    <3>2. CASE head = NoSpec
      BY <3>1, <3>2 DEF BreaksByPermission, MainIsCurrent
    <3>3. CASE head # NoSpec
      <4>1. head = code /\ Unsuppressed(main, code, exemptions) = {}
            /\ {e.op : e \in exemptions} \subseteq good
            /\ (declared = "false" => Broken(main, code) = {})
        BY <2>2, <3>3, MergedPassed
      <4>2. Broken(main, head) \subseteq good
        BY <4>1 DEF Unsuppressed
      <4> QED
        BY <3>1, <3>3, <4>1, <4>2 DEF BreaksByPermission, MainIsCurrent
    <3> QED
      BY <3>2, <3>3
  <2> QED
    BY <2>1, <2>2 DEF ContractNext, contractVars, EditCode, WithdrawSpec, OpenapiExport,
       EditExemptions, Expire, Declare, Commit, LocalGate
<1> QED
  BY <1>1, <1>2, ContractType, PTL DEF ContractSpec

(* Consumers are broken by permission only.                                *)
THEOREM PermittedBreaks == ContractSpec => []BreaksByPermission
BY ContractKept, PTL

(* What consumers vendor from main is what main's code implements.         *)
THEOREM MainCurrent == ContractSpec => []MainIsCurrent
BY ContractKept, PTL

-----------------------------------------------------------------------------
(* Fleet: what the map says was vendored when it was said.                 *)

Fact == [provides : SUBSET Api, consumes : SUBSET Api]
Slice == [consumesFrom : SUBSET Service, consumedBy : SUBSET Service]

\* Whose contract s holds in its root: its own, or one it vendored.
HeldBy(s, from) == {s} \cup {p \in Service : <<s, p>> \in from}

\* What a repository may say of itself, once it vendored what `from` says.
HonestFact(f, s, from) ==
  /\ f.provides \subseteq {ApiName(s, <<"service", s>>)}
  /\ f.consumes \subseteq {ApiName(p, <<"unknown">>) : p \in HeldBy(s, from)}

HonestList(list, from) == \A s \in DOMAIN list : HonestFact(list[s], s, from)

HonestIndex(i, from) == \A p \in DOMAIN i : \A c \in i[p].consumedBy : <<c, p>> \in from

\* Every hop of the way is honest.  Copies are old, but what was vendored once
\* stays in `vendored`.
FleetInv ==
  /\ \A s \in Service : /\ specs[s].docs = None \/ (specs[s].docs = s /\ PublishedAt(s) = "docs")
                        /\ specs[s].root = None \/ specs[s].root \in HeldBy(s, vendored)
  /\ \A s \in Service : facts[s] = None \/ HonestFact(facts[s], s, vendored)
  /\ HonestList(factsDir, vendored)
  /\ TitlesDistinct =>
       /\ index = None \/ HonestIndex(index, vendored)
       /\ \A s \in Service : map[s] = None \/ HonestIndex(map[s], vendored)

-----------------------------------------------------------------------------
LEMMA ApiNameType ==
  ASSUME NEW p \in Service, NEW s \in Service
  PROVE  ApiName(p, <<"service", s>>) \in Api /\ ApiName(p, <<"unknown">>) \in Api
  BY DEF ApiName, Api

LEMMA ExtractType ==
  ASSUME FleetTypeOK, NEW s \in Service
  PROVE  ExtractFacts(s) \in Fact
<1>1. specs[s].docs \in Service \cup {None} /\ specs[s].root \in Service \cup {None}
  BY DEF FleetTypeOK
<1>2. ExtractFacts(s).provides \subseteq Api /\ ExtractFacts(s).consumes \subseteq Api
  BY <1>1, ApiNameType DEF ExtractFacts
<1> QED
  BY <1>2 DEF ExtractFacts, Fact

LEMMA AggregateType ==
  ASSUME NEW list, DOMAIN list \subseteq Service, NEW i \in Aggregate(list)
  PROVE  IsListOf(Slice, i) /\ DOMAIN i = DOMAIN list
<1> DEFINE Apis == UNION {list[s].consumes : s \in DOMAIN list}
           From(r, s) == (UNION {r[a] : a \in list[s].consumes}) \ {s}
<1>1. PICK r \in [Apis -> SUBSET Service] :
        i = [s \in DOMAIN list |->
               [consumesFrom |-> From(r, s),
                consumedBy |-> {c \in DOMAIN list : s \in From(r, c)}]]
  BY DEF Aggregate
<1>2. ASSUME NEW s \in DOMAIN list PROVE From(r, s) \subseteq Service
  OBVIOUS
<1> QED
  BY <1>1, <1>2 DEF IsListOf, Slice

(* Facts, indexes and copies keep their shape.                             *)
THEOREM FleetType == FleetSpec => []FleetTypeOK
<1>1. FleetInit => FleetTypeOK
  BY MaxEditsAssumption DEF FleetInit, FleetTypeOK, IsListOf
<1>2. FleetTypeOK /\ [FleetNext]_fleetVars => FleetTypeOK'
  <2> SUFFICES ASSUME FleetTypeOK, [FleetNext]_fleetVars PROVE FleetTypeOK'
    OBVIOUS
  <2> DEFINE T == /\ specs \in [Service -> [docs : Service \cup {None}, root : Service \cup {None}]]
                  /\ facts \in [Service -> Fact \cup {None}] /\ IsListOf(Fact, factsDir)
                  /\ index = None \/ IsListOf(Slice, index)
                  /\ DOMAIN map = Service /\ \A s \in Service : map[s] = None \/ IsListOf(Slice, map[s])
                  /\ DOMAIN laid = Service /\ \A s \in Service : laid[s] = None \/ IsListOf(Slice, laid[s])
                  /\ vendored \subseteq Service \X Service /\ edits \in 0..MaxEdits
  <2>0. T
    BY DEF FleetTypeOK, Fact, Slice
  <2>t. T' => FleetTypeOK'
    BY DEF FleetTypeOK, Fact, Slice
  <2> USE <2>0
  <2>1. ASSUME NEW s \in Service, Export(s) PROVE T'
    BY <2>1, MaxEditsAssumption DEF Export, PublishedAt
  <2>2. ASSUME NEW c \in Service, NEW p \in Service, ApiSync(c, p) PROVE T'
    BY <2>2, MaxEditsAssumption DEF ApiSync
  <2>3. ASSUME NEW s \in Service, CmdFacts(s) PROVE T'
    BY <2>3, ExtractType DEF CmdFacts
  <2>4. ASSUME NEW s \in Service, CopyFacts(s) PROVE T'
    <3>1. facts[s] \in Fact
      BY <2>4 DEF CopyFacts
    <3>2. IsListOf(Fact, factsDir')
      BY <2>4, <3>1 DEF CopyFacts, IsListOf
    <3> QED
      BY <2>4, <3>2 DEF CopyFacts
  <2>5. ASSUME CmdMapBuild PROVE T'
    <3>0. DOMAIN factsDir \subseteq Service
      BY DEF IsListOf
    <3>1. IsListOf(Slice, index')
      BY <2>5, <3>0, AggregateType DEF CmdMapBuild
    <3> QED
      BY <2>5, <3>1 DEF CmdMapBuild, IsListOf
  <2>6. ASSUME NEW s \in Service, Scaffold(s) PROVE T'
    BY <2>6 DEF Scaffold
  <2>7. ASSUME NEW s \in Service, CopyMap(s) PROVE T'
    BY <2>7 DEF CopyMap
  <2>8. ASSUME NEW s \in Service, NEW busy \in BOOLEAN, CmdUpdate(s, busy) PROVE T'
    BY <2>8 DEF CmdUpdate
  <2>9. ASSUME UNCHANGED fleetVars PROVE T'
    BY <2>9 DEF fleetVars, IsListOf
  <2> QED
    BY <2>t, <2>1, <2>2, <2>3, <2>4, <2>5, <2>6, <2>7, <2>8, <2>9 DEF FleetNext
<1> QED
  BY <1>1, <1>2, PTL DEF FleetSpec

-----------------------------------------------------------------------------
\* What is vendored later takes nothing back.
LEMMA HonestyLasts ==
  ASSUME NEW from, NEW more, from \subseteq more
  PROVE  /\ \A s : HeldBy(s, from) \subseteq HeldBy(s, more)
         /\ \A f, s : HonestFact(f, s, from) => HonestFact(f, s, more)
         /\ \A list : HonestList(list, from) => HonestList(list, more)
         /\ \A i : HonestIndex(i, from) => HonestIndex(i, more)
<1>1. \A s : HeldBy(s, from) \subseteq HeldBy(s, more)
  BY DEF HeldBy
<1>2. \A f, s : HonestFact(f, s, from) => HonestFact(f, s, more)
  BY <1>1 DEF HonestFact
<1> QED
  BY <1>1, <1>2 DEF HonestList, HonestIndex

\* A repository states honestly what lies in its two places.
LEMMA ExtractHonest ==
  ASSUME FleetInv, NEW s \in Service
  PROVE  HonestFact(ExtractFacts(s), s, vendored)
<1>1. specs[s].docs = None \/ specs[s].docs = s
  BY DEF FleetInv
<1>2. specs[s].root = None \/ specs[s].root \in HeldBy(s, vendored)
  BY DEF FleetInv
<1> QED
  BY <1>1, <1>2 DEF HonestFact, ExtractFacts

\* An API is named by one service only: what c holds of q and p publishes
\* under one name is the contract of p = q.
LEMMA NamesTell ==
  ASSUME TitlesDistinct, NEW p \in Service, NEW q \in Service,
         ApiName(q, <<"unknown">>) = ApiName(p, <<"service", p>>)
  PROVE  p = q
<1>1. <<"unknown">> # <<"title", Title[p]>> /\ <<"unknown">> # <<"service", p>>
  OBVIOUS
<1>2. <<"title", Title[q]>> # <<"service", p>>
  OBVIOUS
<1>3. Title[q] # Untitled /\ Title[p] # Untitled /\ Title[p] = Title[q]
  BY <1>1, <1>2 DEF ApiName
<1> QED
  BY <1>3 DEF TitlesDistinct

\* map:build joins honest facts to an honest index, whichever provider it
\* meets last.
LEMMA AggregateHonest ==
  ASSUME TitlesDistinct, NEW list, DOMAIN list \subseteq Service, NEW from,
         HonestList(list, from), NEW i \in Aggregate(list)
  PROVE  HonestIndex(i, from)
<1> DEFINE Apis == UNION {list[s].consumes : s \in DOMAIN list}
           From(r, s) == (UNION {r[a] : a \in list[s].consumes}) \ {s}
<1>1. PICK r \in [Apis -> SUBSET Service] :
        /\ \A a \in Apis : r[a] \in ProviderOf(list, a)
        /\ i = [s \in DOMAIN list |->
                  [consumesFrom |-> From(r, s),
                   consumedBy |-> {c \in DOMAIN list : s \in From(r, c)}]]
  BY DEF Aggregate
<1>2. SUFFICES ASSUME NEW p \in DOMAIN list, NEW c \in DOMAIN list, p \in From(r, c)
               PROVE  <<c, p>> \in from
  BY <1>1 DEF HonestIndex
<1>3. PICK a \in list[c].consumes : p \in r[a]
  BY <1>2
<1>4. p # c
  BY <1>2
<1>5. a \in list[p].provides
  <2>1. r[a] = {} \/ \E t \in Providers(list, a) : r[a] = {t}
    BY <1>1, <1>3 DEF ProviderOf
  <2> QED
    BY <1>3, <2>1 DEF Providers
<1>6. a = ApiName(p, <<"service", p>>)
  BY <1>5 DEF HonestList, HonestFact
<1>7. PICK q \in HeldBy(c, from) : a = ApiName(q, <<"unknown">>)
  BY <1>3 DEF HonestList, HonestFact
<1>8. q \in Service
  BY <1>2 DEF HeldBy
<1>9. q = p
  BY <1>6, <1>7, <1>8, NamesTell
<1> QED
  BY <1>4, <1>7, <1>9 DEF HeldBy

-----------------------------------------------------------------------------
(* Every hop stays honest, in whatever order the hops are made.            *)
THEOREM FleetInvariant == FleetSpec => []FleetInv
<1>1. FleetInit => FleetInv
  BY DEF FleetInit, FleetInv, HonestList
<1>2. FleetTypeOK /\ FleetInv /\ [FleetNext]_fleetVars => FleetInv'
  <2> SUFFICES ASSUME FleetTypeOK, FleetInv, [FleetNext]_fleetVars PROVE FleetInv'
    OBVIOUS
  <2>0. /\ specs \in [Service -> [docs : Service \cup {None}, root : Service \cup {None}]]
        /\ DOMAIN facts = Service /\ DOMAIN map = Service /\ DOMAIN factsDir \subseteq Service
    BY DEF FleetTypeOK, IsListOf
  <2>1. ASSUME NEW s \in Service, Export(s) PROVE FleetInv'
    <3>1. \A t \in Service : /\ \/ specs'[t].docs = None
                                \/ specs'[t].docs = t /\ PublishedAt(t) = "docs"
                             /\ specs'[t].root = None \/ specs'[t].root \in HeldBy(t, vendored)
      BY <2>0, <2>1 DEF Export, PublishedAt, FleetInv, HeldBy
    <3> QED
      BY <2>1, <3>1 DEF Export, FleetInv
  <2>2. ASSUME NEW c \in Service, NEW p \in Service, ApiSync(c, p) PROVE FleetInv'
    <3>1. vendored \subseteq vendored' /\ p \in HeldBy(c, vendored')
      BY <2>2 DEF ApiSync, HeldBy
    <3>2. \A t \in Service :
            /\ specs'[t].docs = None \/ (specs'[t].docs = t /\ PublishedAt(t) = "docs")
            /\ specs'[t].root = None \/ specs'[t].root \in HeldBy(t, vendored')
      <4> TAKE t \in Service
      <4>1. CASE t = c
        BY <2>0, <2>2, <3>1, <4>1 DEF ApiSync, FleetInv
      <4>2. CASE t # c
        BY <2>0, <2>2, <3>1, <4>2, HonestyLasts DEF ApiSync, FleetInv
      <4> QED
        BY <4>1, <4>2
    <3>3. /\ \A t \in Service : facts'[t] = None \/ HonestFact(facts'[t], t, vendored')
          /\ HonestList(factsDir', vendored')
      BY <2>2, <3>1, HonestyLasts DEF ApiSync, FleetInv
    <3>4. TitlesDistinct =>
            /\ index' = None \/ HonestIndex(index', vendored')
            /\ \A t \in Service : map'[t] = None \/ HonestIndex(map'[t], vendored')
      BY <2>2, <3>1, HonestyLasts DEF ApiSync, FleetInv
    <3> QED
      BY <3>2, <3>3, <3>4 DEF FleetInv, TitlesDistinct
  <2>3. ASSUME NEW s \in Service, CmdFacts(s) PROVE FleetInv'
    <3>1. \A t \in Service : facts'[t] = None \/ HonestFact(facts'[t], t, vendored)
      BY <2>0, <2>3, ExtractHonest DEF CmdFacts, FleetInv
    <3> QED
      BY <2>3, <3>1 DEF CmdFacts, FleetInv
  <2>4. ASSUME NEW s \in Service, CopyFacts(s) PROVE FleetInv'
    <3>1. HonestList(factsDir', vendored)
      BY <2>4 DEF CopyFacts, FleetInv, HonestList
    <3> QED
      BY <2>4, <3>1 DEF CopyFacts, FleetInv
  <2>5. CASE CmdMapBuild
    <3>1. TitlesDistinct => HonestIndex(index', vendored)
      BY <2>0, <2>5, AggregateHonest DEF CmdMapBuild, FleetInv
    <3> QED
      BY <2>5, <3>1 DEF CmdMapBuild, FleetInv, TitlesDistinct
  <2>6. ASSUME NEW s \in Service, Scaffold(s) \/ CopyMap(s) PROVE FleetInv'
    <3>1. TitlesDistinct => \A t \in Service : map'[t] = None \/ HonestIndex(map'[t], vendored)
      BY <2>0, <2>6 DEF Scaffold, CopyMap, FleetInv
    <3> QED
      BY <2>6, <3>1 DEF Scaffold, CopyMap, FleetInv, TitlesDistinct
  <2>7. ASSUME NEW s \in Service, NEW busy \in BOOLEAN, CmdUpdate(s, busy) PROVE FleetInv'
    <3>1. TitlesDistinct => \A t \in Service : map'[t] = None \/ HonestIndex(map'[t], vendored)
      BY <2>0, <2>7 DEF CmdUpdate, FleetInv
    <3> QED
      BY <2>7, <3>1 DEF CmdUpdate, FleetInv, TitlesDistinct
  <2>8. CASE UNCHANGED fleetVars
    BY <2>8 DEF fleetVars, FleetInv
  <2> QED
    BY <2>1, <2>2, <2>3, <2>4, <2>5, <2>6, <2>7, <2>8 DEF FleetNext
<1> QED
  BY <1>1, <1>2, FleetType, PTL DEF FleetSpec

(* However stale the copies, the map names no consumer that never vendored *)
(* the contract.                                                           *)
THEOREM NoPhantoms == FleetSpec => []NoPhantomConsumer
<1>1. FleetInv => NoPhantomConsumer
  BY DEF FleetInv, HonestIndex, NoPhantomConsumer
<1> QED
  BY <1>1, FleetInvariant, PTL

-----------------------------------------------------------------------------
\* What p publishes under its title, p alone publishes.
LEMMA OneProvider ==
  ASSUME FleetTypeOK, FleetInv, Settled, TitlesDistinct,
         NEW p \in Service, Title[p] # Untitled, specs[p].docs = p
  PROVE  Providers(factsDir, <<"title", Title[p]>>) = {p}
<1>1. DOMAIN factsDir = Service /\ \A s \in Service : factsDir[s] = ExtractFacts(s)
  BY DEF Settled
<1>2. p \in Providers(factsDir, <<"title", Title[p]>>)
  BY <1>1, NoneAssumption DEF Providers, ExtractFacts, ApiName
<1>3. ASSUME NEW q \in Providers(factsDir, <<"title", Title[p]>>) PROVE q = p
  <2>1. q \in Service /\ <<"title", Title[p]>> \in ExtractFacts(q).provides
    BY <1>1, <1>3 DEF Providers
  <2>2. specs[q].docs \in {None, q}
    BY <2>1 DEF FleetInv
  <2>3. <<"title", Title[p]>> = ApiName(q, <<"service", q>>)
    BY <2>1, <2>2 DEF ExtractFacts
  <2>4. <<"title", Title[p]>> # <<"service", q>>
    OBVIOUS
  <2>5. Title[q] = Title[p]
    BY <2>3, <2>4 DEF ApiName
  <2> QED
    BY <2>1, <2>5 DEF TitlesDistinct
<1> QED
  BY <1>2, <1>3

\* Nobody is resolved to a service that publishes nothing.
LEMMA SilentProvider ==
  ASSUME NEW list, NEW i \in Aggregate(list), NEW p \in DOMAIN list, list[p].provides = {}
  PROVE  p \in DOMAIN i /\ i[p].consumedBy = {}
<1> DEFINE Apis == UNION {list[s].consumes : s \in DOMAIN list}
           From(r, s) == (UNION {r[a] : a \in list[s].consumes}) \ {s}
<1>1. PICK r \in [Apis -> SUBSET Service] :
        /\ \A a \in Apis : r[a] \in ProviderOf(list, a)
        /\ i = [s \in DOMAIN list |->
                  [consumesFrom |-> From(r, s),
                   consumedBy |-> {c \in DOMAIN list : s \in From(r, c)}]]
  BY DEF Aggregate
<1>2. ASSUME NEW c \in DOMAIN list, p \in From(r, c) PROVE FALSE
  <2>1. PICK a \in list[c].consumes : p \in r[a]
    BY <1>2
  <2>2. r[a] = {} \/ \E t \in Providers(list, a) : r[a] = {t}
    BY <1>1, <2>1 DEF ProviderOf
  <2> QED
    BY <2>1, <2>2 DEF Providers
<1> QED
  BY <1>1, <1>2

(* Once everything is sent up, whoever holds the index is warned of every  *)
(* holder of its contract if it publishes under docs/generated, and of     *)
(* none if it publishes into its root.                                     *)
THEOREM ImpactFinds == FleetSpec => []ImpactFindsConsumers
<1>1. FleetTypeOK /\ FleetInv => ImpactFindsConsumers
  <2> SUFFICES ASSUME FleetTypeOK, FleetInv, NEW p \in Service, NEW c \in Service,
                      Settled, specs[p][PublishedAt(p)] = p, p \in Backend, map[p] = index,
                      Title[p] # Untitled, c \notin Backend, specs[c].root = p, TitlesDistinct
               PROVE  c \in ImpactWarnsOf(p, TRUE) <=> PublishedAt(p) = "docs"
    BY DEF ImpactFindsConsumers
  <2> DEFINE api == <<"title", Title[p]>>
             Apis == UNION {factsDir[s].consumes : s \in DOMAIN factsDir}
             From(r, s) == (UNION {r[a] : a \in factsDir[s].consumes}) \ {s}
  <2>1. DOMAIN factsDir = Service /\ \A s \in Service : factsDir[s] = ExtractFacts(s)
    BY DEF Settled
  <2>2. index \in Aggregate(factsDir) /\ map[p] # None
    BY DEF Settled
  <2>3. CASE PublishedAt(p) = "docs"
    <3>1. PICK r \in [Apis -> SUBSET Service] :
            /\ \A a \in Apis : r[a] \in ProviderOf(factsDir, a)
            /\ index = [s \in DOMAIN factsDir |->
                          [consumesFrom |-> From(r, s),
                           consumedBy |-> {d \in DOMAIN factsDir : s \in From(r, d)}]]
      BY <2>2 DEF Aggregate
    <3>2. api \in factsDir[c].consumes
      BY <2>1, NoneAssumption DEF ExtractFacts, ApiName
    <3>3. specs[p].docs = p
      BY <2>3 DEF PublishedAt
    <3>4. Providers(factsDir, api) = {p}
      BY <3>3, OneProvider
    <3>5. api \in Apis
      BY <2>1, <3>2
    <3>6. r[api] = {p}
      BY <3>1, <3>4, <3>5 DEF ProviderOf
    <3>7. p # c
      OBVIOUS
    <3>8. p \in From(r, c)
      BY <3>2, <3>6, <3>7
    <3>9. c \in index[p].consumedBy /\ p \in DOMAIN index
      BY <2>1, <3>1, <3>8
    <3> QED
      BY <2>2, <2>3, <3>9 DEF ImpactWarnsOf, ServiceImpact
  <2>4. CASE PublishedAt(p) # "docs"
    <3>1. specs[p].docs = None
      BY <2>4 DEF FleetInv
    <3>2. factsDir[p].provides = {}
      <4>1. ExtractFacts(p).provides = {}
        BY <3>1 DEF ExtractFacts
      <4> QED
        BY <2>1, <4>1
    <3>3. index[p].consumedBy = {}
      BY <2>1, <2>2, <3>2, SilentProvider
    <3> QED
      BY <2>4, <3>3 DEF ImpactWarnsOf, ServiceImpact
  <2> QED
    BY <2>3, <2>4
<1> QED
  BY <1>1, FleetType, FleetInvariant, PTL

-----------------------------------------------------------------------------
(* Blast radius: the search from a file sees the files that reach it, so   *)
(* the counts are of users; and a rank is held by one file.                *)

\* Imports are of source files.
BlastTypeOK == imports \in [File -> SUBSET Source] /\ shown \subseteq Source

\* The files are finitely many numbers.
LEMMA FilesFinite == IsFiniteSet(File) /\ IsFiniteSet(Source) /\ Source \subseteq File /\ File \subseteq Nat
  BY FileAssumption, FS_Union DEF File

\* One more level of dependents.
\* The next level of a breadth first search, and all it has seen.
After(reverse, level) ==
  <<level[1] \cup NextLevel(reverse, level[1], level[2]),
    NextLevel(reverse, level[1], level[2])>>

\* The levels are what their recursive definition says ...
LEMMA DependentsEquation ==
  ASSUME NEW reverse \in [File -> SUBSET File], NEW f \in File
  PROVE  Dependents(reverse, {f}) =
           [d \in Nat |-> IF d = 0 THEN <<{f}, {f}>>
                          ELSE After(reverse, Dependents(reverse, {f})[d - 1])]
<1> DEFINE S == (SUBSET File) \X (SUBSET File)
           step == [p \in Nat \X S |-> After(reverse, p[2])]
           start == <<{f}, {f}>>
<1>1. \A x \in S : After(reverse, x) \in S
  BY DEF NextLevel, After
<1>2. step \in [Nat \X S -> S] /\ start \in S
  BY <1>1
<1>3. PICK g \in [Nat -> S] : Iterates(g, start, step)
  <2> HIDE DEF S, step, start
  <2> QED
    BY <1>2, Iteration
<1>4. g[0] = start /\ \A n \in Nat : g[n + 1] = After(reverse, g[n])
  <2>1. \A n \in Nat : <<n, g[n]>> \in Nat \X S
    OBVIOUS
  <2>2. \A n \in Nat : step[<<n, g[n]>>] = After(reverse, g[n])
    <3> HIDE DEF S
    <3> QED
      BY <2>1
  <2> QED
    BY <1>3, <2>2 DEF Iterates
<1>5. g = [d \in Nat |-> IF d = 0 THEN start ELSE After(reverse, g[d - 1])]
  <2>1. ASSUME NEW d \in Nat PROVE g[d] = IF d = 0 THEN start ELSE After(reverse, g[d - 1])
    <3>1. d # 0 => d - 1 \in Nat /\ d - 1 + 1 = d
      OBVIOUS
    <3> HIDE DEF start
    <3> QED
      BY <1>4, <3>1
  <2> QED
    BY <1>3, <2>1
<1> QED
  BY <1>5 DEF Dependents, After

\* ... which is a start, and steps from files to files.
AreLevels(L, f, reverse) ==
  /\ \A d \in Nat : L[d] \in (SUBSET File) \X (SUBSET File)
  /\ L[0] = <<{f}, {f}>>
  /\ \A d \in Nat : L[d + 1] = After(reverse, L[d])

\* What satisfies the equation has these levels ...
LEMMA LevelsUnfold ==
  ASSUME NEW L, NEW f \in File, NEW reverse \in [File -> SUBSET File],
         L = [d \in Nat |-> IF d = 0 THEN <<{f}, {f}>> ELSE After(reverse, L[d - 1])]
  PROVE  AreLevels(L, f, reverse)
<1> DEFINE S == (SUBSET File) \X (SUBSET File)
           N == {d \in Nat : L[d] \in S}
<1>1. L[0] = <<{f}, {f}>> /\ \A n \in Nat : n # 0 => L[n] = After(reverse, L[n - 1])
  OBVIOUS
<1>2. ASSUME NEW d \in Nat PROVE L[d + 1] = After(reverse, L[d])
  <2>1. d + 1 \in Nat /\ d + 1 # 0 /\ d + 1 - 1 = d
    OBVIOUS
  <2> QED
    BY <1>1, <2>1
<1>3. \A x \in S : After(reverse, x) \in S
  BY DEF NextLevel, After
<1>4. 0 \in N
  <2>1. <<{f}, {f}>> \in S
    OBVIOUS
  <2> HIDE DEF S
  <2> QED
    BY <1>1, <2>1
<1>5. ASSUME NEW d \in Nat, d \in N PROVE d + 1 \in N
  <2> HIDE DEF S
  <2> QED
    BY <1>2, <1>3, <1>5
<1>6. Nat \subseteq N
  <2> HIDE DEF N
  <2> QED
    BY <1>4, <1>5, AllNumbers
<1> QED
  BY <1>1, <1>2, <1>6 DEF AreLevels

\* ... and so has the search.
LEMMA DependentsLevels ==
  ASSUME NEW f \in File, NEW reverse \in [File -> SUBSET File]
  PROVE  AreLevels(Dependents(reverse, {f}), f, reverse)
  BY DependentsEquation, LevelsUnfold

\* What is within reach, one import at a time.
LEMMA WithinSteps ==
  ASSUME NEW graph \in [File -> SUBSET File], NEW f \in File,
         NEW W, W = Within(graph, f)
  PROVE  /\ W \in [Nat -> SUBSET File] /\ W[0] = {f}
         /\ \A d \in Nat : W[d + 1] = W[d] \cup UNION {graph[g] : g \in W[d]}
<1> DEFINE S == SUBSET File
           Step(x) == x \cup UNION {graph[g] : g \in x}
           step == [p \in Nat \X S |-> Step(p[2])]
           start == {f}
<1>1. \A x \in S : Step(x) \in S
  OBVIOUS
<1>2. step \in [Nat \X S -> S] /\ start \in S
  BY <1>1
<1>3. PICK g \in [Nat -> S] : Iterates(g, start, step)
  <2> HIDE DEF S, step, start
  <2> QED
    BY <1>2, Iteration
<1>4. g[0] = start /\ \A n \in Nat : g[n + 1] = Step(g[n])
  <2>1. \A n \in Nat : <<n, g[n]>> \in Nat \X S
    OBVIOUS
  <2>2. \A n \in Nat : step[<<n, g[n]>>] = Step(g[n])
    <3> HIDE DEF S, Step
    <3> QED
      BY <2>1
  <2> QED
    BY <1>3, <2>2 DEF Iterates
<1>5. g = [d \in Nat |-> IF d = 0 THEN start ELSE Step(g[d - 1])]
  <2>1. ASSUME NEW d \in Nat PROVE g[d] = IF d = 0 THEN start ELSE Step(g[d - 1])
    <3>1. d # 0 => d - 1 \in Nat /\ d - 1 + 1 = d
      OBVIOUS
    <3> HIDE DEF Step, start
    <3> QED
      BY <1>4, <3>1
  <2> QED
    BY <1>3, <2>1
<1>6. W = [d \in Nat |-> IF d = 0 THEN start ELSE Step(W[d - 1])]
  BY <1>5 DEF Within
<1>7. W[0] = start /\ \A d \in Nat : W[d + 1] = Step(W[d])
  <2> HIDE DEF Step, start, step, S
  <2>1. \A n \in Nat : W[n] = IF n = 0 THEN start ELSE Step(W[n - 1])
    BY <1>6
  <2>2. \A d \in Nat : d + 1 \in Nat /\ d + 1 # 0 /\ d + 1 - 1 = d
    OBVIOUS
  <2>3. ASSUME NEW d \in Nat PROVE W[d + 1] = Step(W[d])
    <3>1. W[d + 1] = Step(W[d + 1 - 1])
      BY <2>1, <2>2
    <3> QED
      BY <2>2, <3>1
  <2> QED
    BY <2>1, <2>3
<1>8. \A d \in Nat : W[d] \in S
  <2> DEFINE N == {d \in Nat : W[d] \in S}
  <2>1. 0 \in N
    BY <1>2, <1>7
  <2>2. ASSUME NEW d \in Nat, d \in N PROVE d + 1 \in N
    <3> HIDE DEF S, Step, start, step
    <3> QED
      BY <1>1, <1>7, <2>2
  <2>3. Nat \subseteq N
    <3> HIDE DEF N
    <3> QED
      BY <2>1, <2>2, AllNumbers
  <2> QED
    BY <2>3
<1>9. W \in [Nat -> S]
  <2> HIDE DEF S, Step, start
  <2> QED
    BY <1>6, <1>8
<1> QED
  BY <1>7, <1>9

\* What has been seen is closed under one more step, but for the last level.
LEMMA BreadthFirst ==
  ASSUME NEW L, NEW f \in File, NEW reverse \in [File -> SUBSET File], AreLevels(L, f, reverse)
  PROVE  \A d \in Nat :
           /\ L[d][1] \subseteq File /\ f \in L[d][1]
           /\ L[d + 1][1] = L[d][1] \cup UNION {reverse[g] : g \in L[d][1]}
           /\ L[d + 1][1] = L[d][1] \cup L[d + 1][2]
           /\ L[d][1] \cap L[d + 1][2] = {}
<1> DEFINE Closed(seen, last) ==
             seen \subseteq File /\ last \subseteq seen /\ f \in seen
               /\ (\A g \in seen \ last : reverse[g] \subseteq seen)
           N == {d \in Nat : Closed(L[d][1], L[d][2])}
<1>1. \A d \in Nat : /\ L[d + 1][1] = L[d][1] \cup NextLevel(reverse, L[d][1], L[d][2])
                     /\ L[d + 1][2] = NextLevel(reverse, L[d][1], L[d][2])
  BY DEF AreLevels, After
<1>2. 0 \in N
  <2>1. L[0][1] = {f} /\ L[0][2] = {f}
    BY DEF AreLevels
  <2>2. Closed({f}, {f})
    OBVIOUS
  <2> HIDE DEF Closed
  <2> QED
    BY <2>1, <2>2
<1>3. ASSUME NEW seen, NEW last, Closed(seen, last)
      PROVE  /\ Closed(seen \cup NextLevel(reverse, seen, last), NextLevel(reverse, seen, last))
             /\ seen \cup NextLevel(reverse, seen, last) = seen \cup UNION {reverse[g] : g \in seen}
             /\ seen \cap NextLevel(reverse, seen, last) = {}
  BY <1>3 DEF NextLevel
<1>4. ASSUME NEW d \in Nat, d \in N PROVE d + 1 \in N
  <2> HIDE DEF Closed
  <2>1. Closed(L[d][1], L[d][2])
    BY <1>4
  <2>2. Closed(L[d + 1][1], L[d + 1][2])
    BY <1>1, <1>3, <2>1
  <2> QED
    BY <2>2
<1>5. Nat \subseteq N
  <2> HIDE DEF N
  <2> QED
    BY <1>2, <1>4, AllNumbers
<1> SUFFICES ASSUME NEW d \in Nat
             PROVE  /\ L[d][1] \subseteq File /\ f \in L[d][1]
                    /\ L[d + 1][1] = L[d][1] \cup UNION {reverse[g] : g \in L[d][1]}
                    /\ L[d + 1][1] = L[d][1] \cup L[d + 1][2]
                    /\ L[d][1] \cap L[d + 1][2] = {}
  OBVIOUS
<1>6. Closed(L[d][1], L[d][2])
  BY <1>5
<1>7. L[d][1] \subseteq File /\ f \in L[d][1]
  BY <1>6
<1> HIDE DEF Closed
<1> DEFINE next == NextLevel(reverse, L[d][1], L[d][2])
<1>8. L[d + 1][1] = L[d][1] \cup next /\ L[d + 1][2] = next
  BY <1>1
<1>9. /\ L[d][1] \cup next = L[d][1] \cup UNION {reverse[g] : g \in L[d][1]}
      /\ L[d][1] \cap next = {}
  BY <1>3, <1>6
<1> HIDE DEF next
<1> QED
  BY <1>7, <1>8, <1>9

\* The levels after the first hold every dependent once.
LEMMA CountIsSeen ==
  ASSUME NEW f \in File, NEW reverse \in [File -> SUBSET File]
  PROVE  /\ IsFiniteSet(Dependents(reverse, {f})[Depth][1])
         /\ Count(reverse, f) + 1 = Cardinality(Dependents(reverse, {f})[Depth][1])
         /\ Count(reverse, f) \in Nat
<1> DEFINE levels == Dependents(reverse, {f})
           size == [d \in Nat |-> Cardinality(levels[d][2])]
           Length[d \in Nat] == IF d = 0 THEN 0 ELSE Length[d - 1] + Cardinality(levels[d][2])
<1>1. Count(reverse, f) = Length[Depth]
  BY DEF Count
<1>2. AreLevels(levels, f, reverse)
  BY DependentsLevels
<1> HIDE DEF levels
<1>3. \A d \in Nat : /\ levels[d][1] \subseteq File /\ levels[d][2] \subseteq File
                     /\ IsFiniteSet(levels[d][1]) /\ IsFiniteSet(levels[d][2])
  <2>1. \A d \in Nat : levels[d][1] \subseteq File /\ levels[d][2] \subseteq File
    BY <1>2 DEF AreLevels
  <2> QED
    BY <2>1, FilesFinite, FS_Subset
<1>4. size \in [Nat -> Nat]
  BY <1>3, FS_CardinalityType
<1>5. Length = [d \in Nat |-> IF d = 0 THEN 0 ELSE Length[d - 1] + Cardinality(levels[d][2])]
  <2>1. PICK s \in [Nat -> Nat] : s = [d \in Nat |-> IF d = 0 THEN 0 ELSE s[d - 1] + size[d]]
    <3> DEFINE none == 0
    <3>1. none \in Nat
      OBVIOUS
    <3> HIDE DEF none, size
    <3>2. \E s \in [Nat -> Nat] : s = [d \in Nat |-> IF d = 0 THEN none ELSE s[d - 1] + size[d]]
      BY <1>4, <3>1, Total
    <3> QED
      BY <3>2 DEF none
  <2>2. s = [d \in Nat |-> IF d = 0 THEN 0 ELSE s[d - 1] + Cardinality(levels[d][2])]
    BY <2>1
  <2> QED
    BY <2>2
<1> HIDE DEF Length
<1>6. Length[0] = 0 /\ \A d \in Nat : Length[d + 1] = Length[d] + Cardinality(levels[d + 1][2])
  <2>1. Length[0] = 0 /\ \A d \in Nat : d # 0 => Length[d] = Length[d - 1] + Cardinality(levels[d][2])
    BY <1>5
  <2>2. \A d \in Nat : d + 1 \in Nat /\ d + 1 # 0 /\ d + 1 - 1 = d
    OBVIOUS
  <2> QED
    BY <2>1, <2>2
<1> DEFINE N == {d \in Nat : Length[d] \in Nat /\ Length[d] + 1 = Cardinality(levels[d][1])}
<1>7. 0 \in N
  <2>1. levels[0][1] = {f}
    BY <1>2 DEF AreLevels
  <2>2. Cardinality(levels[0][1]) = 1
    BY <2>1, FS_Singleton
  <2> QED
    BY <1>6, <2>2
<1>8. ASSUME NEW d \in Nat, d \in N PROVE d + 1 \in N
  <2> DEFINE seen == levels[d][1]
             next == levels[d + 1][2]
  <2>1. levels[d + 1][1] = seen \cup next /\ seen \cap next = {}
    BY <1>2, BreadthFirst
  <2>2. IsFiniteSet(seen) /\ IsFiniteSet(next)
    BY <1>3
  <2>3. Cardinality(seen) \in Nat /\ Cardinality(next) \in Nat
    BY <2>2, FS_CardinalityType
  <2>4. Cardinality(seen \cup next) = Cardinality(seen) + Cardinality(next)
    BY <2>1, <2>2, DisjointUnion
  <2>5. Length[d] \in Nat /\ Length[d] + 1 = Cardinality(seen)
    BY <1>8
  <2>6. Length[d + 1] = Length[d] + Cardinality(next)
    BY <1>6
  <2>7. Length[d + 1] \in Nat /\ Length[d + 1] + 1 = Cardinality(seen \cup next)
    <3> HIDE DEF seen, next
    <3> QED
      BY <2>3, <2>4, <2>5, <2>6
  <2>8. d + 1 \in Nat /\ Length[d + 1] + 1 = Cardinality(levels[d + 1][1])
    BY <2>1, <2>7
  <2> QED
    BY <2>7, <2>8
<1>9. Nat \subseteq N
  <2> HIDE DEF N
  <2> QED
    BY <1>7, <1>8, AllNumbers
<1>10. Depth \in N
  BY <1>9, RankAssumption
<1> QED
  BY <1>1, <1>3, <1>10 DEF levels

\* Where a walk of one more step may go: as far as a walk from a first import.
LEMMA FirstImport ==
  ASSUME NEW graph \in [File -> SUBSET File]
  PROVE  \A d \in Nat : \A x, y \in File :
           y \in Within(graph, x)[d + 1]
             <=> y \in Within(graph, x)[d] \/ \E g \in graph[x] : y \in Within(graph, g)[d]
<1> DEFINE W(x) == Within(graph, x)
           From(x, y, d) == y \in W(x)[d] \/ \E g \in graph[x] : y \in W(g)[d]
           N == {d \in Nat : \A x, y \in File : y \in W(x)[d + 1] <=> From(x, y, d)}
<1>1. ASSUME NEW x \in File
      PROVE  /\ W(x)[0] = {x}
             /\ \A d \in Nat : W(x)[d] \subseteq File
             /\ \A d \in Nat : W(x)[d + 1] = W(x)[d] \cup UNION {graph[h] : h \in W(x)[d]}
  BY WithinSteps
<1> HIDE DEF W
<1>2. 0 \in N
  <2> SUFFICES ASSUME NEW x \in File, NEW y \in File PROVE y \in W(x)[0 + 1] <=> From(x, y, 0)
    OBVIOUS
  <2>1. W(x)[0] = {x} /\ W(x)[0 + 1] = {x} \cup graph[x]
    BY <1>1
  <2>2. \A g \in graph[x] : W(g)[0] = {g}
    BY <1>1
  <2> QED
    BY <2>1, <2>2
<1>3. ASSUME NEW d \in Nat, d \in N PROVE d + 1 \in N
  <2> SUFFICES ASSUME NEW x \in File, NEW y \in File
               PROVE  y \in W(x)[d + 1 + 1] <=> From(x, y, d + 1)
    OBVIOUS
  <2>1. y \in W(x)[d + 1 + 1] <=> y \in W(x)[d + 1] \/ \E h \in W(x)[d + 1] : y \in graph[h]
    BY <1>1
  <2>2. \A h \in File : h \in W(x)[d + 1] <=> From(x, h, d)
    BY <1>3
  <2>3. \A h \in W(x)[d] : y \in graph[h] => y \in W(x)[d + 1]
    BY <1>1
  <2>4. \A g \in graph[x] : y \in W(g)[d + 1]
                              <=> y \in W(g)[d] \/ \E h \in W(g)[d] : y \in graph[h]
    BY <1>1
  <2>5. W(x)[d + 1] \subseteq File /\ \A g \in graph[x] : W(g)[d] \subseteq File
    BY <1>1
  <2> QED
    BY <2>1, <2>2, <2>3, <2>4, <2>5
<1>4. Nat \subseteq N
  <2> HIDE DEF N
  <2> QED
    BY <1>2, <1>3, AllNumbers
<1> QED
  BY <1>4 DEF W

\* A file is among what the breadth first search of t has seen if it reaches t.
LEMMA SeenReach ==
  ASSUME NEW graph \in [File -> SUBSET File], NEW t \in File
  PROVE  \A d \in Nat : \A x \in File :
           x \in Dependents(ReverseGraph(graph), {t})[d][1] <=> t \in Within(graph, x)[d]
<1> DEFINE reverse == ReverseGraph(graph)
           L == Dependents(reverse, {t})
           N == {d \in Nat : \A x \in File : x \in L[d][1] <=> t \in Within(graph, x)[d]}
<1>1. /\ reverse \in [File -> SUBSET File]
      /\ \A x, g \in File : x \in reverse[g] <=> g \in graph[x]
  BY DEF ReverseGraph
<1> HIDE DEF reverse
<1>2. AreLevels(L, t, reverse)
  BY <1>1, DependentsLevels
<1> HIDE DEF L
<1>3. \A d \in Nat : /\ L[d][1] \subseteq File
                     /\ L[d + 1][1] = L[d][1] \cup UNION {reverse[g] : g \in L[d][1]}
  BY <1>1, <1>2, BreadthFirst
<1>4. L[0][1] = {t}
  BY <1>2 DEF AreLevels
<1>5. 0 \in N
  <2>1. \A x \in File : Within(graph, x)[0] = {x}
    BY WithinSteps
  <2> QED
    BY <1>4, <2>1
<1>6. ASSUME NEW d \in Nat, d \in N PROVE d + 1 \in N
  <2> SUFFICES ASSUME NEW x \in File PROVE x \in L[d + 1][1] <=> t \in Within(graph, x)[d + 1]
    OBVIOUS
  <2>1. x \in L[d + 1][1] <=> x \in L[d][1] \/ \E g \in L[d][1] : x \in reverse[g]
    BY <1>3
  <2>2. (\E g \in L[d][1] : x \in reverse[g]) <=> \E g \in graph[x] : g \in L[d][1]
    BY <1>1, <1>3
  <2>3. \A y \in File : y \in L[d][1] <=> t \in Within(graph, y)[d]
    BY <1>6
  <2>4. (\E g \in graph[x] : g \in L[d][1]) <=> \E g \in graph[x] : t \in Within(graph, g)[d]
    BY <2>3
  <2>5. t \in Within(graph, x)[d + 1]
          <=> t \in Within(graph, x)[d] \/ \E g \in graph[x] : t \in Within(graph, g)[d]
    BY FirstImport
  <2> QED
    BY <2>1, <2>2, <2>3, <2>4, <2>5
<1>7. Nat \subseteq N
  <2> HIDE DEF N
  <2> QED
    BY <1>5, <1>6, AllNumbers
<1> QED
  BY <1>7 DEF L, reverse

\* What the hook counts is how many files use the file.
LEMMA CountIsUsers ==
  ASSUME NEW graph \in [File -> SUBSET File], NEW t \in File
  PROVE  /\ Count(ReverseGraph(graph), t) = Cardinality(Users(graph, t))
         /\ Count(ReverseGraph(graph), t) \in Nat
<1> DEFINE reverse == ReverseGraph(graph)
           seen == Dependents(reverse, {t})[Depth][1]
<1>1. reverse \in [File -> SUBSET File]
  BY DEF ReverseGraph
<1>2. /\ IsFiniteSet(seen) /\ Count(reverse, t) + 1 = Cardinality(seen)
      /\ Count(reverse, t) \in Nat
  BY <1>1, CountIsSeen
<1>3. seen \subseteq File /\ t \in seen
  BY <1>1, DependentsLevels, BreadthFirst, RankAssumption
<1>4. \A x \in File : x \in seen <=> t \in Within(graph, x)[Depth]
  BY SeenReach, RankAssumption
<1>5. Users(graph, t) = seen \ {t}
  <2> HIDE DEF seen
  <2> QED
    BY <1>3, <1>4 DEF Users
<1> HIDE DEF seen, reverse
<1>6. Cardinality(seen \ {t}) = Cardinality(seen) - 1
  BY <1>2, <1>3, FS_RemoveElement
<1> QED
  BY <1>2, <1>5, <1>6 DEF reverse

-----------------------------------------------------------------------------
(* The order of the files: by count, then by name.                         *)
Ahead(count, f) == {g \in Source : count[g] > count[f] \/ (count[g] = count[f] /\ g < f)}

\* Whoever is ahead has fewer ahead.
LEMMA AheadNested ==
  ASSUME NEW count \in [Source -> Nat], NEW f \in Source, NEW g \in Ahead(count, f)
  PROVE  Cardinality(Ahead(count, g)) < Cardinality(Ahead(count, f))
<1>1. g \in Source /\ Source \subseteq Nat
  BY FileAssumption DEF Ahead
<1>2. Ahead(count, g) \subseteq Ahead(count, f)
  <2> SUFFICES ASSUME NEW h \in Ahead(count, g) PROVE h \in Ahead(count, f)
    OBVIOUS
  <2>1. h \in Source /\ (count[h] > count[g] \/ (count[h] = count[g] /\ h < g))
    BY DEF Ahead
  <2>2. count[g] > count[f] \/ (count[g] = count[f] /\ g < f)
    BY DEF Ahead
  <2>3. /\ count[h] \in Nat /\ count[g] \in Nat /\ count[f] \in Nat
        /\ h \in Nat /\ g \in Nat /\ f \in Nat
    BY <1>1, <2>1
  <2>4. count[h] > count[f] \/ (count[h] = count[f] /\ h < f)
    BY <2>1, <2>2, <2>3
  <2> QED
    BY <2>1, <2>4 DEF Ahead
<1>3. g \notin Ahead(count, g)
  BY <1>1 DEF Ahead
<1>4. IsFiniteSet(Ahead(count, f))
  BY FileAssumption, FS_Subset DEF Ahead
<1>5. /\ Cardinality(Ahead(count, g)) <= Cardinality(Ahead(count, f))
      /\ Cardinality(Ahead(count, g)) # Cardinality(Ahead(count, f))
  BY <1>2, <1>3, <1>4, FS_Subset
<1>6. Cardinality(Ahead(count, g)) \in Nat /\ Cardinality(Ahead(count, f)) \in Nat
  BY <1>2, <1>4, FS_Subset, FS_CardinalityType
<1> QED
  BY <1>5, <1>6

\* The cut is a number.
LEMMA CutNumber == Cut \in Nat
<1> DEFINE n == (Cardinality(Source) * Pct + 99) \div 100
<1>1. Cardinality(Source) \in Nat /\ Pct \in Nat
  BY FileAssumption, RankAssumption, FS_CardinalityType
<1>2. Cardinality(Source) * Pct \in Nat
  BY <1>1
<1>3. n \in Nat
  <2> DEFINE m == Cardinality(Source) * Pct
  <2>1. m \in Nat
    BY <1>2
  <2> HIDE DEF m
  <2>2. (m + 99) \div 100 \in Nat
    BY <2>1
  <2> QED
    BY <2>2 DEF m
<1> HIDE DEF n
<1>4. Cut = IF n = 0 THEN 1 ELSE n
  BY DEF Cut, n
<1> QED
  BY <1>3, <1>4

\* The first by rank, down to the floor.
Ranked(count) == {f \in Source : count[f] >= Floor /\ Cardinality(Ahead(count, f)) < Cut}

\* The first by rank are no more than the cut, and nobody behind has more.
LEMMA RankedFirst ==
  ASSUME NEW count \in [Source -> Nat]
  PROVE  /\ Cardinality(Ranked(count)) <= Cut
         /\ \A f \in Ranked(count) : \A g \in Source \ Ranked(count) : count[g] <= count[f]
<1> DEFINE hot == Ranked(count)
           rank == [f \in hot |-> Cardinality(Ahead(count, f))]
<1>1. hot \subseteq Source /\ IsFiniteSet(hot) /\ Source \subseteq Nat
  BY FileAssumption, FS_Subset DEF Ranked
<1>2. \A f \in Source : Cardinality(Ahead(count, f)) \in Nat
  BY FileAssumption, FS_Subset, FS_CardinalityType DEF Ahead
<1>3. \A f \in hot : Cardinality(Ahead(count, f)) < Cut /\ count[f] >= Floor
  BY DEF Ranked
<1>4. Cardinality(hot) <= Cut
  <2> SUFFICES ASSUME ~(Cardinality(hot) <= Cut) PROVE FALSE
    OBVIOUS
  <2> HIDE DEF hot
  <2>1. Cut \in Nat /\ Cardinality(hot) \in Nat
    BY <1>1, CutNumber, FS_CardinalityType
  <2>2. IsFiniteSet(0..(Cut - 1)) /\ Cardinality(0..(Cut - 1)) <= Cut
    <3>1. 0 \in Int /\ Cut - 1 \in Int
      BY <2>1
    <3>2. /\ IsFiniteSet(0..(Cut - 1))
          /\ Cardinality(0..(Cut - 1)) = IF 0 > Cut - 1 THEN 0 ELSE Cut - 1 - 0 + 1
      BY <3>1, FS_Interval
    <3> QED
      BY <2>1, <3>2
  <2>3. rank \in [hot -> 0..(Cut - 1)]
    BY <1>1, <1>2, <1>3, <2>1
  <2>4. Cardinality(0..(Cut - 1)) < Cardinality(hot)
    <3>1. Cardinality(0..(Cut - 1)) \in Nat
      BY <2>2, FS_CardinalityType
    <3> QED
      BY <2>1, <2>2, <3>1
  <2> HIDE DEF rank
  <2>5. PICK x, y \in hot : x # y /\ rank[x] = rank[y]
    BY <1>1, <2>2, <2>3, <2>4, FS_PigeonHole
  <2>6. Cardinality(Ahead(count, x)) = Cardinality(Ahead(count, y))
    BY <2>5 DEF rank
  <2>7. x \in Ahead(count, y) \/ y \in Ahead(count, x)
    BY <1>1, <2>5 DEF Ahead
  <2> QED
    BY <1>1, <1>2, <2>6, <2>7, AheadNested
<1>5. ASSUME NEW f \in hot, NEW g \in Source \ hot PROVE count[g] <= count[f]
  <2>0. f \in Source /\ count[f] \in Nat /\ count[g] \in Nat
    BY <1>1
  <2> SUFFICES ASSUME count[g] > count[f] PROVE g \in hot
    BY <2>0
  <2>1. g \in Ahead(count, f)
    BY DEF Ahead
  <2>2. Cardinality(Ahead(count, g)) < Cardinality(Ahead(count, f))
    BY <1>1, <2>1, AheadNested
  <2>3. Cardinality(Ahead(count, g)) < Cut
    <3>1. /\ Cardinality(Ahead(count, g)) \in Nat /\ Cardinality(Ahead(count, f)) \in Nat
          /\ Cut \in Nat /\ Cardinality(Ahead(count, f)) < Cut
      BY <1>1, <1>2, <1>3, CutNumber
    <3> QED
      BY <2>2, <3>1
  <2>4. count[g] >= Floor
    BY <1>3, <2>0, RankAssumption
  <2> QED
    BY <2>3, <2>4 DEF Ranked
<1> QED
  BY <1>4, <1>5

-----------------------------------------------------------------------------
\* No imports yet.
LEMMA TypeInit == BlastInit => BlastTypeOK
  BY FilesFinite DEF BlastInit, BlastTypeOK

\* An edit imports source files.
LEMMA TypeStep == BlastTypeOK /\ [BlastNext]_blastVars => BlastTypeOK'
<1> SUFFICES ASSUME BlastTypeOK, [BlastNext]_blastVars PROVE BlastTypeOK'
  OBVIOUS
<1> USE DEF BlastTypeOK
<1>1. ASSUME NEW f \in File, Deny(f) PROVE BlastTypeOK'
  BY <1>1 DEF Deny, Assess
<1>2. ASSUME NEW f \in File, Edit(f) PROVE BlastTypeOK'
  BY <1>2 DEF Edit
<1>3. CASE NewSession
  BY <1>3 DEF NewSession
<1>4. CASE UNCHANGED blastVars
  BY <1>4 DEF blastVars
<1> QED
  BY <1>1, <1>2, <1>3, <1>4 DEF BlastNext

(* Every import points at a source file, whatever is edited.               *)
THEOREM BlastType == BlastSpec => []BlastTypeOK
<1>1. BlastInit => BlastTypeOK
  BY TypeInit
<1>2. BlastTypeOK /\ [BlastNext]_blastVars => BlastTypeOK'
  BY TypeStep
<1> QED
  BY <1>1, <1>2, PTL DEF BlastSpec

\* The counts are of users, and the ranks of counts.
LEMMA TypeGivesHottest == BlastTypeOK => HotIsHottest
<1> SUFFICES ASSUME BlastTypeOK PROVE HotIsHottest
  OBVIOUS
<1> DEFINE reverse == ReverseGraph(imports)
           count == [f \in Source |-> Count(reverse, f)]
           users == [f \in Source |-> Cardinality(Users(imports, f))]
<1>1. imports \in [File -> SUBSET File] /\ Source \subseteq File
  BY FilesFinite DEF BlastTypeOK
<1>2. \A f \in Source : /\ Count(reverse, f) = Cardinality(Users(imports, f))
                        /\ Count(reverse, f) \in Nat
  BY <1>1, CountIsUsers
<1>3. count \in [Source -> Nat] /\ users = count
  BY <1>2
<1>4. HotSet(imports) = Ranked(count)
  BY DEF HotSet, Ranked, Ahead
<1> HIDE DEF reverse
<1>5. \A f \in Ranked(count) : Count(reverse, f) = users[f]
  BY <1>2 DEF Ranked
<1> HIDE DEF count, users
<1>6. /\ Cardinality(Ranked(count)) <= Cut
      /\ \A f \in Ranked(count) : \A g \in Source \ Ranked(count) : users[g] <= users[f]
  BY <1>3, RankedFirst
<1> QED
  BY <1>4, <1>5, <1>6 DEF HotIsHottest, reverse, users

(* A denial is about the file with the most users, in every graph.         *)
THEOREM HotAreHottest == BlastSpec => []HotIsHottest
<1>1. BlastTypeOK => HotIsHottest
  BY TypeGivesHottest
<1> QED
  BY BlastType, <1>1, PTL

=============================================================================
