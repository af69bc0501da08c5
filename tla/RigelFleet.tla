------------------------------ MODULE RigelFleet ------------------------------
(***************************************************************************)
(* The service map.  Facts go up and an index comes down: a repository     *)
(* states which contract it publishes and which it vendored, the company   *)
(* layer joins the statements of all services, and `impact` reads the copy *)
(* of the index in a repository.  The hops up are copies made by hand, at  *)
(* any time.  The way down is the scaffold, which lays the layer's index,  *)
(* or a copy by hand: `create-rigel update` is said to carry it, but       *)
(* compares with the built-in template alone and so removes it.            *)
(***************************************************************************)
EXTENDS FiniteSets, Naturals

CONSTANTS Service,
          Stack,     \* the template of each service
          Title,     \* the API title of each service, or Untitled
          Untitled, None,
          MaxEdits   \* bound on exports and vendored contracts

ASSUME StackAssumption == Stack \in [Service -> {"express", "nestjs", "nextjs", "fastapi"}]
ASSUME NoneAssumption == None \notin Service
ASSUME MaxEditsAssumption == MaxEdits \in Nat

VARIABLES
  specs,     \* specs[s]: whose contract lies in docs/generated and in the root of s
  facts,     \* facts[s]: .rigel/service.json of s
  factsDir,  \* the copies of them in the layer
  index,     \* the layer's knowledge/map/services.json
  map,       \* map[s]: the copy of the index in s
  laid,      \* laid[s]: the copy whose hash the manifest of s records
  edits,
  vendored   \* <<c, p>>: c has at some time vendored the contract of p

fleetVars == <<specs, facts, factsDir, index, map, laid, edits, vendored>>

Backend == {s \in Service : Stack[s] # "nextjs"}

\* Where a stack's export leaves the contract.
PublishedAt(s) == IF Stack[s] = "express" THEN "docs" ELSE "root"

-----------------------------------------------------------------------------
(* Facts. *)

\* Untitled, a contract is named after the repository that publishes it; one
\* that is vendored has no such name.
ApiName(p, fallback) ==
  IF Title[p] # Untitled THEN <<"title", Title[p]>> ELSE fallback

(* Mutant: the two places confused. *)
ExtractInverted(s) ==
  [provides |-> IF specs[s].root = None THEN {} ELSE {ApiName(specs[s].root, <<"unknown">>)},
   consumes |-> IF specs[s].docs = None THEN {} ELSE {ApiName(specs[s].docs, <<"service", s>>)}]

\* Whatever the stack, docs/generated is published and the root is vendored.
ExtractFacts(s) ==
  [provides |-> IF specs[s].docs = None THEN {}
                ELSE {ApiName(specs[s].docs, <<"service", s>>)},
   consumes |-> IF specs[s].root = None THEN {}
                ELSE {ApiName(specs[s].root, <<"unknown">>)}]

Providers(list, api) == {p \in DOMAIN list : api \in list[p].provides}

(* Mutant: a contract nobody publishes is everybody's. *)
ProviderOrAny(list, api) ==
  {IF Providers(list, api) = {} THEN Service ELSE Providers(list, api)}

\* providerOf is filled in the order readdir returns: of two services with one
\* title either may be last.
ProviderOf(list, api) ==
  IF Providers(list, api) = {} THEN {{}} ELSE {{p} : p \in Providers(list, api)}

\* The indexes map:build may write for these facts.
Aggregate(list) ==
  LET Apis == UNION {list[s].consumes : s \in DOMAIN list}
      Resolutions == {r \in [Apis -> SUBSET Service] :
                        \A api \in Apis : r[api] \in ProviderOf(list, api)}
      From(r, s) == (UNION {r[api] : api \in list[s].consumes}) \ {s}
  IN {[s \in DOMAIN list |->
         [consumesFrom |-> From(r, s),
          consumedBy |-> {c \in DOMAIN list : s \in From(r, c)}]] : r \in Resolutions}

-----------------------------------------------------------------------------
FleetInit ==
  /\ specs = [s \in Service |-> [docs |-> None, root |-> None]]
  /\ facts = [s \in Service |-> None] /\ factsDir = << >>
  /\ index = None /\ map = [s \in Service |-> None] /\ laid = map
  /\ edits = 0 /\ vendored = {}

\* A repository is scaffolded from the layer, with all of its knowledge/map, and
\* the manifest records what was laid.  One that comes from a built-in template,
\* or is adopted, looks here like one that is not there yet.
Scaffold(s) ==
  /\ specs[s] = [docs |-> None, root |-> None] /\ facts[s] = None
  /\ map[s] = None /\ laid[s] = None /\ index # None
  /\ map' = [map EXCEPT ![s] = index] /\ laid' = [laid EXCEPT ![s] = index]
  /\ UNCHANGED <<specs, facts, factsDir, index, edits, vendored>>

\* `openapi:export`, and the commit of what it wrote.
Export(s) ==
  /\ s \in Backend /\ edits < MaxEdits /\ edits' = edits + 1
  /\ specs' = [specs EXCEPT ![s][PublishedAt(s)] = s]
  /\ UNCHANGED <<facts, factsDir, index, map, laid, vendored>>

\* /api-sync: a frontend vendors a backend's contract.
ApiSync(c, p) ==
  /\ c \notin Backend /\ p \in Backend /\ specs[p][PublishedAt(p)] = p
  /\ edits < MaxEdits /\ edits' = edits + 1
  /\ specs' = [specs EXCEPT ![c].root = p]
  /\ vendored' = vendored \cup {<<c, p>>}
  /\ UNCHANGED <<facts, factsDir, index, map, laid>>

\* `create-rigel facts`
CmdFacts(s) ==
  /\ facts' = [facts EXCEPT ![s] = ExtractFacts(s)]
  /\ UNCHANGED <<specs, factsDir, index, map, laid, edits, vendored>>

CopyFacts(s) ==
  /\ facts[s] # None
  /\ factsDir' = [t \in DOMAIN factsDir \cup {s} |-> IF t = s THEN facts[s] ELSE factsDir[t]]
  /\ UNCHANGED <<specs, facts, index, map, laid, edits, vendored>>

\* `create-rigel map:build`, in the layer; without facts/ it stops.
CmdMapBuild ==
  /\ DOMAIN factsDir # {}
  /\ index' \in Aggregate(factsDir)
  /\ UNCHANGED <<specs, facts, factsDir, map, laid, edits, vendored>>

\* Somebody copies the layer's index into a repository.
CopyMap(s) ==
  /\ index # None
  /\ map' = [map EXCEPT ![s] = index]
  /\ UNCHANGED <<specs, facts, factsDir, index, laid, edits, vendored>>

\* `create-rigel update`: no template ships knowledge/map, so an index that is
\* what the manifest records is removed, and one that was replaced is recorded,
\* if the update has anything else to do.
CmdUpdate(s, busy) ==
  LET removed == laid[s] # None /\ map[s] = laid[s]
  IN /\ removed \/ busy
     /\ map' = [map EXCEPT ![s] = IF removed THEN None ELSE @]
     /\ laid' = [laid EXCEPT ![s] = IF @ = None THEN None ELSE map'[s]]
     /\ UNCHANGED <<specs, facts, factsDir, index, edits, vendored>>

\* Whom the index in s lists as consumers of s: with no map, or no entry for
\* s in it, `map` and `impact` say so and list nobody.
ServiceImpact(s) ==
  IF map[s] = None \/ s \notin DOMAIN map[s] THEN {} ELSE map[s][s].consumedBy

\* `create-rigel impact` warns of them when a route or the contract changed.
ImpactWarnsOf(s, touchesContract) == IF touchesContract THEN ServiceImpact(s) ELSE {}

FleetNext ==
  \/ \E s \in Service :
       \/ Scaffold(s) \/ Export(s) \/ CmdFacts(s) \/ CopyFacts(s) \/ CopyMap(s)
       \/ \E busy \in BOOLEAN : CmdUpdate(s, busy)
  \/ \E c, p \in Service : ApiSync(c, p)
  \/ CmdMapBuild

FleetSpec == FleetInit /\ [][FleetNext]_fleetVars

-----------------------------------------------------------------------------
Api == {<<"title", Title[p]>> : p \in Service} \cup {<<"service", s>> : s \in Service}
       \cup {<<"unknown">>}

IsListOf(R, list) == DOMAIN list \subseteq Service /\ list \in [DOMAIN list -> R]

FleetTypeOK ==
  LET Fact == [provides : SUBSET Api, consumes : SUBSET Api]
      Slice == [consumesFrom : SUBSET Service, consumedBy : SUBSET Service]
  IN /\ specs \in [Service -> [docs : Service \cup {None}, root : Service \cup {None}]]
     /\ facts \in [Service -> Fact \cup {None}] /\ IsListOf(Fact, factsDir)
     /\ index = None \/ IsListOf(Slice, index)
     /\ DOMAIN map = Service /\ \A s \in Service : map[s] = None \/ IsListOf(Slice, map[s])
     /\ DOMAIN laid = Service /\ \A s \in Service : laid[s] = None \/ IsListOf(Slice, laid[s])
     /\ vendored \subseteq Service \X Service /\ edits \in 0..MaxEdits

\* No two services publish under one name.
TitlesDistinct ==
  \A p, q \in Service : p # q => Title[p] # Title[q] \/ Title[p] = Untitled

(* However stale the hops are and in whatever order they were made, no     *)
(* copy of the map names a consumer that never vendored the provider's     *)
(* contract: provided the services' API titles differ.                     *)
NoPhantomConsumer ==
  TitlesDistinct =>
    \A s, p, c \in Service :
      map[s] # None /\ p \in DOMAIN map[s] /\ c \in map[s][p].consumedBy => <<c, p>> \in vendored

\* Nothing is left to send up: every hop to the index repeats what is there.
Settled ==
  /\ \A s \in Service : facts[s] # None /\ facts[s] = ExtractFacts(s)
  /\ DOMAIN factsDir = Service /\ \A s \in Service : factsDir[s] = facts[s]
  /\ index # None /\ index \in Aggregate(factsDir)

(* Who breaks if I change this?  Once facts, layer and index have settled, *)
(* a provider that holds this index (a scaffold laid it, or somebody       *)
(* copied it, and no update has removed it) is warned by impact of every   *)
(* frontend that vendored its contract, if it publishes under              *)
(* docs/generated; and of none, if its stack exports into the root, where  *)
(* extractFacts takes the contract for one that was vendored.              *)
ImpactFindsConsumers ==
  \A p, c \in Service :
    Settled /\ TitlesDistinct /\ Title[p] # Untitled /\ map[p] = index
    /\ p \in Backend /\ specs[p][PublishedAt(p)] = p /\ c \notin Backend /\ specs[c].root = p
    => (c \in ImpactWarnsOf(p, TRUE) <=> PublishedAt(p) = "docs")
=============================================================================
