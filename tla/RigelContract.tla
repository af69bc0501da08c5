---------------------------- MODULE RigelContract ----------------------------
(***************************************************************************)
(* The contract gate.  A branch changes the endpoints of a service; the    *)
(* gate exports the contract anew, compares it with main's by oasdiff, and *)
(* lets a break through only under an exemption that has not expired and   *)
(* against no declaration to the contrary.  Developers run it in their     *)
(* worktree, which it overwrites; CI runs it on a checkout of the branch,  *)
(* and what CI passed is merged.                                           *)
(***************************************************************************)
EXTENDS FiniteSets, Naturals

CONSTANTS Op,    \* endpoints
          NoSpec

VARIABLES
  code,        \* the endpoints the branch implements
  worktree,    \* SPEC as it lies in the developer's directory
  head,        \* SPEC as the branch committed it
  main,        \* origin/main:SPEC
  exemptions,  \* .oasdiff-ignore: entries about an endpoint, in the state they are in
  declared,    \* `breaking:` of the active spec; "none" without one
  local,       \* the developer's last gate passed, and nothing was edited since
  merged       \* at the last merge: what the branch implemented, broke and was permitted

contractVars == <<code, worktree, head, main, exemptions, declared, local, merged>>

\* Annotated and unexpired; expired or short of an annotation; or a line that
\* starts with # and still names an operation: oasdiff knows no comments.
Entry == [op : Op, is : {"good", "rotten", "comment"}]

Declarations == {"true", "false", "none"}

-----------------------------------------------------------------------------
(* One run of the gate on a tree: its spec, and what an export makes of it. *)

ExemptionsRotten(entries) == \E e \in entries : e.is = "rotten"

\* oasdiff: the endpoints of the base that are gone, less those a line names.
Broken(base, exported) == IF base = NoSpec THEN {} ELSE base \ exported

Unsuppressed(base, exported, entries) ==
  Broken(base, exported) \ {e.op : e \in entries}

Authorized(base, exported, entries) ==
  /\ Broken(base, exported) # {} /\ Unsuppressed(base, exported, entries) = {}
  /\ ~ExemptionsRotten(entries)

(* Mutant: an exemption also answers for the declaration. *)
DeclarationExempted(base, exported, entries, claim) ==
  claim = "false" /\ Unsuppressed(base, exported, entries) # {}

\* The spec said nothing would break, and something did, exempted or not.
Undeclared(base, exported, entries, claim) ==
  claim = "false" /\ Broken(base, exported) # {}

FailsOnBreak(base, exported, entries) ==
  \/ Unsuppressed(base, exported, entries) # {}
  \/ Broken(base, exported) # {} /\ ~Authorized(base, exported, entries)

(* Mutant: what is exported is what is checked. *)
StaleNever(found, exported) == FALSE

Stale(found, exported) == found # exported

\* Nothing to publish, nothing to check.  Otherwise no failed export, no stale
\* spec, no bad entry, no break; and without oasdiff, a workflow that installs it.
\* It is not asked, and cannot fail, where there is no base to compare with.
GatePasses(found, exports, exported, base, entries, claim, oasdiff, ciEnforces) ==
  found # NoSpec =>
    LET checked == IF exports THEN exported ELSE found
    IN /\ exports /\ ~Stale(found, exported)
       /\ \A e \in entries : e.is = "good"
       /\ oasdiff = "works" => /\ ~FailsOnBreak(base, checked, entries)
                               /\ ~Undeclared(base, checked, entries, claim)
       /\ oasdiff = "fails" => base = NoSpec
       /\ oasdiff = "absent" => ciEnforces

\* What the port complains of, in its order.
ComplaintsPy(found, exports, exported, base, entries, claim, oasdiff, ciEnforces) ==
  LET checked == IF exports THEN exported ELSE found
      breaking == oasdiff = "works" /\ Broken(base, checked) # {}
      suppressed == breaking /\ Unsuppressed(base, checked, entries) = {}
      authorized == suppressed /\ ~ExemptionsRotten(entries)
      Complain(message, when) == IF when THEN {message} ELSE {}
  IN UNION {Complain("export failed", ~exports),
            Complain("stale", exports /\ exported # found),
            Complain("live comment", \E e \in entries : e.is = "comment"),
            Complain("rotten entry", ExemptionsRotten(entries)),
            Complain("nobody checks", oasdiff = "absent" /\ ~ciEnforces),
            Complain("tool failure", oasdiff = "fails" /\ base # NoSpec),
            Complain("breaking", breaking /\ ~suppressed),
            Complain("suppressed", suppressed /\ ~authorized),
            Complain("undeclared", breaking /\ claim = "false"),
            Complain("not authorized yet", breaking /\ claim = "true" /\ ~authorized)}

GatePassesPy(found, exports, exported, base, entries, claim, oasdiff, ciEnforces) ==
  found # NoSpec =>
    ComplaintsPy(found, exports, exported, base, entries, claim, oasdiff, ciEnforces) = {}

-----------------------------------------------------------------------------
ContractInit ==
  /\ code = Op /\ worktree = Op /\ head = Op /\ main = Op
  /\ exemptions = {} /\ declared = "none" /\ local = FALSE
  /\ merged = [code |-> Op, broke |-> {}, permitted |-> {}, declared |-> "none"]

EditCode(ops) ==
  /\ ops # {} /\ code' = ops /\ local' = FALSE
  /\ UNCHANGED <<worktree, head, main, exemptions, declared, merged>>

WithdrawSpec ==
  /\ worktree' = NoSpec /\ local' = FALSE
  /\ UNCHANGED <<code, head, main, exemptions, declared, merged>>

OpenapiExport ==
  /\ worktree' = code /\ local' = FALSE
  /\ UNCHANGED <<code, head, main, exemptions, declared, merged>>

\* A line is written, rewritten or removed; of an entry there is one at most.
EditExemptions(op, entries) ==
  /\ exemptions' = {e \in exemptions : e.op # op} \cup entries /\ local' = FALSE
  /\ UNCHANGED <<code, worktree, head, main, declared, merged>>

\* A day passes, and with it an exemption.
Expire(e) ==
  /\ e \in exemptions /\ e.is = "good"
  /\ exemptions' = (exemptions \ {e}) \cup {[e EXCEPT !.is = "rotten"]}
  /\ UNCHANGED <<code, worktree, head, main, declared, local, merged>>

Declare(claim) ==
  /\ declared' = claim /\ local' = FALSE
  /\ UNCHANGED <<code, worktree, head, main, exemptions, merged>>

Commit ==
  /\ head' = worktree
  /\ UNCHANGED <<code, worktree, main, exemptions, declared, local, merged>>

\* The export writes the file the gate then finds changed: the gate that fails
\* for a stale contract leaves a current one, not committed.
LocalGate(exports, oasdiff, ciEnforces) ==
  /\ local' \in
       {GatePasses(worktree, exports, code, main, exemptions, declared, oasdiff, ciEnforces),
        GatePassesPy(worktree, exports, code, main, exemptions, declared, oasdiff, ciEnforces)}
  /\ worktree' = IF worktree # NoSpec /\ exports THEN code ELSE worktree
  /\ UNCHANGED <<code, head, main, exemptions, declared, merged>>

\* The workflow installs oasdiff; the team merges what CI passed.
MergeAfterCI ==
  /\ \/ GatePasses(head, TRUE, code, main, exemptions, declared, "works", TRUE)
     \/ GatePassesPy(head, TRUE, code, main, exemptions, declared, "works", TRUE)
  /\ main' = head
  /\ merged' = [code |-> code, declared |-> declared,
                broke |-> IF head = NoSpec THEN {} ELSE Broken(main, head),
                permitted |-> {e.op : e \in {d \in exemptions : d.is = "good"}}]
  /\ UNCHANGED <<code, worktree, head, exemptions, declared, local>>

OneLineEach == {entries \in SUBSET Entry : \A d, e \in entries : d.op = e.op => d = e}

ContractNext ==
  \/ \E ops \in SUBSET Op : EditCode(ops)
  \/ WithdrawSpec \/ OpenapiExport \/ Commit \/ MergeAfterCI
  \/ \E op \in Op : EditExemptions(op, {})
  \/ \E e \in Entry : EditExemptions(e.op, {e}) \/ Expire(e)
  \/ \E claim \in Declarations : Declare(claim)
  \/ \E exports, ciEnforces \in BOOLEAN, oasdiff \in {"works", "fails", "absent"} :
       LocalGate(exports, oasdiff, ciEnforces)

ContractSpec == ContractInit /\ [][ContractNext]_contractVars

-----------------------------------------------------------------------------
Contracts == (SUBSET Op) \cup {NoSpec}

ContractTypeOK ==
  /\ code \in SUBSET Op /\ {worktree, head, main} \subseteq Contracts
  /\ exemptions \in OneLineEach /\ declared \in Declarations
  /\ local \in BOOLEAN
  /\ merged \in [code : SUBSET Op, declared : Declarations, broke : SUBSET Op,
                permitted : SUBSET Op]

(* Consumers are broken by permission.  However the branch got there, an   *)
(* endpoint that leaves main's contract was exempted by an entry that had  *)
(* not expired, and was not declared safe: unless main had no contract, or *)
(* lost it with the merge, when the gate checks nothing.                   *)
BreaksByPermission ==
  merged.broke \subseteq merged.permitted /\ (merged.broke # {} => merged.declared # "false")

(* The contract on main, which consumers vendor and the service map reads, *)
(* is the one the merged code implements.                                  *)
MainIsCurrent == main # NoSpec => main = merged.code
=============================================================================
