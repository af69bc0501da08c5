-------------------------- MODULE OwnershipLedger --------------------------
(***************************************************************************)
(* What provenance promises about a repository, without hashes, versions   *)
(* or plans: ownership is authorship.  A tool may own only paths it placed *)
(* and that are still there when it settles the record; it deletes only    *)
(* what it owns; and what it has recorded as thrown away by the user it    *)
(* never puts back.  The owner of the repository may do anything to the    *)
(* files, and nothing to the record.                                       *)
(***************************************************************************)
CONSTANTS Path

VARIABLES present,  \* paths with a file
          writer,   \* who last changed each path
          placed,   \* paths the tool has ever placed, or would have placed as they are
          owned,    \* paths the record claims
          gone      \* paths the record says the user threw away

ledgerVars == <<present, writer, placed, owned, gone>>

ChangedBy(who, touched) ==
  writer' = [p \in Path |-> IF p \in touched THEN who ELSE writer[p]]

LedgerInit ==
  /\ present \subseteq Path
  /\ placed = {} /\ owned = {} /\ gone = {}

\* Whatever the owner touches, the record does not move.
UserActs(touched) ==
  /\ present' \in SUBSET Path
  /\ present' \ touched = present \ touched
  /\ ChangedBy("user", touched)
  /\ UNCHANGED <<placed, owned, gone>>

\* First contact, a scaffold or an adoption: some files are written, some are
\* found as they would have been written, and of these some are claimed.
Contact(written, same, claimed) ==
  /\ owned = {} /\ placed = {} /\ gone = {}
  /\ same \subseteq present /\ claimed \subseteq written \cup same
  /\ present' = present \cup written
  /\ placed' = written \cup same /\ owned' = claimed
  /\ ChangedBy("rigel", written)
  /\ UNCHANGED gone

Put(p) ==
  /\ p \notin gone
  /\ present' = present \cup {p} /\ placed' = placed \cup {p}
  /\ ChangedBy("rigel", {p})
  /\ UNCHANGED <<owned, gone>>

Delete(p) ==
  /\ p \in owned
  /\ present' = present \ {p}
  /\ ChangedBy("rigel", {p})
  /\ UNCHANGED <<placed, owned, gone>>

\* The record is settled: claims shrink to what is there, deletions only grow.
Settle(claimed, missing) ==
  /\ claimed \subseteq placed \cap present
  /\ owned' = claimed /\ gone' = gone \cup missing
  /\ UNCHANGED <<present, writer, placed>>

LedgerNext ==
  \/ \E touched \in SUBSET Path : UserActs(touched)
  \/ \E written, same, claimed \in SUBSET Path : Contact(written, same, claimed)
  \/ \E p \in Path : Put(p) \/ Delete(p)
  \/ \E claimed, missing \in SUBSET Path : Settle(claimed, missing)

LedgerSpec == LedgerInit /\ [][LedgerNext]_ledgerVars
=============================================================================
