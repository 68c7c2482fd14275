--------------------------- MODULE ProposalLedger ---------------------------
(***************************************************************************)
(* What the bot promises of its durable state (state.json) about every     *)
(* proposal it has ever had, with agents, reviews, retries and crashes     *)
(* left out.  A proposal is identified by its random request id.           *)
(*                                                                         *)
(*   ledger[r]  the saved status of the proposal; "absent" until its scan  *)
(*              has been saved                                             *)
(*   filed[r]   how many GitHub issues carry the proposal's marker         *)
(*                                                                         *)
(* An issue is filed only for a proposal whose intent ("posting") is       *)
(* already durable, at most once, and a proposal that was filed can only   *)
(* be recorded as submitted.  Everything else the bot decides is final     *)
(* once it is saved.                                                       *)
(***************************************************************************)
EXTENDS Naturals

CONSTANT Rids

VARIABLES ledger, filed

vars == <<ledger, filed>>

Final == {"submitted", "duplicate", "uncertain", "invalid", "dry_run", "stale"}

Status == {"absent", "pending", "posting"} \union Final

Init ==
  /\ ledger = [r \in Rids |-> "absent"]
  /\ filed  = [r \in Rids |-> 0]

\* GitHub creates the issue of a proposal whose intent is on disk.
File(r) ==
  /\ ledger[r] = "posting"
  /\ filed[r] = 0
  /\ filed' = [filed EXCEPT ![r] = 1]
  /\ UNCHANGED ledger

\* What one save of the state file may make of the status of proposal r.
MayBecome(r, new) ==
  \/ new = ledger[r]
  \/ ledger[r] \in {"absent", "pending"} /\ new \in Status \ {"absent", "submitted"}
  \/ ledger[r] = "posting" /\ filed[r] = 0 /\ new \in Status \ {"absent", "submitted"}
  \/ ledger[r] = "posting" /\ filed[r] = 1 /\ new = "submitted"

\* One save replaces the whole file, so it may move several proposals.
Record ==
  /\ ledger' \in [Rids -> Status]
  /\ \A r \in Rids : MayBecome(r, ledger'[r])
  /\ UNCHANGED filed

Next == Record \/ \E r \in Rids : File(r)

Spec == Init /\ [][Next]_vars

=============================================================================
