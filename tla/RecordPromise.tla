---------------------------- MODULE RecordPromise ----------------------------
(***************************************************************************)
(* What either adapter promises of the records (database/unitOfWork.ts):   *)
(* a transaction takes them from one consistent state to another in one    *)
(* step, takes no life backwards, and changes nothing when it fails.       *)
(***************************************************************************)
EXTENDS RecordTables

VARIABLES
    committed,   \* the rows as the last committed transaction left them
    outcome      \* how the last transaction to end has ended

vars == <<committed, outcome>>

\* How far a record has come.  Stages a record can alternate between, and the
\* ends it can come to, are equally far.
OpportunityRank(s) ==
    CASE s = "Identified" -> 1 [] s = "Validated" -> 2 [] s = "Approved" -> 3
      [] s = "Executing" -> 4 [] OTHER -> 5
ActionRank(s) ==
    CASE s = "Ready" -> 1 [] s = "Approved" -> 2 [] s = "In Progress" -> 3
      [] s = "Completed" -> 4 [] OTHER -> 5
DocumentRank(s) ==
    CASE s = "uploading" -> 1 [] s \in {"processing", "failed"} -> 2
      [] s = "indexed" -> 3 [] OTHER -> 4
RunRank(s) ==
    CASE s = "pending" -> 1 [] s \in {"running", "waiting_approval"} -> 2 [] OTHER -> 3

Rank(k, s) ==
    CASE k = "ValueOpportunity" -> OpportunityRank(s)
      [] k = "Action" -> ActionRank(s)
      [] k = "Document" -> DocumentRank(s)
      [] k = "WorkflowRun" -> RunRank(s)
      [] k \in {"KnowledgeItem", "Workflow"} -> s
      [] OTHER -> 0

Forward(r, before, after) ==
    /\ Rank(KindOf[r], before.stage) <= Rank(KindOf[r], after.stage)
    /\ before.stage \in Terminal(KindOf[r]) => after = before
    /\ KindOf[r] = "WorkflowRun" => after.ref = before.ref

Init == committed = Empty /\ outcome = "none"

Commit ==
    /\ Consistent(committed')
    /\ \A r \in Records : Stands(committed, r) /\ Stands(committed', r) =>
          Forward(r, committed[r], committed'[r])
    /\ outcome' = "committed"

Fail == outcome' = "failed" /\ UNCHANGED committed

Spec == Init /\ [][Commit \/ Fail]_vars

=============================================================================
