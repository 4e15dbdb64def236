---------------------------- MODULE RecordTables ----------------------------
(***************************************************************************)
(* The tenant records that refer to one another, and what a repository     *)
(* call checks before it writes: that what a record refers to exists, that *)
(* nothing depends on what is deleted, that a status moves forward.  Both  *)
(* adapters check the same; they differ in how their calls interleave.     *)
(*                                                                         *)
(* A record is reduced to the one reference its kind has and to the stage  *)
(* of its life: a status, or the version of a knowledge item or workflow.  *)
(***************************************************************************)
EXTENDS Integers

CONSTANTS
    Records,      \* identifiers: drawn at random, never used twice
    KindOf,       \* the entity type of each
    NoRecord,     \* an empty reference, and a row that is not there
    LastVersion   \* bound on versions

Kinds == {"Customer", "Contract", "Transaction", "Signal", "ValueOpportunity",
          "ValueCaptured", "Action", "Document", "KnowledgeItem", "Workflow",
          "WorkflowRun"}


\* What a record of a kind may refer to.
Targets(k) ==
    CASE k \in {"Contract", "Transaction", "Document"} -> {"Customer"}
      [] k = "ValueOpportunity" -> {"Contract", "Customer", "Signal", "Transaction"}
      [] k = "ValueCaptured" -> {"ValueOpportunity"}
      [] k = "KnowledgeItem" -> {"Document"}
      [] k = "WorkflowRun" -> {"Workflow"}
      [] OTHER -> {}

MustRefer == {"Contract", "Transaction", "WorkflowRun"}

\* The tables searched for dependents before a record of a kind is deleted.
DependentKinds(k) ==
    CASE k = "Customer" -> {"Contract", "Transaction", "Document", "ValueOpportunity"}
      [] k \in {"Contract", "Transaction", "Signal"} -> {"ValueOpportunity"}
      [] k = "Document" -> {"KnowledgeItem"}
      [] k = "ValueOpportunity" -> {"ValueCaptured"}
      [] k = "Workflow" -> {"WorkflowRun"}
      [] OTHER -> {}

\* The moves of each lifecycle.
OpportunityMoves ==
    {<<"Identified", "Validated">>, <<"Validated", "Approved">>,
     <<"Approved", "Executing">>, <<"Executing", "Captured">>}
ActionMoves ==
    {<<"Ready", "Approved">>, <<"Approved", "In Progress">>,
     <<"In Progress", "Completed">>, <<"Completed", "Measured">>}
DocumentMoves ==
    {<<"uploading", "processing">>, <<"processing", "indexed">>,
     <<"uploading", "failed">>, <<"processing", "failed">>, <<"failed", "processing">>}
        \union {"uploading", "processing", "indexed", "failed"} \X {"archived"}
RunEnds == {"completed", "failed", "cancelled"}
RunMoves ==
    {<<"pending", "running">>, <<"pending", "failed">>, <<"pending", "cancelled">>,
     <<"running", "waiting_approval">>, <<"waiting_approval", "running">>}
        \union {"running", "waiting_approval"} \X RunEnds

Moves(k) ==
    CASE k = "ValueOpportunity" -> OpportunityMoves
      [] k = "Action" -> ActionMoves
      [] k = "Document" -> DocumentMoves
      [] k = "WorkflowRun" -> RunMoves
      [] k \in {"KnowledgeItem", "Workflow"} ->
            {<<n, n + 1>> : n \in 1 .. LastVersion - 1}
      [] OTHER -> {}

Stages(k) ==
    CASE k = "ValueOpportunity" ->
            {"Identified", "Validated", "Approved", "Executing", "Captured"}
      [] k = "Action" -> {"Ready", "Approved", "In Progress", "Completed", "Measured"}
      [] k = "Document" -> {"uploading", "processing", "indexed", "failed", "archived"}
      [] k = "WorkflowRun" -> {"pending", "running", "waiting_approval"} \union RunEnds
      [] k \in {"KnowledgeItem", "Workflow"} -> 1 .. LastVersion
      [] OTHER -> {"kept"}

\* The stages the services create records in (the repositories do not ask).
Starts(k) ==
    CASE k = "ValueOpportunity" -> {"Identified"}
      [] k = "Action" -> {"Ready"}
      [] k = "Document" -> {"processing"}
      [] k = "WorkflowRun" -> {"running", "waiting_approval", "completed"}
      [] k \in {"KnowledgeItem", "Workflow"} -> {1}
      [] OTHER -> {"kept"}

\* The stages after which a record never changes again.
Terminal(k) ==
    CASE k = "ValueOpportunity" -> {"Captured"}
      [] k = "Action" -> {"Measured"}
      [] k = "Document" -> {"archived"}
      [] k = "WorkflowRun" -> RunEnds
      [] OTHER -> {}

Row(r) == [ref : Records \union {NoRecord}, stage : Stages(KindOf[r])]

ASSUME KindOfAssumption == KindOf \in [Records -> Kinds]
ASSUME LastVersionAssumption == LastVersion \in Nat \ {0}
ASSUME NoRecordAssumption ==
    NoRecord \notin Records /\ \A r \in Records : NoRecord \notin Row(r)

-----------------------------------------------------------------------------
(* The checks of a call, on the rows it sees.                              *)

Stands(rows, r) == rows[r] # NoRecord

RefStands(rows, r, t) ==
    IF t = NoRecord
    THEN KindOf[r] \notin MustRefer
    ELSE t \in Records /\ Stands(rows, t) /\ KindOf[t] \in Targets(KindOf[r])

Dependents(rows, r) ==
    {d \in Records : /\ KindOf[d] \in DependentKinds(KindOf[r])
                     /\ Stands(rows, d)
                     /\ rows[d].ref = r}

MayCreate(rows, r, row) ==
    row \in Row(r) /\ row.stage \in Starts(KindOf[r]) /\ RefStands(rows, r, row.ref)

\* A reference that the update does not give is not looked at; a run keeps its
\* workflow; an update of a record in a terminal stage is refused as a whole.
MayUpdate(rows, r, row) ==
    /\ Stands(rows, r)
    /\ row \in Row(r)
    /\ rows[r].stage \notin Terminal(KindOf[r])
    /\ \/ row.stage = rows[r].stage
       \/ <<rows[r].stage, row.stage>> \in Moves(KindOf[r])
    /\ \/ row.ref = rows[r].ref
       \/ KindOf[r] # "WorkflowRun" /\ RefStands(rows, r, row.ref)

MayDelete(rows, r) == Stands(rows, r) /\ Dependents(rows, r) = {}

\* Every reference is to a record that is there, of a kind it may be to.
Consistent(rows) ==
    \A r \in Records : Stands(rows, r) => RefStands(rows, r, rows[r].ref)

Empty == [r \in Records |-> NoRecord]

=============================================================================
