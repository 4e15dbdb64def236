---------------------------- MODULE MCRecordStore ----------------------------
(* A customer, a document of it, knowledge drawn from the document.          *)
EXTENDS RecordStore, TLC

MCKindOf == "cus" :> "Customer" @@ "doc" :> "Document" @@ "item" :> "KnowledgeItem"
MCRecords == {"cus", "doc", "item"}
Symmetry == Permutations(Transactions)

=============================================================================
