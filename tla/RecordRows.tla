------------------------------ MODULE RecordRows ------------------------------
(* What both adapters keep.                                                  *)
EXTENDS RecordTables, FiniteSets

CONSTANT Transactions

ASSUME TransactionsAssumption == IsFiniteSet(Transactions)

VARIABLES
    rows,      \* the stored records
    unused,    \* the identifiers not drawn yet
    outcome    \* how the last transaction to end has ended

RowsInit == rows = Empty /\ unused = Records /\ outcome = "none"

=============================================================================
