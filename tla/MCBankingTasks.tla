--------------------------- MODULE MCBankingTasks ---------------------------
(* Cases and tasks on small instances. *)
EXTENDS BankingTasks, MCBankingCase

CONSTANTS t1, t2

TaskSymmetry == UserSymmetry \union Permutations({t1, t2})

\* A task is asked for at any revision of the plain case, and then followed while
\* the case is at its first two: a task reads neither the candidate nor the
\* timeline of its case, and a case takes no notice of its tasks
\* (BankingProofs.tla: TasksKeepCases).
TasksEarly ==
    \A t \in Tasks : task[t] # NoTask =>
        task[t].case \notin PreviewCases /\ bcase[task[t].case].rev <= 2
=============================================================================
