---------------------------- MODULE BankingTasks ----------------------------
(***************************************************************************)
(* Departmental work tasks asked for in the course of a banking case: of a *)
(* named colleague, or of a department's queue, where the first claim      *)
(* wins.  Tasks read the case and the memberships and never change them.   *)
(*                                                                         *)
(* A task's revision counts its transitions, so a submission is stale      *)
(* exactly when the status it starts from is: the status stands for both.  *)
(***************************************************************************)
EXTENDS BankingCase

CONSTANTS
    Tasks,
    MaxCaseTasks,   \* tasks a case may have (MAX_CASE_TASKS)
    NoTask

ASSUME TasksAssumption == MaxCaseTasks \in Nat

Statuses == {"requested", "accepted", "responded", "declined"}
TaskRecords ==
    [case: Cases, by: Users, to: Users \union {NoUser}, dept: Departments,
     team: BOOLEAN, status: Statuses]

ASSUME NoTaskAssumption == NoTask \notin TaskRecords

VARIABLE task   \* the task rows

taskVars == <<vars, task>>

TaskInit == Init /\ task = [t \in Tasks |-> NoTask]

TasksOf(c) == {t \in Tasks : task[t] # NoTask /\ task[t].case = c}

\* The code counts every task of the case, whatever its status.
RoomForTask(c) == Cardinality(TasksOf(c)) < MaxCaseTasks

-----------------------------------------------------------------------------

Add(u, c, v, d, team) ==
    \E t \in Tasks :
        /\ task[t] = NoTask
        /\ task' = [task EXCEPT ![t] =
            [case |-> c, by |-> u, to |-> v, dept |-> d, team |-> team,
             status |-> "requested"]]

\* Mutant: a request made from a case as it was earlier.
MayRequestStale(u, c) ==
    /\ SubmitsAnyRevision(u, c)
    /\ CanRead(u, c)
    /\ ~AwaitsReview(c)
    /\ RoomForTask(c)

MayRequest(u, c) ==
    /\ Submits(u, c)
    /\ CanRead(u, c)
    /\ ~AwaitsReview(c)
    /\ RoomForTask(c)

RequestNamed(u) ==
    \E c \in Cases, v \in Users \ {u} :
        /\ MayRequest(u, c)
        /\ role[v] \in Departments \ {bcase[c].dept}
        /\ Add(u, c, v, role[v], FALSE)

\* Somebody of the department must be there to claim it.
RequestTeam(u) ==
    \E c \in Cases :
        /\ MayRequest(u, c)
        /\ \E d \in Departments \ {bcase[c].dept} :
            /\ \E v \in Users : role[v] = d
            /\ Add(u, c, NoUser, d, TRUE)

\* What transition demands of any actor: current membership in the department.
Serves(u, t) == task[t] # NoTask /\ role[u] = task[t].dept

\* Mutant: a task already claimed can be claimed from the queue.
ClaimAgain(u) ==
    \E t \in Tasks :
        /\ Serves(u, t)
        /\ task[t].team
        /\ task[t].status \in {"requested", "accepted"}
        /\ task' = [task EXCEPT ![t].to = u, ![t].status = "accepted"]

\* claimUnassignedBankingTask: the first claim wins.
Claim(u) ==
    \E t \in Tasks :
        /\ Serves(u, t)
        /\ task[t].team /\ task[t].to = NoUser
        /\ task[t].status = "requested"
        /\ task' = [task EXCEPT ![t].to = u, ![t].status = "accepted"]

\* The named recipient's transitions.
Move(u, from, to) ==
    \E t \in Tasks :
        /\ Serves(u, t)
        /\ task[t].to = u
        /\ task[t].status = from
        /\ to = "accepted" => ~task[t].team
        /\ task' = [task EXCEPT ![t].status = to]

AcceptTask(u) == Move(u, "requested", "accepted")
RespondTask(u) == Move(u, "accepted", "responded")
DeclineTask(u) == Move(u, "requested", "declined")

-----------------------------------------------------------------------------

TaskAct(u) ==
    \/ RequestNamed(u) \/ RequestTeam(u) \/ Claim(u)
    \/ AcceptTask(u) \/ RespondTask(u) \/ DeclineTask(u)

TaskNext ==
    \/ Next /\ UNCHANGED task
    \/ \E u \in Users : TaskAct(u) /\ UNCHANGED vars

TaskSpec == TaskInit /\ [][TaskNext]_taskVars

-----------------------------------------------------------------------------

TaskTypeOK == task \in [Tasks -> TaskRecords \union {NoTask}]

\* A task that has somebody to answer it keeps that somebody: the first claim
\* wins, and of two members claiming at once only one gets the task.
FirstClaimWins ==
    [][\A t \in Tasks : task[t] # NoTask =>
        /\ task[t].to # NoUser => task'[t].to = task[t].to
        /\ task[t].status \in {"responded", "declined"} => task'[t] = task[t]]_taskVars

\* A task is only asked for by someone who has the current case before them,
\* and no new task appears beside a plan that awaits its review.
RequestsAreCurrent ==
    [][\A t \in Tasks : task[t] = NoTask /\ task'[t] # NoTask =>
        LET c == task'[t].case  u == task'[t].by IN
        form[u].case = c /\ form[u].seen = bcase[c] /\ ~AwaitsReview(c)]_taskVars
=============================================================================
