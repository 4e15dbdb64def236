-------------------------- MODULE MCValueLifecycle --------------------------
(* ValueLifecycle on small instances. *)
EXTENDS ValueLifecycle, TLC

CONSTANTS o1, a1, a2, r1, w1, p1, p2, v1, v2, start, check, report

\* One node as a task behind the trigger, and as an approval that comes first.
Plain == <<[id |-> start, type |-> "trigger"], [id |-> check, type |-> "task"]>>
Approving == <<[id |-> check, type |-> "approval"], [id |-> start, type |-> "trigger"],
               [id |-> report, type |-> "task"]>>

DefinitionsUsed == {Plain, Approving}

LifecycleSymmetry ==
    Permutations({a1, a2}) \union Permutations({p1, p2}) \union Permutations({v1, v2})

\* Prunes evidence beside plain actions, and runs outside the lifecycle beside
\* any action: with these they share the workflow alone.
Focus ==
    /\ LinkedTo(NoOpp) # {} => prov = [p \in ProvIds |-> NoProv]
    /\ (\E r \in Runs \ Actions : run[r] # NoRun) => \A a \in Actions : action[a] = NoAction

\* Prunes edits of a workflow that no run is in, and time that nothing
\* expires by.
Timely ==
    /\ wf' # wf => \/ \E w \in Workflows : wf[w] = NoWorkflow
                  \/ \E r \in Runs : Going(r)
    /\ now' # now => \E s \in Subjects : CertState(s) = "certified" /\ cert[s].until <= now'
=============================================================================
