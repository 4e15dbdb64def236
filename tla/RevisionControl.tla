--------------------------- MODULE RevisionControl ---------------------------
(***************************************************************************)
(* What controlled knowledge promises its readers: an item shows one       *)
(* revision; a new revision of published knowledge is worked on beside it  *)
(* and takes its place only by being validated and then published; only    *)
(* the latest revision moves, and a published or rejected one stays so.    *)
(* No log, no clock, no concurrent request appears here.                   *)
(***************************************************************************)
EXTENDS Naturals

CONSTANTS
    Items,
    MaxRevisions,   \* bound on the revisions of an item
    NoItem,         \* not created yet
    Removed

VARIABLE item

Init ==
    item \in [Items -> {NoItem} \union
        \* "legacy": written before revisions were recorded
        {[shown |-> 1, latest |-> 1, published |-> p,
          states |-> [n \in 1..MaxRevisions |-> IF n = 1 THEN "legacy" ELSE "none"]]
         : p \in BOOLEAN}]

Present(i) == item[i] \notin {NoItem, Removed}
LatestState(i) == item[i].states[item[i].latest]

\* The item shows one revision, while its latest one is in the given state.
Becomes(i, shown, latest, published, state) ==
    item' = [item EXCEPT ![i] =
        [shown |-> shown, latest |-> latest, published |-> published,
         states |-> [item[i].states EXCEPT ![latest] = state]]]

Create(i) ==
    /\ item[i] = NoItem
    /\ item' = [item EXCEPT ![i] =
        [shown |-> 1, latest |-> 1, published |-> FALSE,
         states |-> [n \in 1..MaxRevisions |-> IF n = 1 THEN "draft" ELSE "none"]]]

\* Unpublished knowledge is edited as it stands.
Edit(i) ==
    /\ Present(i) /\ ~item[i].published
    /\ item[i].latest < MaxRevisions
    /\ LET n == item[i].latest + 1 IN Becomes(i, n, n, FALSE, "draft")

\* Published knowledge is revised beside what it shows.
Revise(i) ==
    /\ Present(i) /\ item[i].published
    /\ LatestState(i) \in {"legacy", "published", "rejected"}
    /\ item[i].latest < MaxRevisions
    /\ Becomes(i, item[i].shown, item[i].latest + 1, TRUE, "draft")

Validate(i) ==
    /\ Present(i) /\ LatestState(i) = "draft"
    /\ Becomes(i, item[i].shown, item[i].latest, item[i].published, "validated")

Publish(i) ==
    /\ Present(i) /\ LatestState(i) = "validated"
    /\ Becomes(i, item[i].latest, item[i].latest, TRUE, "published")

Reject(i) ==
    /\ Present(i) /\ LatestState(i) \in {"draft", "validated"}
    /\ Becomes(i, item[i].shown, item[i].latest, item[i].published, "rejected")

Remove(i) ==
    /\ Present(i)
    /\ item' = [item EXCEPT ![i] = Removed]

Next ==
    \E i \in Items :
        \/ Create(i) \/ Edit(i) \/ Revise(i) \/ Validate(i)
        \/ Publish(i) \/ Reject(i) \/ Remove(i)

Spec == Init /\ [][Next]_item
=============================================================================
