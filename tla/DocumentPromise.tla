--------------------------- MODULE DocumentPromise ---------------------------
(***************************************************************************)
(* What the document pipeline promises of a document's row and blob: the   *)
(* blob is there before the row is and until it is deleted; and as long as *)
(* there is a blob without a row, or there may be, its deletion is owed.   *)
(* The promise is waived only while the upload is still to commit.  No     *)
(* handler, no audit log and no failure appears here.                      *)
(***************************************************************************)
CONSTANT Docs

VARIABLE document

Fresh == [row |-> "absent", stored |-> FALSE, owed |-> FALSE]
Announced == [row |-> "absent", stored |-> FALSE, owed |-> TRUE]
Uploaded == [row |-> "absent", stored |-> TRUE, owed |-> TRUE]
Deleted == [row |-> "deleted", stored |-> TRUE, owed |-> TRUE]
Gone == [row |-> "gone", stored |-> FALSE, owed |-> FALSE]
Waived == [row |-> "waived", stored |-> FALSE, owed |-> FALSE]

\* A document that people can read.
Standing(status) == [row |-> status, stored |-> TRUE, owed |-> FALSE]
Statuses == {"processing", "indexed", "failed"}
Moves == {<<"processing", "indexed">>, <<"processing", "failed">>, <<"failed", "processing">>}

Init == document = [d \in Docs |-> Fresh]

Becomes(d, next) == document' = [document EXCEPT ![d] = next]

Announce(d) == document[d] = Fresh /\ Becomes(d, Announced)

Put(d) == document[d] = Announced /\ Becomes(d, Uploaded)

Commit(d) == document[d] = Uploaded /\ Becomes(d, Standing("processing"))

Process(d) ==
    \E move \in Moves :
        document[d] = Standing(move[1]) /\ Becomes(d, Standing(move[2]))

Delete(d) ==
    /\ \E s \in Statuses : document[d] = Standing(s)
    /\ Becomes(d, Deleted)

\* The blob is removed, of a document that was deleted or never committed.
Remove(d) ==
    /\ document[d] \in {Uploaded, Deleted}
    /\ Becomes(d, [row |-> document[d].row, stored |-> FALSE, owed |-> TRUE])

\* What was owed is done, for good.
Settle(d) ==
    /\ document[d].row \in {"absent", "deleted"}
    /\ document[d].owed /\ ~document[d].stored
    /\ Becomes(d, Gone)

\* The uploads in D are given up while they are in flight.
Waive(D) ==
    /\ D # {} /\ \A d \in D : document[d] \in {Announced, Uploaded}
    /\ document' = [d \in Docs |-> IF d \in D THEN Waived ELSE document[d]]

Next ==
    \/ \E d \in Docs :
          \/ Announce(d) \/ Put(d) \/ Commit(d) \/ Process(d)
          \/ Delete(d) \/ Remove(d) \/ Settle(d)
    \/ \E D \in SUBSET Docs : Waive(D)

Spec == Init /\ [][Next]_document
=============================================================================
