------------------------------ MODULE ListScreen ------------------------------
(***************************************************************************)
(* A list in the browser that is refreshed, and grows by "load more": the  *)
(* case inbox, the review queue, and the lists of tasks (received,         *)
(* requested, team).  Requests are answered in any order, or not at all;   *)
(* what is in flight is only told by the flags that disable the buttons,   *)
(* and every screen has flags of its own.                                  *)
(***************************************************************************)
EXTENDS Paging

CONSTANTS
    Slots,       \* bound on the requests of one list in flight
    NoAsk

VARIABLES
    screen,      \* which of the screens it is
    shown,       \* the rows in the list
    cursor, more,
    raised,      \* the flags that disable buttons: busy, paging
    error,       \* in the review queue: an error is shown instead of the list
    ask,         \* requests in flight, with their answers once served
    torn         \* history: a refresh failed, or a page came that the list
                 \* does not reach up to, and no refresh since

list == <<shown, cursor, more, error, torn>>

Screens == {"inbox", "reviews", "tasks", "team"}
TaskList == screen \in {"tasks", "team"}

\* A refresh by button, a refresh after a submission, a further page.
Kinds == {"refresh", "after", "next"}

Answers == [page : SUBSET Rows, next : Cursors, more : BOOLEAN]
Asks == [kind : Kinds, of : Cursors, served : BOOLEAN, answer : Answers, stood : SUBSET Rows]

ASSUME NoAskAssumption == NoAsk \notin Asks

Asked(kind, of) ==
    [kind |-> kind, of |-> of, served |-> FALSE,
     answer |-> [page |-> {}, next |-> Start, more |-> FALSE], stood |-> {}]

\* The flags a request raises when it is made and lowers when it ends.  The
\* inbox has one; in the task lists a submission holds what a page holds.
Flags(kind) ==
    CASE kind = "next" /\ screen # "inbox" -> {"paging"}
      [] kind = "after" /\ TaskList -> {"busy", "paging"}
      [] OTHER -> {"busy"}

\* The flags that keep a request from being made.
Barred(kind) ==
    CASE kind = "refresh" -> IF TaskList THEN {"busy", "paging"} ELSE {"busy"}
      [] kind = "after" -> IF TaskList THEN {"paging"} ELSE {}
      [] kind = "next" -> CASE screen = "inbox" -> {"busy"}
                            [] screen = "reviews" -> {"busy", "paging"}
                            [] TaskList -> {"paging"}

\* The page is on the screen, its first request made.
ScreenInit ==
    /\ screen \in Screens
    /\ shown = {} /\ cursor = Start /\ more = FALSE
    /\ raised = {"busy"}
    /\ error = FALSE
    /\ \E s \in Slots : ask = [t \in Slots |-> IF t = s THEN Asked("refresh", Start) ELSE NoAsk]
    /\ torn = FALSE

Request(s, kind, of) ==
    /\ ask[s] = NoAsk
    /\ raised \intersect Barred(kind) = {}
    /\ ask' = [ask EXCEPT ![s] = Asked(kind, of)]
    /\ raised' = raised \union Flags(kind)
    /\ UNCHANGED <<table, standing, screen, list>>

Refresh(s) == Request(s, "refresh", Start)
Submitted(s) == Request(s, "after", Start)
LoadMore(s) ==
    /\ more /\ cursor # Start /\ ~error
    /\ Request(s, "next", cursor)

Serve(s) ==
    /\ ask[s] # NoAsk /\ ~ask[s].served
    /\ ask' = [ask EXCEPT ![s].served = TRUE, ![s].stood = table,
                          ![s].answer = Read(ask[s].of)]
    /\ UNCHANGED <<table, standing, screen, list, raised>>

Ends(s) ==
    /\ ask' = [ask EXCEPT ![s] = NoAsk]
    /\ raised' = raised \ Flags(ask[s].kind)
    /\ UNCHANGED <<table, screen>>

Answered(s) == ask[s] # NoAsk /\ ask[s].served

Positions(a) == cursor' = a.next /\ more' = a.more

ShowFirst(s) ==
    /\ Answered(s) /\ ask[s].kind # "next"
    /\ shown' = ask[s].answer.page
    /\ Positions(ask[s].answer)
    /\ error' = FALSE /\ torn' = FALSE
    /\ standing' = ask[s].stood
    /\ Ends(s)

\* Mutant: a further page takes the place of what is shown.
Replaced(page) == page

\* Rows that are shown already are left out of what is appended.
Grown(page) == shown \union page

\* The page continues a list that ends before it.
Beyond(of) == more /\ Comes(cursor, of)

ShowMore(s) ==
    /\ Answered(s) /\ ask[s].kind = "next"
    /\ shown' = Grown(ask[s].answer.page)
    /\ Positions(ask[s].answer)
    /\ error' = FALSE
    /\ torn' = (torn \/ Beyond(ask[s].of))
    /\ standing' = standing \intersect ask[s].stood
    /\ Ends(s)

\* The inbox and the task lists keep cursor and more, with nothing shown.
RefreshFails(s) ==
    /\ ask[s] # NoAsk /\ ask[s].kind # "next"
    /\ shown' = {}
    /\ IF screen \in {"reviews", "team"}
       THEN cursor' = Start /\ more' = FALSE
       ELSE UNCHANGED <<cursor, more>>
    /\ error' = (screen = "reviews")
    /\ torn' = TRUE
    /\ UNCHANGED standing
    /\ Ends(s)

NextFails(s) ==
    /\ ask[s] # NoAsk /\ ask[s].kind = "next"
    /\ UNCHANGED <<standing, list>>
    /\ Ends(s)

ScreenNext ==
    \E s \in Slots :
        \/ Refresh(s)
        \/ Submitted(s)
        \/ LoadMore(s)
        \/ Serve(s)
        \/ ShowFirst(s)
        \/ ShowMore(s)
        \/ RefreshFails(s)
        \/ NextFails(s)

=============================================================================
