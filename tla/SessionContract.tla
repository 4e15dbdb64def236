--------------------------- MODULE SessionContract ---------------------------
(***************************************************************************)
(* What a session store promises the authentication service: a session is  *)
(* found from the moment it is created until it expires or is revoked,     *)
(* never after; revoking a user or an organization reaches every session   *)
(* of it that is still standing; the count is that of the live sessions.   *)
(* At the tick of its expiry a session may count as live or as dead: the   *)
(* two adapters differ by that tick.                                       *)
(***************************************************************************)
EXTENDS SessionData

VARIABLES
    now,       \* the clock of the servers and of the store
    undrawn,   \* tokens the generator has not returned yet
    session,   \* token -> its session while it stands, else NoSession
    answer     \* what the latest operation returned

Stands(t) == session[t] # NoSession
Live(t) == Stands(t) /\ now < session[t].expires

Init ==
    /\ now = 0
    /\ undrawn = Tokens
    /\ session = [t \in Tokens |-> NoSession]
    /\ answer = Reply(<<>>, NoSession, {})

\* Time passes; a session whose expiry is past no longer stands.
Tick ==
    /\ now < LastTick
    /\ now' = now + 1
    /\ session' = [t \in Tokens |->
          IF Stands(t) /\ session[t].expires < now' THEN NoSession ELSE session[t]]
    /\ UNCHANGED <<undrawn, answer>>

Create(t, u, o, life) ==
    LET s == [user |-> u, org |-> o, expires |-> now + life] IN
    /\ t \in undrawn
    /\ undrawn' = undrawn \ {t}
    /\ session' = [session EXCEPT ![t] = s]
    /\ answer' = Reply(<<"create", t>>, s, {})
    /\ UNCHANGED now

\* getSession and touchSession.
Read(t) ==
    /\ \E s \in {session[t], NoSession} :
          /\ Live(t) => s = session[t]
          /\ answer' = Reply(<<"read", t>>, s, {})
    /\ UNCHANGED <<now, undrawn, session>>

\* The sessions of T are ended; the answer counts them, and may count
\* sessions that have expired as well.
End(call, T) ==
    /\ session' = [t \in Tokens |-> IF t \in T THEN NoSession ELSE session[t]]
    /\ \E S \in SUBSET (Tokens \ undrawn) :
          /\ \A t \in T : Live(t) => t \in S
          /\ \A t \in S : Live(t) => t \in T
          /\ answer' = Reply(call, NoSession, S)
    /\ UNCHANGED <<now, undrawn>>

RevokeSession(t) == End(<<"revoke", t>>, {t})
RevokeUser(u) == End(<<"revokeUser", u>>, {t \in Tokens : Stands(t) /\ session[t].user = u})
RevokeOrg(o) == End(<<"revokeOrg", o>>, {t \in Tokens : Stands(t) /\ session[t].org = o})
Cleanup == End(<<"cleanup">>, {})

Count ==
    /\ \E S \in SUBSET Tokens :
          /\ \A t \in Tokens : Live(t) => t \in S
          /\ \A t \in S : Stands(t)
          /\ answer' = Reply(<<"count">>, NoSession, S)
    /\ UNCHANGED <<now, undrawn, session>>

Next ==
    \/ Tick
    \/ \E t \in Tokens, u \in Users, o \in Orgs, life \in Lifetimes : Create(t, u, o, life)
    \/ \E t \in Tokens : Read(t) \/ RevokeSession(t)
    \/ \E u \in Users : RevokeUser(u)
    \/ \E o \in Orgs : RevokeOrg(o)
    \/ Cleanup
    \/ Count

vars == <<now, undrawn, session, answer>>

Spec == Init /\ [][Next]_vars

=============================================================================
