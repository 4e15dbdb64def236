---------------------------- MODULE MemorySessions ----------------------------
(***************************************************************************)
(* InMemorySessionStore (auth/authProvider.ts): one map, scanned by the    *)
(* operations on a user or an organization.  Nothing leaves the map by     *)
(* itself: an expired session is dropped when it is read, or by a cleanup. *)
(***************************************************************************)
EXTENDS SessionData

VARIABLES now, undrawn, answer, sessions

vars == <<now, undrawn, answer, sessions>>

Kept(t) == sessions[t] # NoSession
Expired(t) == Kept(t) /\ sessions[t].expires < now

\* The contract speaks of the sessions that have not expired.
Standing == [t \in Tokens |-> IF Expired(t) THEN NoSession ELSE sessions[t]]

Contract == INSTANCE SessionContract WITH session <- Standing

Init ==
    /\ now = 0
    /\ undrawn = Tokens
    /\ answer = Reply(<<>>, NoSession, {})
    /\ sessions = [t \in Tokens |-> NoSession]

Tick ==
    /\ now < LastTick
    /\ now' = now + 1
    /\ UNCHANGED <<undrawn, answer, sessions>>

Create(t, u, o, life) ==
    LET s == [user |-> u, org |-> o, expires |-> now + life] IN
    /\ t \in undrawn
    /\ undrawn' = undrawn \ {t}
    /\ sessions' = [sessions EXCEPT ![t] = s]
    /\ answer' = Reply(<<"create", t>>, s, {})
    /\ UNCHANGED now

Drop(T) == sessions' = [t \in Tokens |-> IF t \in T THEN NoSession ELSE sessions[t]]

\* Without the comparison of the expiry with the clock.
ReadKept(t) ==
    /\ Drop({})
    /\ answer' = Reply(<<"read", t>>, sessions[t], {})
    /\ UNCHANGED <<now, undrawn>>

Read(t) ==
    /\ Drop({t} \cap {r \in Tokens : Expired(r)})
    /\ answer' = Reply(<<"read", t>>,
          IF Expired(t) THEN NoSession ELSE sessions[t], {})
    /\ UNCHANGED <<now, undrawn>>

DropAndCount(call, T) ==
    /\ Drop(T)
    /\ answer' = Reply(call, NoSession, T)
    /\ UNCHANGED <<now, undrawn>>

RevokeSession(t) == DropAndCount(<<"revoke", t>>, {t} \cap {r \in Tokens : Kept(r)})
RevokeUser(u) == DropAndCount(<<"revokeUser", u>>, {t \in Tokens : Kept(t) /\ sessions[t].user = u})
RevokeOrg(o) == DropAndCount(<<"revokeOrg", o>>, {t \in Tokens : Kept(t) /\ sessions[t].org = o})
Cleanup == DropAndCount(<<"cleanup">>, {t \in Tokens : Expired(t)})

Count ==
    /\ answer' = Reply(<<"count">>, NoSession,
          {t \in Tokens : Kept(t) /\ ~Expired(t)})
    /\ UNCHANGED <<now, undrawn, sessions>>

=============================================================================
