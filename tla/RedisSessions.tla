---------------------------- MODULE RedisSessions ----------------------------
(***************************************************************************)
(* RedisSessionStore (auth/authProvider.ts): every operation is one Lua    *)
(* script, so one step.  A session is spread over four keys: its payload,  *)
(* which Redis drops when its lifetime is over, and its entries in three   *)
(* sorted sets, the expirations of all sessions and the indexes of its     *)
(* user and of its organization, which it does not clean up by itself.     *)
(***************************************************************************)
EXTENDS SessionData

VARIABLES
    now, undrawn, answer,
    payload,      \* token -> the session stored under its key, or NoSession
    expiration,   \* token -> its score in the expirations set, 0 when absent
    userIndex,    \* user -> [members, until]: the set and its own expiry
    orgIndex      \* organization -> the same

stored == <<payload, expiration, userIndex, orgIndex>>
vars == <<now, undrawn, answer, stored>>

Contract == INSTANCE SessionContract WITH session <- payload

Indexes == [members : SUBSET Tokens, until : Nat]

NoIndex == [members |-> {}, until |-> 0]

TypeOK ==
    /\ now \in Nat
    /\ undrawn \subseteq Tokens
    /\ answer \in Answers
    /\ payload \in [Tokens -> Sessions \cup {NoSession}]
    /\ expiration \in [Tokens -> Nat]
    /\ userIndex \in [Users -> Indexes]
    /\ orgIndex \in [Orgs -> Indexes]

Init ==
    /\ now = 0
    /\ undrawn = Tokens
    /\ answer = Reply(<<>>, NoSession, {})
    /\ payload = [t \in Tokens |-> NoSession]
    /\ expiration = [t \in Tokens |-> 0]
    /\ userIndex = [u \in Users |-> NoIndex]
    /\ orgIndex = [o \in Orgs |-> NoIndex]

-----------------------------------------------------------------------------
(* Redis: expiry of keys, and sorted sets that vanish with their last      *)
(* member.                                                                 *)

Held(t) == payload[t] # NoSession

Unexpired(index, time) == IF index.until < time THEN NoIndex ELSE index

Zrem(index, gone) ==
    IF index.members \subseteq gone
    THEN NoIndex
    ELSE [index EXCEPT !.members = @ \ gone]

\* ZADD, then PEXPIRE whatever lifetime the set has left.
ZaddAlways(index, t, expires) ==
    [members |-> index.members \cup {t}, until |-> expires]

\* ZADD, then PEXPIRE only when what is left of the set's own lifetime is
\* shorter than the new session's.
Zadd(index, t, expires) ==
    [members |-> index.members \cup {t},
     until |-> IF index.until < expires THEN expires ELSE index.until]

Tick ==
    /\ now < LastTick
    /\ now' = now + 1
    /\ payload' = [t \in Tokens |->
          IF Held(t) /\ payload[t].expires < now' THEN NoSession ELSE payload[t]]
    /\ userIndex' = [u \in Users |-> Unexpired(userIndex[u], now')]
    /\ orgIndex' = [o \in Orgs |-> Unexpired(orgIndex[o], now')]
    /\ UNCHANGED <<undrawn, answer, expiration>>

-----------------------------------------------------------------------------
(* The operations of the store.                                            *)

\* SET NX refuses a token that is taken and another is drawn; tokens are long
\* and random, so each is drawn once here.
Create(t, u, o, life) ==
    LET s == [user |-> u, org |-> o, expires |-> now + life] IN
    /\ t \in undrawn
    /\ undrawn' = undrawn \ {t}
    /\ payload' = [payload EXCEPT ![t] = s]
    /\ expiration' = [expiration EXCEPT ![t] = s.expires]
    /\ userIndex' = [userIndex EXCEPT ![u] = Zadd(@, t, s.expires)]
    /\ orgIndex' = [orgIndex EXCEPT ![o] = Zadd(@, t, s.expires)]
    /\ answer' = Reply(<<"create", t>>, s, {})
    /\ UNCHANGED now

\* getSession and touchSession write the payload back with what is left of
\* its lifetime; a key on its last tick (PTTL 0) is answered as absent.
Read(t) ==
    /\ answer' = Reply(<<"read", t>>,
          IF Held(t) /\ payload[t].expires > now THEN payload[t] ELSE NoSession, {})
    /\ UNCHANGED <<now, undrawn, stored>>

\* The members of a set that still have a payload.
HeldOf(members) == {t \in members : Held(t)}

RevokeSession(t) ==
    /\ payload' = [payload EXCEPT ![t] = NoSession]
    /\ expiration' = [expiration EXCEPT ![t] = 0]
    /\ IF Held(t)
       THEN /\ userIndex' = [userIndex EXCEPT ![payload[t].user] = Zrem(@, {t})]
            /\ orgIndex' = [orgIndex EXCEPT ![payload[t].org] = Zrem(@, {t})]
       ELSE UNCHANGED <<userIndex, orgIndex>>
    /\ answer' = Reply(<<"revoke", t>>, NoSession, HeldOf({t}))
    /\ UNCHANGED <<now, undrawn>>

Forget(call, members) ==
    /\ payload' = [t \in Tokens |-> IF t \in members THEN NoSession ELSE payload[t]]
    /\ expiration' = [t \in Tokens |-> IF t \in members THEN 0 ELSE expiration[t]]
    /\ answer' = Reply(call, NoSession, HeldOf(members))

RevokeUser(u) ==
    LET members == userIndex[u].members IN
    /\ Forget(<<"revokeUser", u>>, members)
    /\ userIndex' = [userIndex EXCEPT ![u] = NoIndex]
    /\ orgIndex' = [o \in Orgs |->
          Zrem(orgIndex[o], {t \in HeldOf(members) : payload[t].org = o})]
    /\ UNCHANGED <<now, undrawn>>

RevokeOrg(o) ==
    LET members == orgIndex[o].members IN
    /\ Forget(<<"revokeOrg", o>>, members)
    /\ orgIndex' = [orgIndex EXCEPT ![o] = NoIndex]
    /\ userIndex' = [u \in Users |->
          Zrem(userIndex[u], {t \in HeldOf(members) : payload[t].user = u})]
    /\ UNCHANGED <<now, undrawn>>

Due == {t \in Tokens : expiration[t] # 0 /\ expiration[t] <= now}

Cleanup ==
    /\ expiration' = [t \in Tokens |-> IF t \in Due THEN 0 ELSE expiration[t]]
    /\ answer' = Reply(<<"cleanup">>, NoSession, Due)
    /\ UNCHANGED <<now, undrawn, payload, userIndex, orgIndex>>

Count ==
    /\ answer' = Reply(<<"count">>, NoSession, {t \in Tokens : expiration[t] > now})
    /\ UNCHANGED <<now, undrawn, stored>>

Next ==
    \/ Tick
    \/ \E t \in Tokens, u \in Users, o \in Orgs, life \in Lifetimes : Create(t, u, o, life)
    \/ \E t \in Tokens : Read(t) \/ RevokeSession(t)
    \/ \E u \in Users : RevokeUser(u)
    \/ \E o \in Orgs : RevokeOrg(o)
    \/ Cleanup
    \/ Count

Spec == Init /\ [][Next]_vars

-----------------------------------------------------------------------------
(* What holds the four keys together.                                      *)

\* A held payload has its score and its entry in both indexes, and neither
\* index disappears before it: the sets outlive what they have to find.
Indexed ==
    \A t \in Tokens : Held(t) =>
        LET s == payload[t] IN
        /\ s.expires > now => expiration[t] = s.expires
        /\ t \in userIndex[s.user].members /\ userIndex[s.user].until >= s.expires
        /\ t \in orgIndex[s.org].members /\ orgIndex[s.org].until >= s.expires

\* An entry that has outlived its payload is harmless: no score still to come
\* is without its payload, and no index holds another owner's session.
NothingStray ==
    \A t \in Tokens :
        /\ expiration[t] > now => Held(t)
        /\ Held(t) => /\ \A u \in Users : t \in userIndex[u].members => payload[t].user = u
                      /\ \A o \in Orgs : t \in orgIndex[o].members => payload[t].org = o

=============================================================================
