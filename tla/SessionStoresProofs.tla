------------------------- MODULE SessionStoresProofs -------------------------
(***************************************************************************)
(* Both session stores implement SessionContract, for any number of        *)
(* sessions, users, organizations and lifetimes, and any length of time:   *)
(* first Redis by itself, then Redis beside the map, then the map.         *)
(***************************************************************************)
EXTENDS SessionStores, TLAPS

\* A token not drawn yet left no trace, in the sets either.
Unused ==
    \A t \in undrawn :
        /\ ~Redis!Held(t) /\ expiration[t] = 0
        /\ \A u \in Users : t \notin userIndex[u].members
        /\ \A o \in Orgs : t \notin orgIndex[o].members

\* A payload goes with its lifetime, and its score is its expiry or gone.
Timed ==
    \A t \in Tokens : Redis!Held(t) => /\ payload[t].expires >= now
                                 /\ expiration[t] \in {0, payload[t].expires}

Inv == Redis!TypeOK /\ Redis!Indexed /\ Redis!NothingStray /\ Unused /\ Timed

-----------------------------------------------------------------------------
(* What the sorted sets keep.                                              *)

LEMMA ReplyTyped ==
    ASSUME NEW call \in Redis!Calls, NEW s \in Redis!Sessions \cup {NoSession},
           NEW S \in SUBSET Tokens
    PROVE  Redis!Reply(call, s, S) \in Redis!Answers
  BY DEF Redis!Reply, Redis!Answers

LEMMA ZaddKeeps ==
    ASSUME NEW index \in Redis!Indexes, NEW t \in Tokens, NEW expires \in Nat
    PROVE  /\ Redis!Zadd(index, t, expires) \in Redis!Indexes
           /\ Redis!Zadd(index, t, expires).members = index.members \cup {t}
           /\ Redis!Zadd(index, t, expires).until >= index.until
           /\ Redis!Zadd(index, t, expires).until >= expires
  BY DEF Redis!Zadd, Redis!Indexes

LEMMA ZremKeeps ==
    ASSUME NEW index \in Redis!Indexes, NEW gone \in SUBSET Tokens
    PROVE  /\ Redis!Zrem(index, gone) \in Redis!Indexes
           /\ Redis!Zrem(index, gone).members = index.members \ gone
           /\ \A t \in index.members \ gone : Redis!Zrem(index, gone).until = index.until
  BY DEF Redis!Zrem, Redis!Indexes, Redis!NoIndex

LEMMA UnexpiredKeeps ==
    ASSUME NEW index \in Redis!Indexes, NEW time \in Nat
    PROVE  /\ Redis!Unexpired(index, time) \in Redis!Indexes
           /\ Redis!Unexpired(index, time).members \subseteq index.members
           /\ index.until >= time => Redis!Unexpired(index, time) = index
  BY DEF Redis!Unexpired, Redis!Indexes, Redis!NoIndex

LEMMA NoIndexTyped == Redis!NoIndex \in Redis!Indexes /\ Redis!NoIndex.members = {}
  BY DEF Redis!NoIndex, Redis!Indexes

\* The sessions an index leads to are exactly those of its owner.
LEMMA IndexFinds ==
    ASSUME Inv
    PROVE  /\ \A u \in Users : Redis!HeldOf(userIndex[u].members)
                                   = {t \in Tokens : Redis!Held(t) /\ payload[t].user = u}
           /\ \A o \in Orgs : Redis!HeldOf(orgIndex[o].members)
                                   = {t \in Tokens : Redis!Held(t) /\ payload[t].org = o}
  BY DEF Inv, Redis!TypeOK, Redis!Indexed, Redis!NothingStray, Redis!HeldOf, Redis!Held,
     Redis!Indexes, Redis!Sessions

-----------------------------------------------------------------------------
(* The invariant is inductive.                                             *)

LEMMA InitInv == Redis!Init => Inv
  <1> SUFFICES ASSUME Redis!Init PROVE Inv
    OBVIOUS
  <1>1. <<>> \in Redis!Calls
    BY DEF Redis!Calls
  <1>2. redisAnswer \in Redis!Answers
    BY <1>1, ReplyTyped DEF Redis!Init
  <1> QED
    BY <1>2, NoIndexTyped DEF Redis!Init, Inv, Redis!TypeOK, Redis!Indexed,
       Redis!NothingStray, Unused, Timed,
       Redis!Held, Redis!NoIndex

LEMMA TickInv == Inv /\ Redis!Tick => Inv'
  <1> SUFFICES ASSUME Inv, Redis!Tick PROVE Inv'
    OBVIOUS
  <1> USE DEF Inv, Redis!TypeOK, Redis!Held
  <1>1. now' \in Nat /\ now' = now + 1
    BY DEF Redis!Tick
  <1>2. \A u \in Users : /\ userIndex'[u] \in Redis!Indexes
                         /\ userIndex'[u].members \subseteq userIndex[u].members
                         /\ userIndex[u].until >= now' => userIndex'[u] = userIndex[u]
    BY <1>1, UnexpiredKeeps DEF Redis!Tick
  <1>3. \A o \in Orgs : /\ orgIndex'[o] \in Redis!Indexes
                        /\ orgIndex'[o].members \subseteq orgIndex[o].members
                        /\ orgIndex[o].until >= now' => orgIndex'[o] = orgIndex[o]
    BY <1>1, UnexpiredKeeps DEF Redis!Tick
  <1>4. Redis!TypeOK'
    <2>1. userIndex' \in [Users -> Redis!Indexes] /\ orgIndex' \in [Orgs -> Redis!Indexes]
      BY <1>2, <1>3 DEF Redis!Tick
    <2> QED BY <1>1, <2>1 DEF Redis!Tick
  <1>5. \A t \in Tokens : Redis!Held(t)' => Redis!Held(t) /\ payload'[t] = payload[t]
                                      /\ payload[t] \in Redis!Sessions /\ payload[t].expires >= now'
    BY <1>1 DEF Redis!Tick, Redis!Sessions
  <1>6. \A t \in Tokens : Redis!Held(t) /\ payload[t].expires > now => Redis!Held(t)'
    BY <1>1, NoSessionAssumption DEF Redis!Tick, Redis!Sessions, Sessions
  <1>7. Redis!Indexed'
    <2> SUFFICES ASSUME NEW t \in Tokens, Redis!Held(t)'
                 PROVE  LET s == payload'[t] IN
                        /\ s.expires > now' => expiration'[t] = s.expires
                        /\ t \in userIndex'[s.user].members
                        /\ userIndex'[s.user].until >= s.expires
                        /\ t \in orgIndex'[s.org].members
                        /\ orgIndex'[s.org].until >= s.expires
      BY DEF Redis!Indexed
    <2>1. payload[t].user \in Users /\ payload[t].org \in Orgs /\ payload[t].expires \in Nat
      BY <1>5 DEF Redis!Sessions
    <2>2. /\ payload[t].expires > now => expiration[t] = payload[t].expires
          /\ t \in userIndex[payload[t].user].members
          /\ userIndex[payload[t].user].until >= payload[t].expires
          /\ t \in orgIndex[payload[t].org].members
          /\ orgIndex[payload[t].org].until >= payload[t].expires
      BY <1>5 DEF Redis!Indexed
    <2>3. userIndex[payload[t].user] \in Redis!Indexes /\ orgIndex[payload[t].org] \in Redis!Indexes
      BY <2>1
    <2>4. /\ userIndex[payload[t].user].until >= now'
          /\ orgIndex[payload[t].org].until >= now'
      BY <1>1, <1>5, <2>1, <2>2, <2>3 DEF Redis!Indexes
    <2>5. /\ userIndex'[payload[t].user] = userIndex[payload[t].user]
          /\ orgIndex'[payload[t].org] = orgIndex[payload[t].org]
      BY <1>2, <1>3, <2>1, <2>4
    <2>6. expiration' = expiration
      BY DEF Redis!Tick
    <2> QED BY <1>1, <1>5, <2>1, <2>2, <2>5, <2>6
  <1>8. Redis!NothingStray'
    <2>1. expiration' = expiration
      BY DEF Redis!Tick
    <2>2. \A t \in Tokens : expiration[t] > now' => Redis!Held(t)'
      BY <1>1, <1>6 DEF Redis!NothingStray, Timed, Redis!Sessions
    <2> QED BY <1>2, <1>3, <1>5, <2>1, <2>2 DEF Redis!NothingStray
  <1>9. Unused' /\ Timed'
    <2>1. expiration' = expiration /\ undrawn' = undrawn
      BY DEF Redis!Tick
    <2> QED BY <1>2, <1>3, <1>5, <2>1 DEF Unused, Timed
  <1> QED BY <1>4, <1>7, <1>8, <1>9

LEMMA CreateInv ==
    ASSUME Inv, NEW t \in Tokens, NEW u \in Users, NEW o \in Orgs, NEW life \in Lifetimes,
           Redis!Create(t, u, o, life)
    PROVE  Inv'
  <1> DEFINE s == [user |-> u, org |-> o, expires |-> now + life]
  <1> USE DEF Inv, Redis!TypeOK, Redis!Held
  <1>1. s \in Redis!Sessions /\ s # NoSession /\ s.expires > now /\ s.expires \in Nat
        /\ s.user = u /\ s.org = o
    BY LifetimesAssumption, NoSessionAssumption DEF Redis!Sessions, Sessions
  <1> HIDE DEF s
  <1>2. /\ t \in undrawn /\ undrawn' = undrawn \ {t} /\ now' = now
        /\ payload' = [payload EXCEPT ![t] = s]
        /\ expiration' = [expiration EXCEPT ![t] = s.expires]
        /\ userIndex' = [userIndex EXCEPT ![u] = Redis!Zadd(userIndex[u], t, s.expires)]
        /\ orgIndex' = [orgIndex EXCEPT ![o] = Redis!Zadd(orgIndex[o], t, s.expires)]
        /\ redisAnswer' = Redis!Reply(<<"create", t>>, s, {})
    BY DEF Redis!Create, s
  <1>3. /\ Redis!Zadd(userIndex[u], t, s.expires) \in Redis!Indexes
        /\ userIndex'[u].members = userIndex[u].members \cup {t}
        /\ userIndex'[u].until >= userIndex[u].until
        /\ userIndex'[u].until >= s.expires
        /\ \A v \in Users \ {u} : userIndex'[v] = userIndex[v]
    BY <1>1, <1>2, ZaddKeeps
  <1>4. /\ Redis!Zadd(orgIndex[o], t, s.expires) \in Redis!Indexes
        /\ orgIndex'[o].members = orgIndex[o].members \cup {t}
        /\ orgIndex'[o].until >= orgIndex[o].until
        /\ orgIndex'[o].until >= s.expires
        /\ \A v \in Orgs \ {o} : orgIndex'[v] = orgIndex[v]
    BY <1>1, <1>2, ZaddKeeps
  <1>5. Redis!TypeOK'
    <2>1. <<"create", t>> \in Redis!Calls
      BY DEF Redis!Calls
    <2>2. redisAnswer' \in Redis!Answers
      BY <1>1, <1>2, <2>1, ReplyTyped
    <2> QED BY <1>1, <1>2, <1>3, <1>4, <2>2
  <1>6. /\ ~Redis!Held(t)
        /\ payload'[t] = s /\ expiration'[t] = s.expires
        /\ \A r \in Tokens \ {t} : payload'[r] = payload[r] /\ expiration'[r] = expiration[r]
    BY <1>2 DEF Unused
  <1>7. Redis!Indexed'
    <2> SUFFICES ASSUME NEW r \in Tokens, Redis!Held(r)'
                 PROVE  LET q == payload'[r] IN
                        /\ q.expires > now' => expiration'[r] = q.expires
                        /\ r \in userIndex'[q.user].members
                        /\ userIndex'[q.user].until >= q.expires
                        /\ r \in orgIndex'[q.org].members
                        /\ orgIndex'[q.org].until >= q.expires
      BY DEF Redis!Indexed
    <2>1. CASE r = t
      BY <1>1, <1>3, <1>4, <1>6, <2>1
    <2>2. CASE r # t
      <3>1. /\ payload'[r] = payload[r] /\ expiration'[r] = expiration[r]
            /\ payload[r] \in Redis!Sessions /\ Redis!Held(r)
        BY <1>6, <2>2
      <3>2. payload[r].user \in Users /\ payload[r].org \in Orgs /\ payload[r].expires \in Nat
        BY <3>1 DEF Redis!Sessions
      <3>3. /\ payload[r].expires > now => expiration[r] = payload[r].expires
            /\ r \in userIndex[payload[r].user].members
            /\ userIndex[payload[r].user].until >= payload[r].expires
            /\ r \in orgIndex[payload[r].org].members
            /\ orgIndex[payload[r].org].until >= payload[r].expires
        BY <3>1 DEF Redis!Indexed
      <3>4. /\ userIndex[u] \in Redis!Indexes /\ userIndex'[u] \in Redis!Indexes
            /\ orgIndex[o] \in Redis!Indexes /\ orgIndex'[o] \in Redis!Indexes
        BY <1>2, <1>3, <1>4
      <3>5. r \in userIndex'[payload[r].user].members
            /\ userIndex'[payload[r].user].until >= payload[r].expires
        BY <1>3, <3>2, <3>3, <3>4 DEF Redis!Indexes
      <3>6. r \in orgIndex'[payload[r].org].members
            /\ orgIndex'[payload[r].org].until >= payload[r].expires
        BY <1>4, <3>2, <3>3, <3>4 DEF Redis!Indexes
      <3> QED BY <1>2, <3>1, <3>3, <3>5, <3>6
    <2> QED BY <2>1, <2>2
  <1>8. Redis!NothingStray'
    BY <1>1, <1>2, <1>3, <1>4, <1>6 DEF Redis!NothingStray, Unused
  <1>9. Unused' /\ Timed'
    BY <1>1, <1>2, <1>3, <1>4, <1>6 DEF Unused, Timed
  <1> QED BY <1>5, <1>7, <1>8, <1>9

\* Reading and counting change the answer alone.
LEMMA AnswerInv ==
    ASSUME Inv, UNCHANGED <<now, undrawn, Redis!stored>>, redisAnswer' \in Redis!Answers
    PROVE  Inv'
  BY DEF Inv, Redis!TypeOK, Redis!Indexed, Redis!NothingStray, Unused, Timed, Redis!Held,
     Redis!stored

LEMMA ReadInv == ASSUME Inv, NEW t \in Tokens, Redis!Read(t) PROVE Inv'
  <1>1. <<"read", t>> \in Redis!Calls
    BY DEF Redis!Calls
  <1>2. redisAnswer' \in Redis!Answers
    BY <1>1, ReplyTyped DEF Redis!Read, Inv, Redis!TypeOK
  <1> QED BY <1>2, AnswerInv DEF Redis!Read

LEMMA CountInv == ASSUME Inv, Redis!Count PROVE Inv'
  <1>1. <<"count">> \in Redis!Calls
    BY DEF Redis!Calls
  <1>2. redisAnswer' \in Redis!Answers
    BY <1>1, ReplyTyped DEF Redis!Count
  <1> QED BY <1>2, AnswerInv DEF Redis!Count

\* A step that forgets the sessions of a set, and takes from the indexes only
\* entries of that set, keeps the invariant.
LEMMA ForgetInv ==
    ASSUME Inv, NEW T \in SUBSET Tokens,
           now' = now, undrawn' = undrawn, redisAnswer' \in Redis!Answers,
           payload' = [t \in Tokens |-> IF t \in T THEN NoSession ELSE payload[t]],
           expiration' = [t \in Tokens |-> IF t \in T THEN 0 ELSE expiration[t]],
           userIndex' \in [Users -> Redis!Indexes], orgIndex' \in [Orgs -> Redis!Indexes],
           \A u \in Users :
               /\ userIndex'[u].members \subseteq userIndex[u].members
               /\ \A t \in userIndex[u].members : Redis!Held(t) /\ t \notin T =>
                      t \in userIndex'[u].members /\ userIndex'[u].until = userIndex[u].until,
           \A o \in Orgs :
               /\ orgIndex'[o].members \subseteq orgIndex[o].members
               /\ \A t \in orgIndex[o].members : Redis!Held(t) /\ t \notin T =>
                      t \in orgIndex'[o].members /\ orgIndex'[o].until = orgIndex[o].until
    PROVE  Inv'
  <1> USE DEF Inv, Redis!TypeOK, Redis!Held
  <1>1. Redis!TypeOK'
    OBVIOUS
  <1>2. \A t \in Tokens : Redis!Held(t)' => /\ Redis!Held(t) /\ t \notin T /\ payload'[t] = payload[t]
                                      /\ expiration'[t] = expiration[t]
                                      /\ payload[t] \in Redis!Sessions
    OBVIOUS
  <1>3. Redis!Indexed'
    BY <1>2 DEF Redis!Indexed, Redis!Sessions
  <1>4. Redis!NothingStray'
    BY <1>2 DEF Redis!NothingStray
  <1>5. Unused' /\ Timed'
    BY <1>2 DEF Unused, Timed
  <1> QED BY <1>1, <1>3, <1>4, <1>5

LEMMA RevokeSessionInv == ASSUME Inv, NEW t \in Tokens, Redis!RevokeSession(t) PROVE Inv'
  <1> USE DEF Inv, Redis!TypeOK, Redis!Held
  <1>1. <<"revoke", t>> \in Redis!Calls
    BY DEF Redis!Calls
  <1>2. redisAnswer' \in Redis!Answers
    BY <1>1, ReplyTyped DEF Redis!RevokeSession, Redis!HeldOf
  <1>3. /\ payload' = [r \in Tokens |-> IF r \in {t} THEN NoSession ELSE payload[r]]
        /\ expiration' = [r \in Tokens |-> IF r \in {t} THEN 0 ELSE expiration[r]]
    BY DEF Redis!RevokeSession
  <1>4. CASE Redis!Held(t)
    <2>1. /\ payload[t].user \in Users /\ payload[t].org \in Orgs
      BY <1>4 DEF Redis!Sessions
    <2>2. /\ userIndex' = [userIndex EXCEPT ![payload[t].user] = Redis!Zrem(userIndex[payload[t].user], {t})]
          /\ orgIndex' = [orgIndex EXCEPT ![payload[t].org] = Redis!Zrem(orgIndex[payload[t].org], {t})]
      BY <1>4 DEF Redis!RevokeSession
    <2>3. userIndex' \in [Users -> Redis!Indexes] /\ orgIndex' \in [Orgs -> Redis!Indexes]
      BY <2>1, <2>2, ZremKeeps
    <2>4. \A u \in Users :
               /\ userIndex'[u].members \subseteq userIndex[u].members
               /\ \A r \in userIndex[u].members : Redis!Held(r) /\ r \notin {t} =>
                      r \in userIndex'[u].members /\ userIndex'[u].until = userIndex[u].until
      BY <2>1, <2>2, ZremKeeps
    <2>5. \A o \in Orgs :
               /\ orgIndex'[o].members \subseteq orgIndex[o].members
               /\ \A r \in orgIndex[o].members : Redis!Held(r) /\ r \notin {t} =>
                      r \in orgIndex'[o].members /\ orgIndex'[o].until = orgIndex[o].until
      BY <2>1, <2>2, ZremKeeps
    <2>6. now' = now /\ undrawn' = undrawn
      BY DEF Redis!RevokeSession
    <2> QED BY <1>2, <1>3, <2>3, <2>4, <2>5, <2>6, ForgetInv
  <1>5. CASE ~Redis!Held(t)
    <2>1. UNCHANGED <<userIndex, orgIndex>>
      BY <1>5 DEF Redis!RevokeSession
    <2> QED BY <1>2, <1>3, <2>1, ForgetInv DEF Redis!RevokeSession
  <1> QED BY <1>4, <1>5

LEMMA RevokeUserInv == ASSUME Inv, NEW u \in Users, Redis!RevokeUser(u) PROVE Inv'
  <1> DEFINE members == userIndex[u].members
             Gone(o) == {t \in Redis!HeldOf(members) : payload[t].org = o}
  <1>1. <<"revokeUser", u>> \in Redis!Calls
    BY DEF Redis!Calls
  <1>2. members \subseteq Tokens /\ Redis!HeldOf(members) \in SUBSET Tokens
    BY DEF Inv, Redis!TypeOK, Redis!Indexes, Redis!HeldOf
  <1>3. redisAnswer' \in Redis!Answers
    BY <1>1, <1>2, ReplyTyped DEF Redis!RevokeUser, Redis!Forget
  <1>4. \A o \in Orgs : /\ Redis!Zrem(orgIndex[o], Gone(o)) \in Redis!Indexes
                        /\ orgIndex'[o].members = orgIndex[o].members \ Gone(o)
                        /\ \A t \in orgIndex[o].members \ Gone(o) :
                               orgIndex'[o].until = orgIndex[o].until
    BY <1>2, ZremKeeps DEF Redis!RevokeUser, Inv, Redis!TypeOK
  <1>5. \A o \in Orgs :
               /\ orgIndex'[o].members \subseteq orgIndex[o].members
               /\ \A r \in orgIndex[o].members : Redis!Held(r) /\ r \notin members =>
                      r \in orgIndex'[o].members /\ orgIndex'[o].until = orgIndex[o].until
    BY <1>4 DEF Redis!HeldOf
  <1>6. \A v \in Users :
               /\ userIndex'[v].members \subseteq userIndex[v].members
               /\ \A r \in userIndex[v].members : Redis!Held(r) /\ r \notin members =>
                      r \in userIndex'[v].members /\ userIndex'[v].until = userIndex[v].until
    BY NoIndexTyped DEF Redis!RevokeUser, Inv, Redis!TypeOK
  <1>7. userIndex' \in [Users -> Redis!Indexes] /\ orgIndex' \in [Orgs -> Redis!Indexes]
    BY <1>4, NoIndexTyped DEF Redis!RevokeUser, Inv, Redis!TypeOK
  <1>8. /\ now' = now /\ undrawn' = undrawn
        /\ payload' = [t \in Tokens |-> IF t \in members THEN NoSession ELSE payload[t]]
        /\ expiration' = [t \in Tokens |-> IF t \in members THEN 0 ELSE expiration[t]]
    BY DEF Redis!RevokeUser, Redis!Forget
  <1> QED BY <1>2, <1>3, <1>5, <1>6, <1>7, <1>8, ForgetInv

LEMMA RevokeOrgInv == ASSUME Inv, NEW o \in Orgs, Redis!RevokeOrg(o) PROVE Inv'
  <1> DEFINE members == orgIndex[o].members
             Gone(u) == {t \in Redis!HeldOf(members) : payload[t].user = u}
  <1>1. <<"revokeOrg", o>> \in Redis!Calls
    BY DEF Redis!Calls
  <1>2. members \subseteq Tokens /\ Redis!HeldOf(members) \in SUBSET Tokens
    BY DEF Inv, Redis!TypeOK, Redis!Indexes, Redis!HeldOf
  <1>3. redisAnswer' \in Redis!Answers
    BY <1>1, <1>2, ReplyTyped DEF Redis!RevokeOrg, Redis!Forget
  <1>4. \A u \in Users : /\ Redis!Zrem(userIndex[u], Gone(u)) \in Redis!Indexes
                         /\ userIndex'[u].members = userIndex[u].members \ Gone(u)
                         /\ \A t \in userIndex[u].members \ Gone(u) :
                                userIndex'[u].until = userIndex[u].until
    BY <1>2, ZremKeeps DEF Redis!RevokeOrg, Inv, Redis!TypeOK
  <1>5. \A u \in Users :
               /\ userIndex'[u].members \subseteq userIndex[u].members
               /\ \A r \in userIndex[u].members : Redis!Held(r) /\ r \notin members =>
                      r \in userIndex'[u].members /\ userIndex'[u].until = userIndex[u].until
    BY <1>4 DEF Redis!HeldOf
  <1>6. \A v \in Orgs :
               /\ orgIndex'[v].members \subseteq orgIndex[v].members
               /\ \A r \in orgIndex[v].members : Redis!Held(r) /\ r \notin members =>
                      r \in orgIndex'[v].members /\ orgIndex'[v].until = orgIndex[v].until
    BY NoIndexTyped DEF Redis!RevokeOrg, Inv, Redis!TypeOK
  <1>7. userIndex' \in [Users -> Redis!Indexes] /\ orgIndex' \in [Orgs -> Redis!Indexes]
    BY <1>4, NoIndexTyped DEF Redis!RevokeOrg, Inv, Redis!TypeOK
  <1>8. /\ now' = now /\ undrawn' = undrawn
        /\ payload' = [t \in Tokens |-> IF t \in members THEN NoSession ELSE payload[t]]
        /\ expiration' = [t \in Tokens |-> IF t \in members THEN 0 ELSE expiration[t]]
    BY DEF Redis!RevokeOrg, Redis!Forget
  <1> QED BY <1>2, <1>3, <1>5, <1>6, <1>7, <1>8, ForgetInv

LEMMA CleanupInv == ASSUME Inv, Redis!Cleanup PROVE Inv'
  <1> USE DEF Inv, Redis!TypeOK, Redis!Held
  <1>1. <<"cleanup">> \in Redis!Calls
    BY DEF Redis!Calls
  <1>2. redisAnswer' \in Redis!Answers
    BY <1>1, ReplyTyped DEF Redis!Cleanup, Redis!Due
  <1>3. /\ UNCHANGED <<now, undrawn, payload, userIndex, orgIndex>>
        /\ \A t \in Tokens : expiration'[t] = IF t \in Redis!Due THEN 0 ELSE expiration[t]
        /\ expiration' \in [Tokens -> Nat]
    BY DEF Redis!Cleanup
  <1>4. \A t \in Tokens : /\ expiration'[t] \in {0, expiration[t]}
                          /\ expiration[t] > now => expiration'[t] = expiration[t]
    BY <1>3 DEF Redis!Due
  <1>5. Redis!TypeOK'
    BY <1>2, <1>3
  <1>6. Redis!Indexed'
    BY <1>3, <1>4 DEF Redis!Indexed, Redis!Sessions
  <1>7. Redis!NothingStray' /\ Unused' /\ Timed'
    BY <1>3, <1>4 DEF Redis!NothingStray, Unused, Timed
  <1> QED BY <1>5, <1>6, <1>7

LEMMA NextInv == Inv /\ [Redis!Next]_(Redis!vars) => Inv'
  <1> SUFFICES ASSUME Inv, [Redis!Next]_(Redis!vars) PROVE Inv'
    OBVIOUS
  <1>1. CASE Redis!Tick
    BY <1>1, TickInv
  <1>2. ASSUME NEW t \in Tokens, NEW u \in Users, NEW o \in Orgs, NEW life \in Lifetimes,
               Redis!Create(t, u, o, life)
        PROVE  Inv'
    BY <1>2, CreateInv
  <1>3. ASSUME NEW t \in Tokens, Redis!Read(t) PROVE Inv'
    BY <1>3, ReadInv
  <1>4. ASSUME NEW t \in Tokens, Redis!RevokeSession(t) PROVE Inv'
    BY <1>4, RevokeSessionInv
  <1>5. ASSUME NEW u \in Users, Redis!RevokeUser(u) PROVE Inv'
    BY <1>5, RevokeUserInv
  <1>6. ASSUME NEW o \in Orgs, Redis!RevokeOrg(o) PROVE Inv'
    BY <1>6, RevokeOrgInv
  <1>7. CASE Redis!Cleanup
    BY <1>7, CleanupInv
  <1>8. CASE Redis!Count
    BY <1>8, CountInv
  <1>9. CASE UNCHANGED Redis!vars
    BY <1>9 DEF Redis!vars, Redis!stored, Inv, Redis!TypeOK, Redis!Indexed,
       Redis!NothingStray, Unused, Timed, Redis!Held
  <1> QED BY <1>1, <1>2, <1>3, <1>4, <1>5, <1>6, <1>7, <1>8, <1>9 DEF Redis!Next

LEMMA InvHolds == Redis!Spec => []Inv
  BY InitInv, NextInv, PTL DEF Redis!Spec

-----------------------------------------------------------------------------
(* Every step is a step of the contract.                                   *)

LEMMA InitMaps == Redis!Init => Redis!Contract!Init
  BY DEF Redis!Init, Redis!Contract!Init, Redis!Reply, Redis!Contract!Reply

\* Forgetting a set of sessions and counting those held there.
LEMMA EndMaps ==
    ASSUME Inv, NEW call, NEW T \in SUBSET Tokens,
           payload' = [t \in Tokens |-> IF t \in T THEN NoSession ELSE payload[t]],
           redisAnswer' = Redis!Reply(call, NoSession, Redis!HeldOf(T)),
           UNCHANGED <<now, undrawn>>
    PROVE  Redis!Contract!End(call, Redis!HeldOf(T))
  <1>1. /\ Redis!HeldOf(T) \in SUBSET (Tokens \ undrawn)
        /\ payload' = [t \in Tokens |-> IF t \in Redis!HeldOf(T) THEN NoSession ELSE payload[t]]
    BY DEF Redis!HeldOf, Redis!Held, Inv, Unused
  <1>2. redisAnswer' = Redis!Contract!Reply(call, NoSession, Redis!HeldOf(T))
    BY DEF Redis!Reply, Redis!Contract!Reply
  <1> QED BY <1>1, <1>2 DEF Redis!Contract!End

LEMMA RevokeSessionMaps ==
    ASSUME Inv, NEW t \in Tokens, Redis!RevokeSession(t)
    PROVE  Redis!Contract!RevokeSession(t)
  <1>1. /\ Redis!HeldOf({t}) \in SUBSET (Tokens \ undrawn)
        /\ \A r \in {t} : Redis!Contract!Live(r) => r \in Redis!HeldOf({t})
        /\ Redis!HeldOf({t}) \subseteq {t}
    BY DEF Redis!HeldOf, Redis!Held, Inv, Unused, Redis!Contract!Live, Redis!Contract!Stands
  <1>2. /\ payload' = [r \in Tokens |-> IF r \in {t} THEN NoSession ELSE payload[r]]
        /\ redisAnswer' = Redis!Contract!Reply(<<"revoke", t>>, NoSession, Redis!HeldOf({t}))
        /\ UNCHANGED <<now, undrawn>>
    BY DEF Redis!RevokeSession, Inv, Redis!TypeOK, Redis!Reply, Redis!Contract!Reply
  <1> QED BY <1>1, <1>2 DEF Redis!Contract!RevokeSession, Redis!Contract!End

LEMMA RevokeUserMaps ==
    ASSUME Inv, NEW u \in Users, Redis!RevokeUser(u) PROVE Redis!Contract!RevokeUser(u)
  <1>1. userIndex[u].members \in SUBSET Tokens
    BY DEF Inv, Redis!TypeOK, Redis!Indexes
  <1>2. Redis!Contract!End(<<"revokeUser", u>>, Redis!HeldOf(userIndex[u].members))
    BY <1>1, EndMaps DEF Redis!RevokeUser, Redis!Forget
  <1>3. Redis!HeldOf(userIndex[u].members) = {t \in Tokens : Redis!Contract!Stands(t) /\ payload[t].user = u}
    BY IndexFinds DEF Redis!Contract!Stands, Redis!Held
  <1> QED BY <1>2, <1>3 DEF Redis!Contract!RevokeUser

LEMMA RevokeOrgMaps ==
    ASSUME Inv, NEW o \in Orgs, Redis!RevokeOrg(o) PROVE Redis!Contract!RevokeOrg(o)
  <1>1. orgIndex[o].members \in SUBSET Tokens
    BY DEF Inv, Redis!TypeOK, Redis!Indexes
  <1>2. Redis!Contract!End(<<"revokeOrg", o>>, Redis!HeldOf(orgIndex[o].members))
    BY <1>1, EndMaps DEF Redis!RevokeOrg, Redis!Forget
  <1>3. Redis!HeldOf(orgIndex[o].members) = {t \in Tokens : Redis!Contract!Stands(t) /\ payload[t].org = o}
    BY IndexFinds DEF Redis!Contract!Stands, Redis!Held
  <1> QED BY <1>2, <1>3 DEF Redis!Contract!RevokeOrg

\* A cleanup takes entries of dead sessions only.
LEMMA CleanupMaps == ASSUME Inv, Redis!Cleanup PROVE Redis!Contract!Cleanup
  <1>1. /\ Redis!Due \in SUBSET (Tokens \ undrawn)
        /\ \A t \in Redis!Due : ~Redis!Contract!Live(t)
    BY DEF Redis!Due, Inv, Redis!TypeOK, Redis!Indexed, Unused, Redis!Held, Redis!Sessions,
       Redis!Contract!Live, Redis!Contract!Stands
  <1>2. /\ payload' = [t \in Tokens |-> IF t \in {} THEN NoSession ELSE payload[t]]
        /\ redisAnswer' = Redis!Contract!Reply(<<"cleanup">>, NoSession, Redis!Due)
        /\ UNCHANGED <<now, undrawn>>
    BY DEF Redis!Cleanup, Inv, Redis!TypeOK, Redis!Reply, Redis!Contract!Reply
  <1> QED BY <1>1, <1>2 DEF Redis!Contract!Cleanup, Redis!Contract!End

\* The scores still to come are those of the live sessions.
LEMMA CountMaps == ASSUME Inv, Redis!Count PROVE Redis!Contract!Count
  <1> DEFINE Scored == {t \in Tokens : expiration[t] > now}
  <1>1. /\ \A t \in Tokens : Redis!Contract!Live(t) => t \in Scored
        /\ \A t \in Scored : Redis!Contract!Stands(t)
    BY DEF Inv, Redis!TypeOK, Redis!Indexed, Redis!NothingStray, Redis!Held, Redis!Sessions,
       Redis!Contract!Live, Redis!Contract!Stands
  <1>2. /\ redisAnswer' = Redis!Contract!Reply(<<"count">>, NoSession, Scored)
        /\ UNCHANGED <<now, undrawn, payload>>
    BY DEF Redis!Count, Redis!stored, Redis!Reply, Redis!Contract!Reply
  <1> QED BY <1>1, <1>2 DEF Redis!Contract!Count

LEMMA StepMaps == Inv /\ [Redis!Next]_(Redis!vars) => [Redis!Contract!Next]_(Redis!Contract!vars)
  <1> SUFFICES ASSUME Inv, [Redis!Next]_(Redis!vars) PROVE Redis!Contract!Next \/ UNCHANGED Redis!Contract!vars
    OBVIOUS
  <1>1. CASE Redis!Tick
    <2>1. Redis!Contract!Tick
      BY <1>1 DEF Redis!Tick, Redis!Contract!Tick, Redis!Contract!Stands, Redis!Held
    <2> QED BY <2>1 DEF Redis!Contract!Next
  <1>2. ASSUME NEW t \in Tokens, NEW u \in Users, NEW o \in Orgs, NEW life \in Lifetimes,
               Redis!Create(t, u, o, life)
        PROVE  Redis!Contract!Next
    <2>1. Redis!Contract!Create(t, u, o, life)
      BY <1>2 DEF Redis!Create, Redis!Contract!Create, Redis!Reply, Redis!Contract!Reply
    <2> QED BY <2>1 DEF Redis!Contract!Next
  <1>3. ASSUME NEW t \in Tokens, Redis!Read(t) PROVE Redis!Contract!Next
    <2>1. Redis!Contract!Read(t)
      BY <1>3 DEF Redis!Read, Redis!Contract!Read, Redis!Contract!Live,
         Redis!Contract!Stands, Redis!Held, Redis!stored,
         Inv, Redis!TypeOK, Redis!Sessions, Redis!Reply, Redis!Contract!Reply
    <2> QED BY <2>1 DEF Redis!Contract!Next
  <1>4. ASSUME NEW t \in Tokens, Redis!RevokeSession(t) PROVE Redis!Contract!Next
    BY <1>4, RevokeSessionMaps DEF Redis!Contract!Next
  <1>5. ASSUME NEW u \in Users, Redis!RevokeUser(u) PROVE Redis!Contract!Next
    BY <1>5, RevokeUserMaps DEF Redis!Contract!Next
  <1>6. ASSUME NEW o \in Orgs, Redis!RevokeOrg(o) PROVE Redis!Contract!Next
    BY <1>6, RevokeOrgMaps DEF Redis!Contract!Next
  <1>7. CASE Redis!Cleanup
    BY <1>7, CleanupMaps DEF Redis!Contract!Next
  <1>8. CASE Redis!Count
    BY <1>8, CountMaps DEF Redis!Contract!Next
  <1>9. CASE UNCHANGED Redis!vars
    BY <1>9 DEF Redis!vars, Redis!stored, Redis!Contract!vars
  <1> QED BY <1>1, <1>2, <1>3, <1>4, <1>5, <1>6, <1>7, <1>8, <1>9 DEF Redis!Next

-----------------------------------------------------------------------------
(* The theorems.                                                           *)

\* The store's variables keep their types (authProvider.ts:238-526).
THEOREM TypeCorrect == Redis!Spec => []Redis!TypeOK
  <1>1. Inv => Redis!TypeOK
    BY DEF Inv
  <1> QED BY <1>1, InvHolds, PTL

\* The indexes of a session's user and organization outlive its payload, so
\* that a revocation finds it (authProvider.ts:325-329).
THEOREM IndexesOutlive == Redis!Spec => []Redis!Indexed
  <1>1. Inv => Redis!Indexed
    BY DEF Inv
  <1> QED BY <1>1, InvHolds, PTL

\* Every behaviour of the Redis store is one the contract allows, whatever
\* the numbers of sessions, users, organizations and lifetimes.
THEOREM RedisImplementsContract == Redis!Spec => Redis!Contract!Spec
  BY InitMaps, InvHolds, StepMaps, PTL DEF Redis!Spec, Redis!Contract!Spec

-----------------------------------------------------------------------------
(* The two stores side by side.                                            *)

\* What both stores do at once is done by Redis.
LEMMA StoresRunRedis ==
    ASSUME [Next]_vars
    PROVE  [Redis!Next]_(Redis!vars)
  <1>1. CASE UNCHANGED vars
    BY <1>1 DEF vars, Redis!vars, Redis!stored
  <1>2. CASE Next
    BY <1>2 DEF Next, Create, Read, RevokeSession, RevokeUser, RevokeOrg, Redis!Next
  <1> QED
    BY <1>1, <1>2

\* Beside the map, too, the Redis store keeps the contract.
THEOREM RedisKeepsIt == Spec => RedisKeepsContract
  <1>1. Init => Redis!Init
    BY DEF Init
  <1>2. Spec => Redis!Spec
    BY <1>1, StoresRunRedis, PTL DEF Spec, Redis!Spec
  <1> QED BY <1>2, RedisImplementsContract, PTL DEF RedisKeepsContract

-----------------------------------------------------------------------------
(* The map.                                                                *)

\* The map holds sessions, and none under a token not drawn yet.
MapInv ==
    /\ now \in Nat /\ undrawn \subseteq Tokens
    /\ sessions \in [Tokens -> Sessions \cup {NoSession}]
    /\ \A t \in undrawn : sessions[t] = NoSession

LEMMA MapInitially == Init => MapInv
  BY DEF Init, Memory!Init, MapInv

LEMMA MapStep ==
    ASSUME MapInv, [Next]_(vars)
    PROVE  MapInv'
  <1> USE DEF MapInv
  <1>1. CASE Memory!Tick
    BY <1>1 DEF Memory!Tick
  <1>2. ASSUME NEW t \in Tokens, NEW u \in Users, NEW o \in Orgs, NEW life \in Lifetimes,
               Memory!Create(t, u, o, life)
        PROVE  MapInv'
    <2>1. [user |-> u, org |-> o, expires |-> now + life] \in Sessions
      BY LifetimesAssumption DEF Sessions
    <2> QED BY <1>2, <2>1 DEF Memory!Create
  <1>3. ASSUME NEW T, Memory!Drop(T), UNCHANGED <<now, undrawn>>
        PROVE  MapInv'
    BY <1>3 DEF Memory!Drop
  <1>4. CASE Memory!Count \/ UNCHANGED vars
    BY <1>4 DEF Memory!Count, vars
  <1> QED
    BY <1>1, <1>2, <1>3, <1>4
       DEF Next, Create, Read, RevokeSession,
           RevokeUser, RevokeOrg, Memory!Read,
           Memory!DropAndCount, Memory!RevokeSession,
           Memory!RevokeUser, Memory!RevokeOrg, Memory!Cleanup

LEMMA MapInvariant == Spec => []MapInv
  BY MapInitially, MapStep, PTL DEF Spec

\* What the contract sees of the map: the sessions that have not expired.
LEMMA MapStands ==
    /\ \A t \in Tokens :
         Memory!Standing[t] = IF Memory!Expired(t) THEN NoSession ELSE sessions[t]
    /\ \A t \in Tokens :
         (Memory!Standing[t])' =
             IF sessions'[t] # NoSession /\ sessions'[t].expires < now'
             THEN NoSession ELSE sessions'[t]
  BY DEF Memory!Standing, Memory!Expired, Memory!Kept

\* Dropping sessions from the map, and counting some, ends those that stood:
\* of the live ones exactly those that were counted.
LEMMA MapEnds ==
    ASSUME MapInv, NEW call, NEW T \in SUBSET Tokens, NEW D \in SUBSET Tokens,
           NEW S \in SUBSET Tokens,
           Memory!Drop(D), memoryAnswer' = Memory!Reply(call, NoSession, S),
           UNCHANGED <<now, undrawn>>,
           \A t \in S : Memory!Kept(t),
           \A t \in Tokens : Memory!Kept(t) /\ ~Memory!Expired(t) =>
               (t \in T <=> t \in D) /\ (t \in S <=> t \in T)
    PROVE  Memory!Contract!End(call, T)
  <1> DEFINE standing == Memory!Standing
  <1>1. standing' = [t \in Tokens |-> IF t \in T THEN NoSession ELSE standing[t]]
    <2>1. \A t \in Tokens : sessions'[t] = IF t \in D THEN NoSession ELSE sessions[t]
      BY DEF Memory!Drop
    <2>2. \A t \in Tokens :
            (IF sessions'[t] # NoSession /\ sessions'[t].expires < now'
             THEN NoSession ELSE sessions'[t])
            = IF t \in T THEN NoSession
              ELSE IF Memory!Expired(t) THEN NoSession ELSE sessions[t]
      BY <2>1 DEF Memory!Expired, Memory!Kept
    <2> QED BY <2>2 DEF Memory!Standing, Memory!Expired, Memory!Kept
  <1>2. S \in SUBSET (Tokens \ undrawn)
    BY DEF MapInv, Memory!Kept
  <1>3. /\ \A t \in T : Memory!Contract!Live(t) => t \in S
        /\ \A t \in S : Memory!Contract!Live(t) => t \in T
    BY MapStands DEF Memory!Contract!Live, Memory!Contract!Stands,
       Memory!Kept
  <1>4. memoryAnswer' = Memory!Contract!Reply(call, NoSession, S)
    BY DEF Memory!Reply, Memory!Contract!Reply
  <1> QED BY <1>1, <1>2, <1>3, <1>4 DEF Memory!Contract!End

LEMMA MapTickMaps ==
    ASSUME MapInv, Memory!Tick
    PROVE  Memory!Contract!Tick
  <1>1. now' = now + 1 /\ now < LastTick /\ UNCHANGED <<undrawn, memoryAnswer, sessions>>
    BY DEF Memory!Tick
  <1>2. \A t \in Tokens :
          (IF sessions[t] # NoSession /\ sessions[t].expires < now' THEN NoSession ELSE sessions[t])
          = LET s == IF sessions[t] # NoSession /\ sessions[t].expires < now
                     THEN NoSession ELSE sessions[t]
            IN IF s # NoSession /\ s.expires < now' THEN NoSession ELSE s
    BY <1>1 DEF MapInv, Sessions
  <1> QED
    BY <1>1, <1>2 DEF Memory!Contract!Tick, Memory!Contract!Stands,
       Memory!Standing, Memory!Expired, Memory!Kept

LEMMA MapCreateMaps ==
    ASSUME MapInv, NEW t \in Tokens, NEW u \in Users, NEW o \in Orgs, NEW life \in Lifetimes,
           Memory!Create(t, u, o, life)
    PROVE  Memory!Contract!Create(t, u, o, life)
  <1> DEFINE s == [user |-> u, org |-> o, expires |-> now + life]
             standing == Memory!Standing
  <1>1. s.expires = now + life /\ ~(s.expires < now)
    BY LifetimesAssumption DEF MapInv
  <1>2. sessions'[t] = s /\ \A r \in Tokens : r # t => sessions'[r] = sessions[r]
    BY DEF Memory!Create, MapInv
  <1>3. now' = now
    BY DEF Memory!Create
  <1> HIDE DEF s
  <1>4. standing' = [standing EXCEPT ![t] = s]
    BY <1>1, <1>2, <1>3 DEF Memory!Standing, Memory!Expired, Memory!Kept
  <1> QED
    BY <1>3, <1>4 DEF Memory!Create, Memory!Contract!Create,
       Memory!Reply, Memory!Contract!Reply, s

LEMMA MapReadMaps ==
    ASSUME MapInv, NEW t \in Tokens, Memory!Read(t)
    PROVE  Memory!Contract!Read(t)
  <1> DEFINE standing == Memory!Standing
  <1>1. /\ \A r \in Tokens : sessions'[r] =
              IF r = t /\ Memory!Expired(r) THEN NoSession ELSE sessions[r]
        /\ UNCHANGED <<now, undrawn>>
    BY DEF Memory!Read, Memory!Drop
  <1>2. standing' = standing
    BY <1>1 DEF Memory!Standing, Memory!Expired, Memory!Kept
  <1>3. memoryAnswer' = Memory!Contract!Reply(<<"read", t>>, standing[t], {})
    BY MapStands DEF Memory!Read, Memory!Reply, Memory!Contract!Reply
  <1> QED BY <1>1, <1>2, <1>3 DEF Memory!Contract!Read

LEMMA MapRevokesMap ==
    ASSUME MapInv
    PROVE  /\ \A t \in Tokens :
                Memory!RevokeSession(t) => Memory!Contract!RevokeSession(t)
           /\ \A u \in Users :
                Memory!RevokeUser(u) => Memory!Contract!RevokeUser(u)
           /\ \A o \in Orgs :
                Memory!RevokeOrg(o) => Memory!Contract!RevokeOrg(o)
  <1> USE DEF Memory!DropAndCount
  <1>1. ASSUME NEW t \in Tokens, Memory!RevokeSession(t)
        PROVE  Memory!Contract!RevokeSession(t)
    <2> DEFINE D == {t} \cap {r \in Tokens : Memory!Kept(r)}
    <2>1. /\ Memory!Drop(D)
          /\ memoryAnswer' = Memory!Reply(<<"revoke", t>>, NoSession, D)
          /\ UNCHANGED <<now, undrawn>>
      BY <1>1 DEF Memory!RevokeSession
    <2>2. Memory!Contract!End(<<"revoke", t>>, {t})
      BY <2>1, MapEnds
    <2> QED BY <2>2 DEF Memory!Contract!RevokeSession
  <1>2. ASSUME NEW u \in Users, Memory!RevokeUser(u)
        PROVE  Memory!Contract!RevokeUser(u)
    <2> DEFINE D == {t \in Tokens : Memory!Kept(t) /\ sessions[t].user = u}
               T == {t \in Tokens : Memory!Contract!Stands(t)
                                     /\ Memory!Standing[t].user = u}
    <2>1. /\ Memory!Drop(D)
          /\ memoryAnswer' = Memory!Reply(<<"revokeUser", u>>, NoSession, D)
          /\ UNCHANGED <<now, undrawn>>
      BY <1>2 DEF Memory!RevokeUser
    <2>2. \A t \in Tokens : Memory!Kept(t) /\ ~Memory!Expired(t) =>
            (t \in T <=> t \in D)
      BY MapStands DEF Memory!Kept, Memory!Contract!Stands
    <2>3. Memory!Contract!End(<<"revokeUser", u>>, T)
      BY <2>1, <2>2, MapEnds
    <2> QED BY <2>3 DEF Memory!Contract!RevokeUser
  <1>3. ASSUME NEW o \in Orgs, Memory!RevokeOrg(o)
        PROVE  Memory!Contract!RevokeOrg(o)
    <2> DEFINE D == {t \in Tokens : Memory!Kept(t) /\ sessions[t].org = o}
               T == {t \in Tokens : Memory!Contract!Stands(t)
                                     /\ Memory!Standing[t].org = o}
    <2>1. /\ Memory!Drop(D)
          /\ memoryAnswer' = Memory!Reply(<<"revokeOrg", o>>, NoSession, D)
          /\ UNCHANGED <<now, undrawn>>
      BY <1>3 DEF Memory!RevokeOrg
    <2>2. \A t \in Tokens : Memory!Kept(t) /\ ~Memory!Expired(t) =>
            (t \in T <=> t \in D)
      BY MapStands DEF Memory!Kept, Memory!Contract!Stands
    <2>3. Memory!Contract!End(<<"revokeOrg", o>>, T)
      BY <2>1, <2>2, MapEnds
    <2> QED BY <2>3 DEF Memory!Contract!RevokeOrg
  <1> QED BY <1>1, <1>2, <1>3

\* A cleanup takes sessions that stand no longer, and counts them.
LEMMA MapCleanupMaps ==
    ASSUME MapInv, Memory!Cleanup
    PROVE  Memory!Contract!Cleanup
  <1> DEFINE D == {t \in Tokens : Memory!Expired(t)}
  <1>1. /\ Memory!Drop(D)
        /\ memoryAnswer' = Memory!Reply(<<"cleanup">>, NoSession, D)
        /\ UNCHANGED <<now, undrawn>>
    BY DEF Memory!Cleanup, Memory!DropAndCount
  <1>2. \A t \in D : Memory!Kept(t)
    BY DEF Memory!Expired
  <1>3. Memory!Contract!End(<<"cleanup">>, {})
    BY <1>1, <1>2, MapEnds
  <1> QED BY <1>3 DEF Memory!Contract!Cleanup

LEMMA MapCountMaps ==
    ASSUME MapInv, Memory!Count
    PROVE  Memory!Contract!Count
  <1> DEFINE S == {t \in Tokens : Memory!Kept(t) /\ ~Memory!Expired(t)}
             standing == Memory!Standing
  <1>1. \A t \in Tokens : t \in S <=> Memory!Contract!Stands(t)
    BY MapStands DEF Memory!Contract!Stands, Memory!Kept
  <1>2. \A t \in Tokens : Memory!Contract!Live(t) => t \in S
    BY <1>1 DEF Memory!Contract!Live
  <1>3. UNCHANGED <<now, undrawn, sessions>> /\ standing' = standing
    BY DEF Memory!Count, Memory!Standing, Memory!Expired,
       Memory!Kept
  <1>4. memoryAnswer' = Memory!Contract!Reply(<<"count">>, NoSession, S)
    BY DEF Memory!Count, Memory!Reply, Memory!Contract!Reply
  <1> QED BY <1>1, <1>2, <1>3, <1>4 DEF Memory!Contract!Count

LEMMA MapStartMaps == Init => Memory!Contract!Init
  BY DEF Init, Memory!Init, Memory!Contract!Init,
     Memory!Reply, Memory!Contract!Reply,
     Memory!Standing, Memory!Expired, Memory!Kept

LEMMA MapStepMaps ==
    ASSUME MapInv, [Next]_(vars)
    PROVE  [Memory!Contract!Next]_(Memory!Contract!vars)
  <1>1. CASE UNCHANGED vars
    BY <1>1 DEF vars, Memory!Contract!vars, Memory!Standing,
       Memory!Expired, Memory!Kept
  <1>2. CASE Next
    BY <1>2, MapTickMaps, MapCreateMaps, MapReadMaps, MapRevokesMap, MapCleanupMaps,
       MapCountMaps
       DEF Next, Create, Read, RevokeSession,
           RevokeUser, RevokeOrg, Memory!Contract!Next
  <1> QED BY <1>1, <1>2

\* The map keeps the contract as well, although an expired session stays in it
\* until somebody meets it (authProvider.ts:106-176).
THEOREM MapKeepsIt == Spec => MemoryKeepsContract
  BY MapInvariant, MapStartMaps, MapStepMaps, PTL
     DEF Spec, MemoryKeepsContract, Memory!Contract!Spec


=============================================================================
