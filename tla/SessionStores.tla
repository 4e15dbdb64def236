---------------------------- MODULE SessionStores ----------------------------
(***************************************************************************)
(* The two adapters of ISessionStore side by side: each operation is made  *)
(* of both at the same instant.  Local and test runs use the map,          *)
(* production requires Redis, and both have to keep one contract.          *)
(***************************************************************************)
EXTENDS SessionData

VARIABLES
    now, undrawn,                                              \* shared
    sessions, memoryAnswer,                                    \* the map
    payload, expiration, userIndex, orgIndex, redisAnswer      \* Redis

Memory == INSTANCE MemorySessions WITH answer <- memoryAnswer
Redis == INSTANCE RedisSessions WITH answer <- redisAnswer

vars == <<now, undrawn, sessions, memoryAnswer,
          payload, expiration, userIndex, orgIndex, redisAnswer>>

TypeOK == Redis!TypeOK

Init == Memory!Init /\ Redis!Init

Create ==
    \E t \in Tokens, u \in Users, o \in Orgs, life \in Lifetimes :
        Memory!Create(t, u, o, life) /\ Redis!Create(t, u, o, life)

Read == \E t \in Tokens : Memory!Read(t) /\ Redis!Read(t)
RevokeSession == \E t \in Tokens : Memory!RevokeSession(t) /\ Redis!RevokeSession(t)
RevokeUser == \E u \in Users : Memory!RevokeUser(u) /\ Redis!RevokeUser(u)
RevokeOrg == \E o \in Orgs : Memory!RevokeOrg(o) /\ Redis!RevokeOrg(o)

Next ==
    \/ Memory!Tick /\ Redis!Tick
    \/ Create
    \/ Read
    \/ RevokeSession
    \/ RevokeUser
    \/ RevokeOrg
    \/ Memory!Cleanup /\ Redis!Cleanup
    \/ Memory!Count /\ Redis!Count

Spec == Init /\ [][Next]_vars

-----------------------------------------------------------------------------

\* The Redis store keeps the contract: whatever the lifetimes and the order of
\* creations, revocations, cleanups and expiries, a revocation of a user or an
\* organization leaves none of its sessions, no session is lost before its
\* time, and the count of the expirations set is that of the live payloads
\* (authProvider.ts:319-331, 439-457, 476-493, 509-523).
RedisKeepsContract == Redis!Contract!Spec

\* So does the map, which drops expired sessions only when it meets them
\* (authProvider.ts:106-176).
MemoryKeepsContract == Memory!Contract!Spec

=============================================================================
