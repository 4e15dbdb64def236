----------------------------- MODULE SessionData -----------------------------
(***************************************************************************)
(* The session records, the operations of ISessionStore and their answers  *)
(* (auth/authProvider.ts), common to the contract and to its two adapters. *)
(* Left out of a record: names, role, permissions and activity time.       *)
(***************************************************************************)
EXTENDS Integers

CONSTANTS
    Tokens,       \* session tokens; each is drawn at most once
    Users,
    Orgs,
    Lifetimes,    \* the session lifetimes callers ask for, in ticks
    NoSession,    \* stands for "undefined"
    LastTick      \* bound: the clock stops here

Sessions == [user : Users, org : Orgs, expires : Nat]

ASSUME LifetimesAssumption == Lifetimes \subseteq Nat \ {0}
ASSUME LastTickAssumption == LastTick \in Nat
ASSUME NoSessionAssumption == NoSession \notin Sessions

\* The operation that was called, the session it returned, and, for an
\* operation that returns a number, the sessions it counted.
Calls ==
    {<<"create", t>> : t \in Tokens} \cup {<<"read", t>> : t \in Tokens}
    \cup {<<"revoke", t>> : t \in Tokens} \cup {<<"revokeUser", u>> : u \in Users}
    \cup {<<"revokeOrg", o>> : o \in Orgs} \cup {<<"cleanup">>, <<"count">>, <<>>}

Answers == [call : Calls, session : Sessions \cup {NoSession}, counted : SUBSET Tokens]

Reply(call, s, T) == [call |-> call, session |-> s, counted |-> T]

=============================================================================
