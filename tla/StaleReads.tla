----------------------------- MODULE StaleReads -----------------------------
(***************************************************************************)
(* What a cached function (backend/caching.py) promises to those who call   *)
(* it, with no cache, key, lock or entry in sight: a call is answered with  *)
(* what its own function gives for its own arguments, as the marts were at  *)
(* some moment not too long ago, or with an error.                          *)
(***************************************************************************)
EXTENDS Integers, Sequences

CONSTANTS
    Readers,
    Calls,      \* a function and its arguments
    MaxStale    \* for how long an answer may lack a rebuild of the marts

VARIABLES
    now,
    publishedAt,   \* when each version of the marts was published
    pending,       \* the calls each reader waits for an answer to: one or none
    answered       \* the answer each reader has since: one or none

vars == <<now, publishedAt, pending, answered>>

Version == Len(publishedAt)

\* Some later version has been out for MaxStale.
Superseded(v) == \E w \in v + 1 .. Version : publishedAt[w] + MaxStale <= now

Init ==
    /\ now = 0
    /\ publishedAt = <<0>>
    /\ pending = [r \in Readers |-> {}]
    /\ answered = [r \in Readers |-> {}]

Ask(r) ==
    /\ pending[r] = {}
    /\ \E c \in Calls : pending' = [pending EXCEPT ![r] = {c}]
    /\ answered' = [answered EXCEPT ![r] = {}]
    /\ UNCHANGED <<now, publishedAt>>

AnswerWith(r, v) ==
    \E c \in pending[r] :
        /\ pending' = [pending EXCEPT ![r] = {}]
        /\ answered' = [answered EXCEPT ![r] = {[call |-> c, version |-> v]}]
        /\ UNCHANGED <<now, publishedAt>>

Answer(r) == \E v \in 1 .. Version : ~ Superseded(v) /\ AnswerWith(r, v)

\* Version 0 stands for an error.
Fail(r) == AnswerWith(r, 0)

Tick ==
    /\ now' = now + 1
    /\ UNCHANGED <<publishedAt, pending, answered>>

Publish ==
    /\ publishedAt' = Append(publishedAt, now)
    /\ UNCHANGED <<now, pending, answered>>

Next == Tick \/ Publish \/ \E r \in Readers : Ask(r) \/ Answer(r) \/ Fail(r)

Spec == Init /\ [][Next]_vars

=============================================================================
