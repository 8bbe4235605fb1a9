----------------------------- MODULE QueryCache -----------------------------
(***************************************************************************)
(* backend/caching.py: the queries of one serving process behind one TTL    *)
(* cache each, called by the threads that run the request handlers, while   *)
(* the nightly job rebuilds the marts under them.                           *)
(*                                                                         *)
(* The lock covers the look-up and the store, not the query between them.   *)
(* The look-up reads the clock twice, once for `key in cache` and once for  *)
(* `cache[key]`, so it is two steps here.  cachetools.TTLCache is outside   *)
(* the repository and modelled from what the wrapper asks of it: entries    *)
(* that expire, at most MaxSize of them; which one makes room for another   *)
(* is left open, because nothing here relies on it.  Queries that differ    *)
(* only in the connection are the same call.                                *)
(***************************************************************************)
EXTENDS Integers, FiniteSets, Sequences

CONSTANTS
    Threads,
    Functions,    \* the cached functions, each with a cache of its own
    Arguments,    \* their arguments, the connection left out
    MaxSize,      \* maxsize
    Ttl,          \* ttl, in ticks
    MaxQuery,     \* how long a query may take (the service's request timeout)
    MaxTime, MaxVersion   \* bounds of the instance: the clock, the rebuilds

ASSUME CacheAssumption ==
    /\ MaxSize \in Nat \ {0} /\ Ttl \in Nat \ {0} /\ MaxQuery \in Nat
    /\ MaxTime \in Nat /\ MaxVersion \in Nat
    /\ "free" \notin Threads   \* the name of an open lock

VARIABLES
    now,          \* the timer
    publishedAt,  \* history: when each version of the marts was published
    cache,        \* each function's entries
    lock,         \* who holds each cache's lock
    pc,           \* where each thread is
    call,         \* the call it makes: function and arguments
    held,         \* the result it has computed, or looked up, for that call
    answer        \* what its last call returned, and when

vars == <<now, publishedAt, cache, lock, pc, call, held, answer>>
calls == [f : Functions, a : Arguments]

Version == Len(publishedAt)

\* What a query reads: the marts as they are at this moment.
Queried(c) == [of |-> c, version |-> Version, at |-> now]
Nothing    == [of |-> [f |-> "none", a |-> "none"], version |-> 0, at |-> 0]

Free == "free"
Returned(r) == [kind |-> "result", value |-> r, when |-> now]
Raised(e)   == [kind |-> e, value |-> Nothing, when |-> now]
Unanswered  == [kind |-> "none", value |-> Nothing, when |-> 0]

Init ==
    /\ now = 0
    /\ publishedAt = <<0>>
    /\ cache = [f \in Functions |-> {}]
    /\ lock = [f \in Functions |-> Free]
    /\ pc = [t \in Threads |-> "idle"]
    /\ call \in [Threads -> calls]
    /\ held = [t \in Threads |-> Nothing]
    /\ answer = [t \in Threads |-> Unanswered]

(* Mutant: one cache entry for all the arguments of a function. *)
KeyWithoutArguments(c) == "all"

\* The cache key of a call.
Key(c) == c.a

Live(e) == now < e.expires

(* Mutant: an entry never expires. *)
ExpiresNever == MaxTime + 1

\* When an entry that is stored now expires.
Expires == now + Ttl

\* What may stay beside one more entry: of a full cache, one has to go.
Kept(others) ==
    IF Cardinality(others) < MaxSize THEN {others}
                                     ELSE {others \ {e} : e \in others}

\* cache[key] = result: the expired entries go, and one under the same key.
Stored(s, key, result) ==
    {kept \cup {[key |-> key, value |-> result, expires |-> Expires]} :
        kept \in Kept({e \in s : Live(e) /\ e.key # key})}

Goto(t, from, to) == pc[t] = from /\ pc' = [pc EXCEPT ![t] = to]

\* A handler calls a cached function.
Call(t) ==
    /\ Goto(t, "idle", "lookup")
    /\ \E c \in calls : call' = [call EXCEPT ![t] = c]
    /\ answer' = [answer EXCEPT ![t] = Unanswered]
    /\ UNCHANGED <<now, publishedAt, cache, lock, held>>

LockFree(t) == lock[call[t].f] = Free

\* The entries under the key of a thread's call: one or none.
Found(t) == {e \in cache[call[t].f] : e.key = Key(call[t])}

Hit(t) == \E e \in Found(t) : Live(e)

(* Mutant: the look-up does not take the lock. *)
HitsUnlocked(t) ==
    /\ LockFree(t) /\ Hit(t)
    /\ Goto(t, "lookup", "get")
    /\ UNCHANGED <<now, publishedAt, cache, lock, call, held, answer>>

\* with lock: if key in cache, the lock is kept for the read that follows.
Hits(t) ==
    /\ LockFree(t) /\ Hit(t)
    /\ Goto(t, "lookup", "get")
    /\ lock' = [lock EXCEPT ![call[t].f] = t]
    /\ UNCHANGED <<now, publishedAt, cache, call, held, answer>>

\* The key is missing, or its entry has expired: the lock is given back.
Misses(t) ==
    /\ LockFree(t) /\ ~ Hit(t)
    /\ Goto(t, "lookup", "query")
    /\ UNCHANGED <<now, publishedAt, cache, lock, call, held, answer>>

(* Mutant: a KeyError leaves the lock behind. *)
GetItemKeepsLock(t) ==
    /\ Goto(t, "get", "idle")
    /\ \E e \in Found(t) :
          /\ answer' = [answer EXCEPT ![t] =
                            IF Live(e) THEN Returned(e.value) ELSE Raised("KeyError")]
          /\ lock' = IF Live(e) THEN [lock EXCEPT ![call[t].f] = Free] ELSE lock
    /\ UNCHANGED <<now, publishedAt, cache, call, held>>

\* return cache[key]: if the entry has expired since, cachetools raises
\* KeyError.
GetItem(t) ==
    /\ Goto(t, "get", "idle")
    /\ \E e \in Found(t) :
          answer' = [answer EXCEPT ![t] =
                         IF Live(e) THEN Returned(e.value) ELSE Raised("KeyError")]
    /\ lock' = [lock EXCEPT ![call[t].f] = Free]
    /\ UNCHANGED <<now, publishedAt, cache, call, held>>

\* result = fn(...), without the lock; several threads may do it at once.
Query(t) ==
    /\ Goto(t, "query", "store")
    /\ held' = [held EXCEPT ![t] = Queried(call[t])]
    /\ UNCHANGED <<now, publishedAt, cache, lock, call, answer>>

QueryFails(t) ==
    /\ Goto(t, "query", "idle")
    /\ answer' = [answer EXCEPT ![t] = Raised("error")]
    /\ UNCHANGED <<now, publishedAt, cache, lock, call, held>>

\* with lock: cache[key] = result.
Store(t) ==
    /\ LockFree(t)
    /\ Goto(t, "store", "idle")
    /\ \E s \in Stored(cache[call[t].f], Key(call[t]), held[t]) :
          cache' = [cache EXCEPT ![call[t].f] = s]
    /\ answer' = [answer EXCEPT ![t] = Returned(held[t])]
    /\ held' = [held EXCEPT ![t] = Nothing]
    /\ UNCHANGED <<now, publishedAt, lock, call>>

\* A query that has read the marts is back within MaxQuery ticks.
Tick ==
    /\ now < MaxTime
    /\ \A t \in Threads : pc[t] = "store" => now < held[t].at + MaxQuery
    /\ now' = now + 1
    /\ UNCHANGED <<publishedAt, cache, lock, pc, call, held, answer>>

\* The nightly transform has rebuilt the marts.
Publish ==
    /\ Version < MaxVersion
    /\ publishedAt' = Append(publishedAt, now)
    /\ UNCHANGED <<now, cache, lock, pc, call, held, answer>>

Step(t) ==
    \/ Call(t) \/ Hits(t) \/ Misses(t) \/ GetItem(t)
    \/ Query(t) \/ QueryFails(t) \/ Store(t)

Next == Tick \/ Publish \/ \E t \in Threads : Step(t)

Spec == Init /\ [][Next]_vars

-----------------------------------------------------------------------------
Results == [of : calls, version : 1 .. Version, at : 0 .. now]

TypeOK ==
    /\ now \in Nat
    /\ publishedAt \in Seq(0 .. now) \ {<<>>}
    /\ cache \in [Functions -> SUBSET [key : Arguments, value : Results,
                                       expires : Ttl .. now + Ttl]]
    /\ lock \in [Functions -> Threads \cup {Free}]
    /\ pc \in [Threads -> {"idle", "lookup", "get", "query", "store"}]
    /\ call \in [Threads -> calls]
    /\ held \in [Threads -> Results \cup {Nothing}]
    /\ answer \in [Threads -> [kind : {"none", "result", "error", "KeyError"},
                               value : Results \cup {Nothing},
                               when : 0 .. now]]

(* Whoever holds a cache's lock is about to read the entry it has found in  *)
(* that cache: a look-up never waits for another thread's slow query, and   *)
(* neither a failed query nor the KeyError of an entry that has just        *)
(* expired leaves the lock behind (backend/caching.py:66-71).               *)
LockIsBrief ==
    \A f \in Functions : lock[f] # Free =>
        pc[lock[f]] = "get" /\ call[lock[f]].f = f

(* The entry a thread has found is still there when it reads it: no other   *)
(* thread's store evicts or expires it in between (backend/caching.py:66).  *)
LockGuardsEntry ==
    \A t \in Threads : pc[t] = "get" => Found(t) # {}

(* A rebuild of the marts that is older than ttl and one query is never     *)
(* missing from an answer, although a slow query may store an older result  *)
(* over a newer one (backend/caching.py:44-71).                             *)
BoundedStaleness ==
    \A t \in Threads : answer[t].kind = "result" =>
        \A v \in (answer[t].value.version + 1) .. Version :
            publishedAt[v] > answer[t].when - Ttl - MaxQuery

(* Seen from the handlers, the cached functions are StaleReads: one call,   *)
(* one answer, of its own function and arguments, and never without a       *)
(* rebuild that has been out for ttl and one query.                         *)
PendingCall(t) == IF pc[t] = "idle" THEN {} ELSE {call[t]}

AnsweredCall(t) ==
    CASE answer[t].kind = "none" -> {}
      [] answer[t].kind = "result" ->
             {[call |-> answer[t].value.of, version |-> answer[t].value.version]}
      [] OTHER -> {[call |-> call[t], version |-> 0]}

Promise ==
    INSTANCE StaleReads WITH
        Readers <- Threads, Calls <- calls, MaxStale <- Ttl + MaxQuery,
        pending <- [t \in Threads |-> PendingCall(t)],
        answered <- [t \in Threads |-> AnsweredCall(t)]

KeepsPromise == Promise!Spec

(* backend/caching.py:10-11 says that a cache hit returns the cached        *)
(* object: no call would end in a KeyError.  The code does not do this: the *)
(* entry may expire between the two clock readings of one look-up.          *)
HitReturnsObject == \A t \in Threads : answer[t].kind # "KeyError"

=============================================================================
