-------------------------- MODULE QueryCache_proofs --------------------------
(***************************************************************************)
(* Theorems about QueryCache, for any number of threads, functions,         *)
(* arguments and entries, any ttl and any number of rebuilds.               *)
(***************************************************************************)
EXTENDS QueryCache, TLAPS

(* The rebuilds a result lacks were published after its query read the      *)
(* marts.                                                                   *)
Newest(r) == \A v \in r.version + 1 .. Version : publishedAt[v] >= r.at

(* What an entry holds is the result of its own call, and it expires ttl    *)
(* after a query that took no more than MaxQuery.                           *)
EntriesFresh ==
    \A f \in Functions : \A e \in cache[f] :
        /\ e.value.of = [f |-> f, a |-> e.key]
        /\ e.expires <= e.value.at + MaxQuery + Ttl
        /\ Newest(e.value)

HeldFresh ==
    \A t \in Threads : pc[t] = "store" =>
        /\ held[t] \in Results
        /\ held[t].of = call[t]
        /\ now <= held[t].at + MaxQuery
        /\ Newest(held[t])

AnswersFresh ==
    \A t \in Threads : answer[t].kind = "result" =>
        /\ answer[t].value \in Results
        /\ answer[t].value.of = call[t]
        /\ answer[t].when < answer[t].value.at + MaxQuery + Ttl
        /\ Newest(answer[t].value)

(* A thread between the look-up and the read holds its function's lock.     *)
LockHeld == \A t \in Threads : pc[t] = "get" => lock[call[t].f] = t

IInv ==
    /\ TypeOK /\ LockIsBrief /\ LockGuardsEntry
    /\ LockHeld /\ EntriesFresh /\ HeldFresh /\ AnswersFresh

-----------------------------------------------------------------------------
LEMMA InitIInv == Init => IInv
<1>1. ASSUME Init PROVE IInv
  <2>1. TypeOK
    BY <1>1, CacheAssumption DEF Init, TypeOK, Results, Nothing, Unanswered
  <2>2. LockIsBrief
    BY <1>1 DEF Init, LockIsBrief
  <2>3. LockGuardsEntry /\ LockHeld /\ EntriesFresh /\ HeldFresh /\ AnswersFresh
    BY <1>1 DEF Init, LockGuardsEntry, LockHeld, EntriesFresh, HeldFresh,
                AnswersFresh, Unanswered
  <2> QED BY <2>1, <2>2, <2>3 DEF IInv
<1> QED BY <1>1

(* A step that leaves the clock, the marts and the caches alone changes     *)
(* nothing about what is cached.                                            *)
LEMMA SameCaches ==
  ASSUME IInv, UNCHANGED <<now, publishedAt, cache>>
  PROVE  EntriesFresh' /\ Results' = Results
BY DEF IInv, EntriesFresh, Newest, Version, Results

(* A step of a thread that is not about to read an entry, and takes no      *)
(* lock, leaves the locks brief.                                            *)
LEMMA LocksStayBrief ==
  ASSUME IInv, NEW t \in Threads, NEW to, pc[t] # "get", lock' = lock,
         pc' = [pc EXCEPT ![t] = to],
         \A u \in Threads : u # t => call'[u] = call[u]
  PROVE  LockIsBrief'
<1> SUFFICES ASSUME NEW f \in Functions, lock[f] # Free
             PROVE  pc'[lock[f]] = "get" /\ call'[lock[f]].f = f
  BY DEF LockIsBrief
<1>1. lock[f] \in Threads /\ pc[lock[f]] = "get" /\ call[lock[f]].f = f
  BY DEF IInv, TypeOK, LockIsBrief
<1> QED BY <1>1 DEF IInv, TypeOK

LEMMA VersionType == IInv => Version \in Nat \ {0}
BY DEF IInv, TypeOK, Version

LEMMA CallIInv ==
  ASSUME IInv, NEW t \in Threads, Call(t)
  PROVE  IInv'
<1>1. EntriesFresh' /\ Results' = Results
  BY SameCaches DEF Call
<1>2. PICK c \in calls : call' = [call EXCEPT ![t] = c]
  BY DEF Call
<1>3. /\ pc' = [pc EXCEPT ![t] = "lookup"]
      /\ answer' = [answer EXCEPT ![t] = Unanswered]
      /\ UNCHANGED <<now, publishedAt, cache, lock, held>>
  BY DEF Call, Goto
<1>4. TypeOK'
  BY <1>1, <1>2, <1>3 DEF IInv, TypeOK, Unanswered
<1>5. LockIsBrief' /\ LockGuardsEntry' /\ LockHeld'
  <2>1. pc[t] # "get"
    BY DEF Call, Goto
  <2>2. LockIsBrief'
    BY <1>2, <1>3, <2>1, LocksStayBrief DEF IInv, TypeOK
  <2>3. LockGuardsEntry' /\ LockHeld'
    BY <1>2, <1>3 DEF IInv, TypeOK, LockGuardsEntry, LockHeld, Found, Key
  <2> QED BY <2>2, <2>3
<1>6. HeldFresh'
  BY <1>1, <1>2, <1>3 DEF IInv, TypeOK, HeldFresh, Newest, Version
<1>7. AnswersFresh'
  BY <1>1, <1>2, <1>3 DEF IInv, TypeOK, AnswersFresh, Newest, Version, Unanswered
<1> QED BY <1>1, <1>4, <1>5, <1>6, <1>7 DEF IInv

LEMMA HitsIInv ==
  ASSUME IInv, NEW t \in Threads, Hits(t)
  PROVE  IInv'
<1>1. EntriesFresh' /\ Results' = Results
  BY SameCaches DEF Hits
<1>2. /\ pc' = [pc EXCEPT ![t] = "get"]
      /\ lock' = [lock EXCEPT ![call[t].f] = t]
      /\ UNCHANGED <<now, publishedAt, cache, call, held, answer>>
      /\ lock[call[t].f] = Free
  BY DEF Hits, Goto, LockFree
<1>3. TypeOK'
  BY <1>1, <1>2 DEF IInv, TypeOK, calls
<1>4. LockGuardsEntry'
  BY <1>2 DEF Hits, Hit, IInv, TypeOK, LockGuardsEntry, Found, Key
<1>5. LockIsBrief' /\ LockHeld'
  BY <1>2, CacheAssumption DEF IInv, TypeOK, LockIsBrief, LockHeld, Free, calls
<1>6. HeldFresh' /\ AnswersFresh'
  BY <1>1, <1>2 DEF IInv, TypeOK, HeldFresh, AnswersFresh, Newest, Version
<1> QED BY <1>1, <1>3, <1>4, <1>5, <1>6 DEF IInv

LEMMA MissesIInv ==
  ASSUME IInv, NEW t \in Threads, Misses(t)
  PROVE  IInv'
<1>1. EntriesFresh' /\ Results' = Results
  BY SameCaches DEF Misses
<1>2. /\ pc' = [pc EXCEPT ![t] = "query"]
      /\ UNCHANGED <<now, publishedAt, cache, lock, call, held, answer>>
  BY DEF Misses, Goto
<1>3. TypeOK'
  BY <1>1, <1>2 DEF IInv, TypeOK
<1>4. LockIsBrief' /\ LockGuardsEntry' /\ LockHeld'
  <2>1. pc[t] # "get"
    BY DEF Misses, Goto
  <2>2. LockIsBrief'
    BY <1>2, <2>1, LocksStayBrief
  <2>3. LockGuardsEntry' /\ LockHeld'
    BY <1>2 DEF IInv, TypeOK, LockGuardsEntry, LockHeld, Found, Key
  <2> QED BY <2>2, <2>3
<1>5. HeldFresh' /\ AnswersFresh'
  BY <1>1, <1>2 DEF IInv, TypeOK, HeldFresh, AnswersFresh, Newest, Version
<1> QED BY <1>1, <1>3, <1>4, <1>5 DEF IInv

(* The entry that is read is its call's own, and in time if it is returned. *)
LEMMA GetItemIInv ==
  ASSUME IInv, NEW t \in Threads, GetItem(t)
  PROVE  IInv'
<1>1. EntriesFresh' /\ Results' = Results
  BY SameCaches DEF GetItem
<1>2. PICK e \in Found(t) :
          answer' = [answer EXCEPT ![t] =
                         IF Live(e) THEN Returned(e.value) ELSE Raised("KeyError")]
  BY DEF GetItem
<1>3. /\ pc[t] = "get"
      /\ pc' = [pc EXCEPT ![t] = "idle"]
      /\ lock' = [lock EXCEPT ![call[t].f] = Free]
      /\ UNCHANGED <<now, publishedAt, cache, call, held>>
  BY DEF GetItem, Goto
<1>4. /\ e \in cache[call[t].f]
      /\ e.value \in Results /\ e.expires \in Nat /\ e.key = call[t].a
      /\ call[t] \in calls
  BY CacheAssumption DEF IInv, TypeOK, Found, Key, calls
<1>5. TypeOK'
  BY <1>1, <1>2, <1>3, <1>4
     DEF IInv, TypeOK, Returned, Raised, Nothing, calls
<1>6. LockGuardsEntry'
  BY <1>3 DEF IInv, TypeOK, LockGuardsEntry, Found, Key
<1>7. LockIsBrief' /\ LockHeld'
  BY <1>3 DEF IInv, TypeOK, LockIsBrief, LockHeld, calls
<1>8. HeldFresh'
  BY <1>1, <1>3 DEF IInv, TypeOK, HeldFresh, Newest, Version
<1>9. e.value.of = call[t] /\ Newest(e.value)
      /\ e.expires <= e.value.at + MaxQuery + Ttl
  BY <1>4 DEF IInv, EntriesFresh, calls
<1>10. AnswersFresh'
  <2> SUFFICES ASSUME NEW u \in Threads, answer'[u].kind = "result"
               PROVE  /\ answer'[u].value \in Results
                      /\ answer'[u].value.of = call[u]
                      /\ answer'[u].when < answer'[u].value.at + MaxQuery + Ttl
                      /\ Newest(answer'[u].value)
    BY <1>1, <1>3 DEF AnswersFresh, Newest, Version
  <2>1. CASE u # t
    BY <1>2, <2>1 DEF IInv, TypeOK, AnswersFresh
  <2>2. CASE u = t
    <3>1. answer'[t] = Returned(e.value) /\ Live(e)
      BY <1>2, <2>2 DEF IInv, TypeOK, Raised
    <3>2. now < e.expires /\ now \in Nat /\ e.value.at \in Nat
      BY <1>4, <3>1 DEF Live, Results, IInv, TypeOK
    <3> QED BY <1>4, <1>9, <2>2, <3>1, <3>2, CacheAssumption DEF Returned
  <2> QED BY <2>1, <2>2
<1> QED BY <1>1, <1>5, <1>6, <1>7, <1>8, <1>10 DEF IInv

LEMMA QueryIInv ==
  ASSUME IInv, NEW t \in Threads, Query(t)
  PROVE  IInv'
<1>1. EntriesFresh' /\ Results' = Results
  BY SameCaches DEF Query
<1>2. /\ pc' = [pc EXCEPT ![t] = "store"]
      /\ held' = [held EXCEPT ![t] = Queried(call[t])]
      /\ UNCHANGED <<now, publishedAt, cache, lock, call, answer>>
  BY DEF Query, Goto
<1>3. Version \in Nat \ {0}
  BY VersionType
<1>4. Queried(call[t]) \in Results /\ Newest(Queried(call[t]))
  BY <1>3 DEF IInv, TypeOK, Queried, Results, Newest
<1>5. TypeOK'
  BY <1>1, <1>2, <1>4 DEF IInv, TypeOK
<1>6. LockIsBrief' /\ LockGuardsEntry' /\ LockHeld'
  <2>1. pc[t] # "get"
    BY DEF Query, Goto
  <2>2. LockIsBrief'
    BY <1>2, <2>1, LocksStayBrief
  <2>3. LockGuardsEntry' /\ LockHeld'
    BY <1>2 DEF IInv, TypeOK, LockGuardsEntry, LockHeld, Found, Key
  <2> QED BY <2>2, <2>3
<1>7. HeldFresh'
  <2> SUFFICES ASSUME NEW u \in Threads, pc'[u] = "store"
               PROVE  /\ held'[u] \in Results /\ held'[u].of = call[u]
                      /\ now <= held'[u].at + MaxQuery
                      /\ Newest(held'[u])
    BY <1>1, <1>2 DEF HeldFresh, Newest, Version
  <2>1. CASE u = t
    <3>1. held'[u] = Queried(call[t])
      BY <1>2, <2>1 DEF IInv, TypeOK
    <3>2. now <= Queried(call[t]).at + MaxQuery /\ Queried(call[t]).of = call[t]
      BY CacheAssumption DEF Queried, IInv, TypeOK
    <3> QED BY <1>4, <2>1, <3>1, <3>2
  <2>2. CASE u # t
    BY <1>2, <2>2 DEF IInv, TypeOK, HeldFresh
  <2> QED BY <2>1, <2>2
<1>8. AnswersFresh'
  BY <1>1, <1>2 DEF IInv, AnswersFresh, Newest, Version
<1> QED BY <1>1, <1>5, <1>6, <1>7, <1>8 DEF IInv

LEMMA QueryFailsIInv ==
  ASSUME IInv, NEW t \in Threads, QueryFails(t)
  PROVE  IInv'
<1>1. EntriesFresh' /\ Results' = Results
  BY SameCaches DEF QueryFails
<1>2. /\ pc' = [pc EXCEPT ![t] = "idle"]
      /\ answer' = [answer EXCEPT ![t] = Raised("error")]
      /\ UNCHANGED <<now, publishedAt, cache, lock, call, held>>
  BY DEF QueryFails, Goto
<1>3. TypeOK'
  BY <1>1, <1>2 DEF IInv, TypeOK, Raised
<1>4. LockIsBrief' /\ LockGuardsEntry' /\ LockHeld'
  <2>1. pc[t] # "get"
    BY DEF QueryFails, Goto
  <2>2. LockIsBrief'
    BY <1>2, <2>1, LocksStayBrief
  <2>3. LockGuardsEntry' /\ LockHeld'
    BY <1>2 DEF IInv, TypeOK, LockGuardsEntry, LockHeld, Found, Key
  <2> QED BY <2>2, <2>3
<1>5. HeldFresh' /\ AnswersFresh'
  BY <1>1, <1>2 DEF IInv, TypeOK, HeldFresh, AnswersFresh, Newest, Version, Raised
<1> QED BY <1>1, <1>3, <1>4, <1>5 DEF IInv

(* A store adds one entry, whatever it evicts.                              *)
LEMMA StoredAdds ==
  ASSUME NEW s, NEW key, NEW result, NEW kept \in Stored(s, key, result)
  PROVE  \A e \in kept : \/ e \in s
                         \/ e = [key |-> key, value |-> result, expires |-> Expires]
<1> DEFINE others == {e \in s : Live(e) /\ e.key # key}
<1>1. PICK stay \in Kept(others) :
          kept = stay \cup {[key |-> key, value |-> result, expires |-> Expires]}
  BY DEF Stored
<1>2. stay \subseteq others
  BY <1>1 DEF Kept
<1> QED BY <1>1, <1>2

LEMMA StoreIInv ==
  ASSUME IInv, NEW t \in Threads, Store(t)
  PROVE  IInv'
<1> DEFINE f == call[t].f
           new == [key |-> Key(call[t]), value |-> held[t], expires |-> Expires]
<1>1. PICK s \in Stored(cache[f], Key(call[t]), held[t]) :
          cache' = [cache EXCEPT ![f] = s]
  BY DEF Store
<1>2. /\ pc[t] = "store" /\ lock[f] = Free
      /\ pc' = [pc EXCEPT ![t] = "idle"]
      /\ answer' = [answer EXCEPT ![t] = Returned(held[t])]
      /\ held' = [held EXCEPT ![t] = Nothing]
      /\ UNCHANGED <<now, publishedAt, lock, call>>
  BY DEF Store, Goto, LockFree
<1>3. /\ held[t] \in Results /\ held[t].of = call[t] /\ Newest(held[t])
      /\ now <= held[t].at + MaxQuery
      /\ f \in Functions /\ call[t].a \in Arguments /\ call[t] = [f |-> f, a |-> call[t].a]
      /\ now \in Nat /\ held[t].at \in Nat
  BY <1>2 DEF IInv, HeldFresh, TypeOK, calls, Results
<1>4. Results' = Results
  BY <1>2 DEF Results, Version
<1>5. \A e \in s : e \in cache[f] \/ e = new
  BY <1>1, StoredAdds
<1>6. /\ new \in [key : Arguments, value : Results, expires : Ttl .. now + Ttl]
      /\ new.value = held[t] /\ new.key = call[t].a
      /\ new.expires <= held[t].at + MaxQuery + Ttl
  BY <1>3, CacheAssumption DEF Expires, Key
<1> HIDE DEF f, new
<1>7. \A g \in Functions : cache'[g] = IF g = f THEN s ELSE cache[g]
  BY <1>1, <1>3 DEF IInv, TypeOK
<1>8. TypeOK'
  <2>1. s \in SUBSET [key : Arguments, value : Results, expires : Ttl .. now + Ttl]
    BY <1>3, <1>5, <1>6 DEF IInv, TypeOK
  <2>2. cache' \in [Functions -> SUBSET [key : Arguments, value : Results,
                                        expires : Ttl .. now + Ttl]]
    BY <1>1, <1>3, <2>1 DEF IInv, TypeOK
  <2> QED BY <1>2, <1>3, <1>4, <2>2 DEF IInv, TypeOK, Returned
<1>9. LockIsBrief'
  BY <1>2, LocksStayBrief
<1>10. LockGuardsEntry'
  \* No thread is between look-up and read of this function.
  <2> SUFFICES ASSUME NEW u \in Threads, pc'[u] = "get"
               PROVE  Found(u)' # {}
    BY DEF LockGuardsEntry
  <2>1. pc[u] = "get" /\ u # t /\ lock[call[u].f] = u /\ call[u].f \in Functions
    BY <1>2 DEF IInv, TypeOK, LockHeld, calls
  <2>2. call[u].f # f
    BY <1>2, <2>1, CacheAssumption DEF Free, f
  <2> QED BY <1>2, <1>7, <2>1, <2>2 DEF IInv, LockGuardsEntry, Found, Key
<1>11. LockHeld'
  BY <1>2 DEF IInv, TypeOK, LockHeld
<1>12. EntriesFresh'
  <2> SUFFICES ASSUME NEW g \in Functions, NEW e \in cache'[g]
               PROVE  /\ e.value.of = [f |-> g, a |-> e.key]
                      /\ e.expires <= e.value.at + MaxQuery + Ttl
                      /\ Newest(e.value)
    BY <1>2 DEF EntriesFresh, Newest, Version
  <2>1. CASE e = new /\ g = f
    BY <1>3, <1>6, <2>1
  <2>2. CASE e \in cache[g]
    BY <2>2 DEF IInv, EntriesFresh
  <2> QED BY <1>5, <1>7, <2>1, <2>2
<1>13. HeldFresh'
  BY <1>2, <1>4 DEF IInv, TypeOK, HeldFresh, Newest, Version
<1>14. AnswersFresh'
  <2> SUFFICES ASSUME NEW u \in Threads, answer'[u].kind = "result"
               PROVE  /\ answer'[u].value \in Results
                      /\ answer'[u].value.of = call[u]
                      /\ answer'[u].when < answer'[u].value.at + MaxQuery + Ttl
                      /\ Newest(answer'[u].value)
    BY <1>2, <1>4 DEF AnswersFresh, Newest, Version
  <2>1. CASE u # t
    BY <1>2, <2>1 DEF IInv, TypeOK, AnswersFresh
  <2>2. CASE u = t
    <3>1. answer'[t] = Returned(held[t])
      BY <1>2 DEF IInv, TypeOK
    <3> QED BY <1>3, <2>2, <3>1, CacheAssumption DEF Returned
  <2> QED BY <2>1, <2>2
<1> QED BY <1>8, <1>9, <1>10, <1>11, <1>12, <1>13, <1>14 DEF IInv

LEMMA TickIInv ==
  ASSUME IInv, Tick
  PROVE  IInv'
<1>1. /\ now' = now + 1 /\ now \in Nat /\ now' \in Nat
      /\ \A t \in Threads : pc[t] = "store" => now < held[t].at + MaxQuery
      /\ UNCHANGED <<publishedAt, cache, lock, pc, call, held, answer>>
  BY DEF Tick, IInv, TypeOK
<1>2. Results \subseteq Results' /\ Version' = Version
  BY <1>1 DEF Results, Version
<1>3. TypeOK'
  <2>1. /\ publishedAt \in Seq(0 .. now')
        /\ publishedAt # <<>>
    BY <1>1 DEF IInv, TypeOK
  <2>2. cache \in [Functions -> SUBSET [key : Arguments, value : Results',
                                       expires : Ttl .. now' + Ttl]]
    <3>1. [key : Arguments, value : Results, expires : Ttl .. now + Ttl]
            \subseteq [key : Arguments, value : Results', expires : Ttl .. now' + Ttl]
      <4>1. Ttl .. now + Ttl \subseteq Ttl .. now' + Ttl
        BY <1>1, CacheAssumption
      <4> QED BY <1>2, <4>1
    <3> QED BY <3>1 DEF IInv, TypeOK
  <2>3. held \in [Threads -> Results' \cup {Nothing}]
    BY <1>2 DEF IInv, TypeOK
  <2>4. answer \in [Threads -> [kind : {"none", "result", "error", "KeyError"},
                               value : Results' \cup {Nothing},
                               when : 0 .. now']]
    <3>1. [kind : {"none", "result", "error", "KeyError"},
           value : Results \cup {Nothing}, when : 0 .. now]
            \subseteq [kind : {"none", "result", "error", "KeyError"},
                       value : Results' \cup {Nothing}, when : 0 .. now']
      <4>1. 0 .. now \subseteq 0 .. now'
        BY <1>1
      <4> QED BY <1>2, <4>1
    <3> QED BY <3>1 DEF IInv, TypeOK
  <2>5. Nothing' = Nothing /\ calls' = calls
    BY DEF Nothing, calls
  <2> QED BY <1>1, <2>1, <2>2, <2>3, <2>4, <2>5 DEF IInv, TypeOK, Free
<1>4. LockIsBrief' /\ LockGuardsEntry' /\ LockHeld' /\ EntriesFresh'
  BY <1>1, <1>2 DEF IInv, LockIsBrief, LockGuardsEntry, LockHeld, EntriesFresh,
                   Found, Key, Newest
<1>5. HeldFresh'
  <2> SUFFICES ASSUME NEW t \in Threads, pc[t] = "store"
               PROVE  /\ held[t] \in Results' /\ held[t].of = call[t]
                      /\ now' <= held[t].at + MaxQuery
                      /\ Newest(held[t])
    BY <1>1, <1>2 DEF HeldFresh, Newest
  <2>1. held[t] \in Results /\ held[t].of = call[t] /\ Newest(held[t])
    BY DEF IInv, HeldFresh
  <2>2. held[t].at \in Nat
    BY <2>1 DEF Results, IInv, TypeOK
  <2> QED BY <1>1, <1>2, <2>1, <2>2, CacheAssumption
<1>6. AnswersFresh'
  BY <1>1, <1>2 DEF IInv, AnswersFresh, Newest
<1> QED BY <1>3, <1>4, <1>5, <1>6 DEF IInv

(* A rebuild comes after everything that was read before it.                *)
LEMMA NewestKept ==
  ASSUME IInv, Publish, NEW r \in Results, Newest(r)
  PROVE  Newest(r)'
<1>1. publishedAt' = Append(publishedAt, now) /\ publishedAt \in Seq(0 .. now)
  BY DEF IInv, TypeOK, Publish
<1>2. /\ r.version \in Nat /\ r.at \in 0 .. now /\ now \in Nat
  BY VersionType DEF Results, IInv, TypeOK
<1>3. /\ Version' = Version + 1 /\ Version \in Nat
      /\ publishedAt'[Version + 1] = now
      /\ \A v \in 1 .. Version : publishedAt'[v] = publishedAt[v]
  BY <1>1 DEF Version
<1> SUFFICES ASSUME NEW v \in r.version + 1 .. Version + 1
             PROVE  publishedAt'[v] >= r.at
  BY <1>3 DEF Newest
<1>4. CASE v = Version + 1
  BY <1>2, <1>3, <1>4
<1>5. CASE v # Version + 1
  <2>1. v \in 1 .. Version /\ v \in r.version + 1 .. Version
    BY <1>2, <1>3, <1>5
  <2> QED BY <1>3, <2>1 DEF Newest
<1> QED BY <1>4, <1>5

LEMMA PublishIInv ==
  ASSUME IInv, Publish
  PROVE  IInv'
<1>1. /\ publishedAt' = Append(publishedAt, now)
      /\ publishedAt \in Seq(0 .. now) /\ now \in Nat
      /\ UNCHANGED <<now, cache, lock, pc, call, held, answer>>
  BY DEF Publish, IInv, TypeOK
<1>2. Results \subseteq Results'
  <2>1. Version' = Version + 1 /\ Version \in Nat
    BY <1>1 DEF Version
  <2> QED BY <1>1, <2>1 DEF Results
<1>3. TypeOK'
  <2>1. publishedAt' \in Seq(0 .. now) \ {<<>>}
    BY <1>1
  <2>2. [key : Arguments, value : Results, expires : Ttl .. now + Ttl]
          \subseteq [key : Arguments, value : Results', expires : Ttl .. now + Ttl]
    BY <1>2
  <2>3. [kind : {"none", "result", "error", "KeyError"},
         value : Results \cup {Nothing}, when : 0 .. now]
          \subseteq [kind : {"none", "result", "error", "KeyError"},
                     value : Results' \cup {Nothing}, when : 0 .. now]
    BY <1>2
  <2> QED BY <1>1, <1>2, <2>1, <2>2, <2>3 DEF IInv, TypeOK, Free, Nothing
<1>4. LockIsBrief' /\ LockGuardsEntry' /\ LockHeld'
  BY <1>1 DEF IInv, LockIsBrief, LockGuardsEntry, LockHeld, Found, Key
<1>5. \A r \in Results : Newest(r) => Newest(r)'
  BY NewestKept
<1>6. EntriesFresh'
  <2>1. \A f \in Functions : \A e \in cache[f] : e.value \in Results
    BY DEF IInv, TypeOK
  <2> QED BY <1>1, <1>5, <2>1 DEF IInv, EntriesFresh
<1>7. HeldFresh' /\ AnswersFresh'
  BY <1>1, <1>2, <1>5 DEF IInv, HeldFresh, AnswersFresh
<1> QED BY <1>3, <1>4, <1>6, <1>7 DEF IInv

LEMMA NextIInv == IInv /\ [Next]_vars => IInv'
<1> SUFFICES ASSUME IInv, [Next]_vars PROVE IInv'
  OBVIOUS
<1>1. CASE Tick
  BY <1>1, TickIInv
<1>2. CASE Publish
  BY <1>2, PublishIInv
<1>3. ASSUME NEW t \in Threads, Step(t) PROVE IInv'
  BY <1>3, CallIInv, HitsIInv, MissesIInv, GetItemIInv, QueryIInv, QueryFailsIInv,
     StoreIInv DEF Step
<1>4. CASE UNCHANGED vars
  BY <1>4 DEF vars, IInv, TypeOK, LockIsBrief, LockGuardsEntry, LockHeld,
              EntriesFresh, HeldFresh, AnswersFresh, Newest, Version, Results,
              Found, Key, calls, Nothing, Free
<1> QED BY <1>1, <1>2, <1>3, <1>4 DEF Next

LEMMA Invariance == Spec => []IInv
BY InitIInv, NextIInv, PTL DEF Spec

(* Every variable has its type, and no entry outlives ttl from its store.   *)
THEOREM TypeCorrect == Spec => []TypeOK
<1>1. IInv => TypeOK
  BY DEF IInv
<1> QED BY <1>1, Invariance, PTL

(* A cache's lock is held from finding an entry to reading it, and no       *)
(* longer, however the call ends.                                           *)
THEOREM LockIsBriefHolds == Spec => []LockIsBrief
<1>1. IInv => LockIsBrief
  BY DEF IInv
<1> QED BY <1>1, Invariance, PTL

(* An entry found under the lock is there when it is read.                  *)
THEOREM LockGuardsEntryHolds == Spec => []LockGuardsEntry
<1>1. IInv => LockGuardsEntry
  BY DEF IInv
<1> QED BY <1>1, Invariance, PTL

(* No answer lacks a rebuild older than ttl and one query.                  *)
THEOREM StalenessIsBounded == Spec => []BoundedStaleness
<1>1. IInv => BoundedStaleness
  <2> SUFFICES ASSUME IInv, NEW t \in Threads, answer[t].kind = "result",
                      NEW v \in answer[t].value.version + 1 .. Version
               PROVE  publishedAt[v] > answer[t].when - Ttl - MaxQuery
    BY DEF BoundedStaleness
  <2> DEFINE r == answer[t].value
             w == answer[t].when
             p == publishedAt[v]
  <2>1. /\ r \in Results /\ Newest(r)
        /\ w < r.at + MaxQuery + Ttl
    BY DEF IInv, AnswersFresh
  <2>2. p >= r.at
    BY <2>1 DEF Newest
  <2>3. r.at \in Nat /\ w \in Nat
    BY <2>1 DEF IInv, TypeOK, Results
  <2>4. p \in Nat
    <3>1. v \in 1 .. Version
      BY <2>1, VersionType DEF Results
    <3> QED BY <3>1 DEF IInv, TypeOK, Version
  <2> HIDE DEF r, w, p
  <2>5. p > w - Ttl - MaxQuery
    BY <2>1, <2>2, <2>3, <2>4, CacheAssumption
  <2> QED BY <2>5 DEF p, w
<1> QED BY <1>1, Invariance, PTL

-----------------------------------------------------------------------------
(* The refinement.  Only what a handler sees of a step is a step of         *)
(* StaleReads: the call, and the answer or the error.                       *)

(* A result that may be returned now lacks no rebuild that is too old.      *)
LEMMA FreshEnough ==
  ASSUME IInv, NEW r \in Results, Newest(r), now < r.at + MaxQuery + Ttl
  PROVE  r.version \in 1 .. Version /\ ~ Promise!Superseded(r.version)
<1>1. r.version \in 1 .. Version /\ r.at \in Nat /\ now \in Nat
  BY DEF Results, IInv, TypeOK
<1>2. ASSUME NEW v \in r.version + 1 .. Version
      PROVE  ~ (publishedAt[v] + (Ttl + MaxQuery) <= now)
  <2>1. publishedAt[v] >= r.at
    BY DEF Newest
  <2>2. publishedAt[v] \in Nat
    <3>1. v \in 1 .. Version
      BY <1>1, VersionType
    <3> QED BY <3>1 DEF IInv, TypeOK, Version
  <2> QED BY <1>1, <2>1, <2>2, CacheAssumption
<1> QED BY <1>1, <1>2 DEF Promise!Superseded, Promise!Version, Version

LEMMA CallKeepsPromise ==
  ASSUME IInv, NEW t \in Threads, Call(t)
  PROVE  Promise!Ask(t)
<1>1. PICK c \in calls : call' = [call EXCEPT ![t] = c]
  BY DEF Call
<1>2. /\ pc[t] = "idle" /\ pc' = [pc EXCEPT ![t] = "lookup"]
      /\ answer' = [answer EXCEPT ![t] = Unanswered]
      /\ UNCHANGED <<now, publishedAt>>
  BY DEF Call, Goto
<1>3. [u \in Threads |-> PendingCall(u)]'
        = [[u \in Threads |-> PendingCall(u)] EXCEPT ![t] = {c}]
  BY <1>1, <1>2 DEF IInv, TypeOK, PendingCall
<1>4. [u \in Threads |-> AnsweredCall(u)]'
        = [[u \in Threads |-> AnsweredCall(u)] EXCEPT ![t] = {}]
  BY <1>1, <1>2 DEF IInv, TypeOK, AnsweredCall, Unanswered
<1>5. PendingCall(t) = {}
  BY <1>2 DEF PendingCall
<1> QED BY <1>2, <1>3, <1>4, <1>5 DEF Promise!Ask

(* A step from a busy pc to "idle" that leaves an answer for the call.      *)
LEMMA Answering ==
  ASSUME IInv, NEW t \in Threads, NEW n,
         pc[t] # "idle", pc' = [pc EXCEPT ![t] = "idle"],
         UNCHANGED <<now, publishedAt, call>>,
         \A u \in Threads : u # t => answer'[u] = answer[u],
         AnsweredCall(t)' = {[call |-> call[t], version |-> n]}
  PROVE  Promise!AnswerWith(t, n)
<1>1. PendingCall(t) = {call[t]}
  BY DEF PendingCall
<1>2. [u \in Threads |-> PendingCall(u)]'
        = [[u \in Threads |-> PendingCall(u)] EXCEPT ![t] = {}]
  BY DEF IInv, TypeOK, PendingCall
<1>3. ASSUME NEW u \in Threads, u # t PROVE AnsweredCall(u)' = AnsweredCall(u)
  BY <1>3 DEF AnsweredCall
<1>4. [u \in Threads |-> AnsweredCall(u)]'
        = [[u \in Threads |-> AnsweredCall(u)] EXCEPT
             ![t] = {[call |-> call[t], version |-> n]}]
  BY <1>3
<1> QED BY <1>1, <1>2, <1>4 DEF Promise!AnswerWith

(* Answering with a result in hand.                                         *)
LEMMA ResultKeepsPromise ==
  ASSUME IInv, NEW t \in Threads, NEW r \in Results,
         r.of = call[t], Newest(r), now < r.at + MaxQuery + Ttl,
         pc[t] # "idle", pc' = [pc EXCEPT ![t] = "idle"],
         UNCHANGED <<now, publishedAt, call>>,
         answer' = [answer EXCEPT ![t] = Returned(r)]
  PROVE  Promise!Answer(t)
<1>1. r.version \in 1 .. Version /\ ~ Promise!Superseded(r.version)
  BY FreshEnough
<1>2. Promise!AnswerWith(t, r.version)
  <2>1. AnsweredCall(t)' = {[call |-> call[t], version |-> r.version]}
    BY DEF AnsweredCall, Returned, IInv, TypeOK
  <2>2. \A u \in Threads : u # t => answer'[u] = answer[u]
    BY DEF IInv, TypeOK
  <2> QED BY <2>1, <2>2, Answering
<1> QED BY <1>1, <1>2 DEF Promise!Answer, Promise!Version, Version

LEMMA FailureKeepsPromise ==
  ASSUME IInv, NEW t \in Threads, NEW e \in {"error", "KeyError"},
         pc[t] # "idle", pc' = [pc EXCEPT ![t] = "idle"],
         UNCHANGED <<now, publishedAt, call>>,
         answer' = [answer EXCEPT ![t] = Raised(e)]
  PROVE  Promise!Fail(t)
<1>1. AnsweredCall(t)' = {[call |-> call[t], version |-> 0]}
  BY DEF AnsweredCall, Raised, IInv, TypeOK
<1>2. \A u \in Threads : u # t => answer'[u] = answer[u]
  BY DEF IInv, TypeOK
<1> QED BY <1>1, <1>2, Answering DEF Promise!Fail

LEMMA GetItemKeepsPromise ==
  ASSUME IInv, NEW t \in Threads, GetItem(t)
  PROVE  Promise!Answer(t) \/ Promise!Fail(t)
<1>1. PICK e \in Found(t) :
          answer' = [answer EXCEPT ![t] =
                         IF Live(e) THEN Returned(e.value) ELSE Raised("KeyError")]
  BY DEF GetItem
<1>2. /\ pc[t] # "idle" /\ pc' = [pc EXCEPT ![t] = "idle"]
      /\ UNCHANGED <<now, publishedAt, call>>
  BY DEF GetItem, Goto
<1>3. CASE ~ Live(e)
  BY <1>1, <1>2, <1>3, FailureKeepsPromise
<1>4. CASE Live(e)
  <2>1. /\ e \in cache[call[t].f] /\ e.key = call[t].a
        /\ call[t] \in calls /\ e.value \in Results /\ e.expires \in Nat
    BY CacheAssumption DEF IInv, TypeOK, Found, Key, calls
  <2>2. e.value.of = call[t] /\ Newest(e.value)
        /\ e.expires <= e.value.at + MaxQuery + Ttl
    BY <2>1 DEF IInv, EntriesFresh, calls
  <2>3. now < e.value.at + MaxQuery + Ttl
    <3>1. e.value.at \in Nat /\ now \in Nat
      BY <2>1 DEF Results, IInv, TypeOK
    <3> QED BY <1>4, <2>1, <2>2, <3>1, CacheAssumption DEF Live
  <2>4. answer' = [answer EXCEPT ![t] = Returned(e.value)]
    BY <1>1, <1>4
  <2> QED BY <1>2, <2>1, <2>2, <2>3, <2>4, ResultKeepsPromise
<1> QED BY <1>3, <1>4

LEMMA StoreKeepsPromise ==
  ASSUME IInv, NEW t \in Threads, Store(t)
  PROVE  Promise!Answer(t)
<1>1. /\ pc[t] = "store" /\ pc' = [pc EXCEPT ![t] = "idle"]
      /\ UNCHANGED <<now, publishedAt, call>>
      /\ answer' = [answer EXCEPT ![t] = Returned(held[t])]
  BY DEF Store, Goto
<1>2. /\ held[t] \in Results /\ held[t].of = call[t] /\ Newest(held[t])
      /\ now <= held[t].at + MaxQuery
  BY <1>1 DEF IInv, HeldFresh
<1>3. now < held[t].at + MaxQuery + Ttl
  <2>1. held[t].at \in Nat /\ now \in Nat
    BY <1>2 DEF Results, IInv, TypeOK
  <2> QED BY <1>2, <2>1, CacheAssumption
<1> QED BY <1>1, <1>2, <1>3, ResultKeepsPromise

(* Between the call and the answer, a handler sees nothing.                 *)
LEMMA InnerStepsUnseen ==
  ASSUME IInv, NEW t \in Threads, Hits(t) \/ Misses(t) \/ Query(t)
  PROVE  UNCHANGED Promise!vars
<1>1. /\ pc[t] # "idle"
      /\ \E to \in {"get", "query", "store"} : pc' = [pc EXCEPT ![t] = to]
      /\ UNCHANGED <<now, publishedAt, call, answer>>
  BY DEF Hits, Misses, Query, Goto
<1>2. [u \in Threads |-> PendingCall(u)]' = [u \in Threads |-> PendingCall(u)]
  <2>1. ASSUME NEW u \in Threads PROVE PendingCall(u)' = PendingCall(u)
    BY <1>1 DEF IInv, TypeOK, PendingCall
  <2> QED BY <2>1
<1>3. [u \in Threads |-> AnsweredCall(u)]' = [u \in Threads |-> AnsweredCall(u)]
  BY <1>1 DEF AnsweredCall
<1> QED BY <1>1, <1>2, <1>3 DEF Promise!vars

(* The cached functions implement StaleReads with MaxStale = Ttl +          *)
(* MaxQuery: whatever the interleaving of the threads, the evictions and    *)
(* the rebuilds, a call gets the answer to that call, fresh enough, or an   *)
(* error.                                                                   *)
THEOREM ImplementsStaleReads == Spec => KeepsPromise
<1>1. Init => Promise!Init
  BY DEF Init, Promise!Init, PendingCall, AnsweredCall, Unanswered
<1>2. IInv /\ [Next]_vars => [Promise!Next]_(Promise!vars)
  <2> SUFFICES ASSUME IInv, [Next]_vars PROVE Promise!Next \/ UNCHANGED Promise!vars
    OBVIOUS
  <2>1. CASE Tick
    <3>1. Promise!Tick
      BY <2>1 DEF Tick, Promise!Tick, PendingCall, AnsweredCall
    <3> QED BY <3>1 DEF Promise!Next
  <2>2. CASE Publish
    <3>1. Promise!Publish
      BY <2>2 DEF Publish, Promise!Publish, PendingCall, AnsweredCall
    <3> QED BY <3>1 DEF Promise!Next
  <2>3. ASSUME NEW t \in Threads, Step(t)
        PROVE  Promise!Next \/ UNCHANGED Promise!vars
    <3>1. CASE Call(t)
      BY <3>1, CallKeepsPromise DEF Promise!Next
    <3>2. CASE Hits(t) \/ Misses(t) \/ Query(t)
      BY <3>2, InnerStepsUnseen
    <3>3. CASE GetItem(t)
      BY <3>3, GetItemKeepsPromise DEF Promise!Next
    <3>4. CASE QueryFails(t)
      <4>1. Promise!Fail(t)
        BY <3>4, FailureKeepsPromise DEF QueryFails, Goto
      <4> QED BY <4>1 DEF Promise!Next
    <3>5. CASE Store(t)
      BY <3>5, StoreKeepsPromise DEF Promise!Next
    <3> QED BY <2>3, <3>1, <3>2, <3>3, <3>4, <3>5 DEF Step
  <2>4. CASE UNCHANGED vars
    BY <2>4 DEF vars, Promise!vars, PendingCall, AnsweredCall
  <2> QED BY <2>1, <2>2, <2>3, <2>4 DEF Next
<1> QED BY <1>1, <1>2, Invariance, PTL DEF Spec, KeepsPromise, Promise!Spec

=============================================================================
