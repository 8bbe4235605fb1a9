---------------------------- MODULE RateLimiter ----------------------------
(***************************************************************************)
(* One RateLimiter object of football_pipeline/rate_limiter.py, called in   *)
(* any order at any time.  The object never sleeps: acquire only reserves a *)
(* slot and says when it may be used, so several slots may be outstanding.  *)
(* starts and syncs are history: what the limiter has answered and what it  *)
(* has been told.                                                           *)
(***************************************************************************)
EXTENDS TokenBucket, Sequences, FiniteSets

CONSTANTS
    Available,   \* the request counts a server may report
    MaxTime,     \* bounds of the instance TLC explores: the clock,
    MaxStarts,   \* the calls of acquire
    MaxSyncs     \* and the calls of sync_from_server

ASSUME AvailableAssumption == Available \subseteq Nat

VARIABLES
    now,         \* self._clock()
    credit,      \* self._tokens, in credits
    updatedAt,   \* self._updated_at
    starts,      \* history: from when the k-th reserved slot may be used
    syncs        \* history: each count the server reported, when, and how
                 \* many slots had been reserved by then

vars == <<now, credit, updatedAt, starts, syncs>>
limiterVars == <<credit, updatedAt, starts, syncs>>

Sync == [at : Nat, available : Nat, after : Nat]

\* The balance after the _refill that both operations begin with.
CurrentCredit == Refilled(credit, now - updatedAt)

Init ==
    /\ now = 0
    /\ credit = Full
    /\ updatedAt = 0
    /\ starts = <<>>
    /\ syncs = <<>>

Tick ==
    /\ now < MaxTime
    /\ now' = now + 1
    /\ UNCHANGED limiterVars

Acquire ==
    /\ Len(starts) < MaxStarts
    /\ LET left == CurrentCredit - Tokens(1) IN
          /\ credit' = left
          /\ starts' = Append(starts, now + WaitFor(left))
    /\ updatedAt' = now
    /\ UNCHANGED <<now, syncs>>

(* Mutant: the correction is applied to a balance that was not refilled, *)
(* so the next refill pays for time that has passed already.             *)
SyncFromServerWithoutRefill(available) ==
    /\ Len(syncs) < MaxSyncs
    /\ credit' = Synced(credit, available)
    /\ syncs' = Append(syncs, [at |-> now, available |-> available,
                               after |-> Len(starts)])
    /\ UNCHANGED <<now, updatedAt, starts>>

SyncFromServer(available) ==
    /\ Len(syncs) < MaxSyncs
    /\ credit' = Synced(CurrentCredit, available)
    /\ updatedAt' = now
    /\ syncs' = Append(syncs, [at |-> now, available |-> available,
                               after |-> Len(starts)])
    /\ UNCHANGED <<now, starts>>

Next ==
    \/ Tick
    \/ Acquire
    \/ \E available \in Available : SyncFromServer(available)

Spec == Init /\ [][Next]_vars

-----------------------------------------------------------------------------
(* The balance never exceeds the capacity, the limiter's clock reading is   *)
(* never ahead of the clock, and the histories hold times and counts.       *)
TypeOK ==
    /\ now \in Nat
    /\ credit \in Int
    /\ credit <= Full
    /\ updatedAt \in 0 .. now
    /\ starts \in Seq(Nat)
    /\ syncs \in Seq(Sync)

Paced == INSTANCE PacedStarts

(* The limiter keeps the promise of PacedStarts, whatever the server's      *)
(* corrections do to its balance in between: slots are never in the past,   *)
(* never overtake one another and keep the bucket's spacing.                *)
KeepsPacedStarts == Paced!Spec

\* The slots that start within one period (per_seconds) from time t on.
StartsWithinPeriodFrom(t) ==
    {k \in DOMAIN starts : t <= starts[k] /\ starts[k] < t + Full}

(* In any period of per_seconds the limiter admits at most 2 * Capacity - 1 *)
(* requests: a full bucket at once, and what refills during the period.     *)
BurstBound ==
    \A i \in DOMAIN starts :
        Cardinality(StartsWithinPeriodFrom(starts[i])) <= 2 * Capacity - 1

(* Once the server has reported how many requests are left, the k-th slot   *)
(* reserved after that starts no earlier than the reported count and the    *)
(* refill since then allow: every correction holds for good, through later  *)
(* corrections, refills and reservations (rate_limiter.py:55-58).           *)
ServerCountRespected ==
    \A n \in DOMAIN syncs : \A k \in DOMAIN starts :
        k > syncs[n].after =>
            starts[k] >= syncs[n].at
                         + Tokens(k - syncs[n].after - syncs[n].available)

(* A new slot is never later than one interval after the present, or after  *)
(* the slot reserved before it: corrections and pacing cost a caller at     *)
(* most one refill on top of the queue (rate_limiter.py:16-18).             *)
NoOverDelay ==
    [][ Len(starts') > Len(starts) =>
          LET s == starts'[Len(starts')] IN
            \/ s <= now + Interval
            \/ /\ Len(starts) > 0
               /\ s <= starts[Len(starts)] + Interval ]_vars

(* README.md:76 says the limiter handles a cap of Capacity requests a       *)
(* period, rate_limiter.py:3 that it is used for that cap: no period would  *)
(* then hold more than Capacity starts.  The code does not do this.         *)
PeriodCap ==
    \A i \in DOMAIN starts :
        Cardinality(StartsWithinPeriodFrom(starts[i])) <= Capacity

=============================================================================
