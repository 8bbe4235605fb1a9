---------------------------- MODULE TokenBucket ----------------------------
(***************************************************************************)
(* The arithmetic of football_pipeline/rate_limiter.py.                     *)
(*                                                                         *)
(* The code keeps a float number of tokens that refills at                  *)
(* capacity / per_seconds tokens a second.  Here the balance is counted in  *)
(* integer "credits": one token is Interval credits and one tick of the     *)
(* clock refills one credit, so per_seconds is Capacity * Interval ticks    *)
(* and every quantity the code computes is an exact integer.  (With the     *)
(* production values, 10 tokens a minute, Capacity is 10 and, with ticks    *)
(* of a second, Interval is 6.)                                            *)
(***************************************************************************)
EXTENDS Integers

CONSTANTS
    Capacity,   \* RateLimiter(capacity=...)
    Interval    \* ticks in which one token refills: per_seconds / capacity

\* __init__ raises ValueError for a capacity or a period that is not positive.
ASSUME BucketAssumption ==
    /\ Capacity \in Nat \ {0}
    /\ Interval \in Nat \ {0}

\* The balance of a full bucket, in credits; also per_seconds, in ticks.
Full == Capacity * Interval

\* The number of credits in n tokens.
Tokens(n) == n * Interval

AtMost(bound, x) == IF x < bound THEN x ELSE bound

(* Mutant: an idle bucket banks tokens past its capacity. *)
RefilledPastCapacity(balance, elapsed) == balance + elapsed

(* Mutant: the refill counts whole tokens only and drops the fraction. *)
RefilledInWholeTokens(balance, elapsed) ==
    AtMost(Full, balance + Tokens(elapsed \div Interval))

\* _refill: what the balance has become, `elapsed` ticks after its last update.
Refilled(balance, elapsed) == AtMost(Full, balance + elapsed)

(* Mutant: every caller that finds no token is told to wait one interval. *)
SameWaitForAll(balance) == IF balance >= 0 THEN 0 ELSE Interval

\* acquire's result: a negative balance is a queue of reserved slots, and the
\* caller waits until the refill has paid for its own.
WaitFor(balance) == IF balance >= 0 THEN 0 ELSE -balance

\* sync_from_server: only ever downward.
Synced(balance, available) == AtMost(balance, Tokens(available))

=============================================================================
