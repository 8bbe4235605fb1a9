------------------------ MODULE RateLimiter_proofs ------------------------
(***************************************************************************)
(* Theorems about RateLimiter, for every capacity, interval, set of         *)
(* reported counts and bound, and for runs of any length.                   *)
(***************************************************************************)
EXTENDS RateLimiter, FiniteSetTheorems, WellFoundedInduction, TLAPS

-----------------------------------------------------------------------------
(* The inductive invariant.  The balance alone decides the next slot, so    *)
(* each promise about slots becomes a bound on the balance: how much it may *)
(* hold, given a slot handed out or a count reported earlier.               *)

\* A slot handed out bounds what the bucket can have regained since.
SlotsPaidFor ==
    \A i \in 1 .. Len(starts) :
        credit <= updatedAt - starts[i]
                  + Tokens(Capacity) - Tokens(Len(starts) + 1 - i)

\* No slot handed out is later than the debt accounts for.
SlotsWithinDebt ==
    \A i \in 1 .. Len(starts) :
        starts[i] <= updatedAt \/ starts[i] <= updatedAt - credit

\* A reported count bounds the balance for good.
SyncsPaidFor ==
    \A n \in 1 .. Len(syncs) :
        credit <= updatedAt - syncs[n].at
                  + Tokens(syncs[n].available)
                  - Tokens(Len(starts) - syncs[n].after)

\* Counts were reported in the past, after slots that had been handed out.
SyncsPast ==
    \A n \in 1 .. Len(syncs) :
        syncs[n].at <= updatedAt /\ syncs[n].after <= Len(starts)

\* A debt is never more than the slots handed out explain.
DebtExplained ==
    credit >= 0 \/ (Len(starts) > 0 /\ updatedAt - credit <= starts[Len(starts)])

\* The slots themselves: in order, and apart.
Ordered ==
    \A i, j \in 1 .. Len(starts) : i <= j => starts[i] <= starts[j]

Apart ==
    \A i, j \in 1 .. Len(starts) :
        i < j => starts[j] - starts[i] >= Tokens(j + 1 - i) - Tokens(Capacity)

SyncsKept ==
    \A n \in 1 .. Len(syncs) : \A k \in 1 .. Len(starts) :
        k > syncs[n].after =>
            starts[k] >= syncs[n].at + Tokens(k - syncs[n].after)
                         - Tokens(syncs[n].available)

IInv ==
    /\ TypeOK
    /\ SlotsPaidFor
    /\ SlotsWithinDebt
    /\ SyncsPaidFor
    /\ SyncsPast
    /\ DebtExplained
    /\ Ordered
    /\ Apart
    /\ SyncsKept

-----------------------------------------------------------------------------
(* Tokens is linear, which is all that the rest needs to know of it.        *)
LEMMA TokensLinear ==
    /\ \A n \in Int : Tokens(n) \in Int
    /\ \A m, n \in Int : Tokens(m + n) = Tokens(m) + Tokens(n)
    /\ \A m, n \in Int : Tokens(m - n) = Tokens(m) - Tokens(n)
    /\ Tokens(0) = 0
    /\ Tokens(1) = Interval
    /\ Tokens(Capacity) = Full
<1> USE BucketAssumption DEF Tokens
<1>1. \A n \in Int : Tokens(n) \in Int
  OBVIOUS
<1>2. \A m, n \in Int : (m + n) * Interval = m * Interval + n * Interval
  OBVIOUS
<1>3. \A m, n \in Int : (m - n) * Interval = m * Interval - n * Interval
  OBVIOUS
<1>4. QED
  BY <1>1, <1>2, <1>3 DEF Full

(* One token more is one interval more.                                     *)
LEMMA TokensSucc ==
    \A n \in Int : /\ Tokens(n) \in Int
                  /\ Tokens(n + 1) = Tokens(n) + Interval
BY BucketAssumption DEF Tokens

(* Tokens preserves order.                                                  *)
LEMMA TokensMonotone ==
    ASSUME NEW m \in Int, NEW n \in Int, m <= n
    PROVE  Tokens(m) <= Tokens(n)
<1>1. PICK d \in Nat : n = m + d
  <2>1. n - m \in Nat /\ n = m + (n - m)
    OBVIOUS
  <2>2. QED
    BY <2>1
<1>2. Tokens(d) >= 0
  BY BucketAssumption DEF Tokens
<1>3. Tokens(n) = Tokens(m) + Tokens(d)
  BY <1>1, TokensLinear
<1>4. Tokens(m) \in Int /\ Tokens(d) \in Int
  BY d \in Int, BucketAssumption DEF Tokens
<1>5. QED
  BY <1>2, <1>3, <1>4

(* What both operations find after their _refill: no more than a full       *)
(* bucket, no more than the time that passed has paid in, and no less than  *)
(* before.                                                                  *)
LEMMA RefillBounds ==
    ASSUME TypeOK
    PROVE  /\ CurrentCredit \in Int
           /\ CurrentCredit <= Full
           /\ CurrentCredit <= credit + (now - updatedAt)
           /\ credit <= CurrentCredit
           /\ \/ CurrentCredit >= 0 /\ updatedAt - credit <= now
              \/ CurrentCredit = credit + (now - updatedAt)
<1>1. Full \in Int /\ Full >= 0
  <2>1. Full = Capacity * Interval /\ Capacity \in Nat /\ Interval \in Nat
    BY BucketAssumption DEF Full
  <2>2. QED
    BY <2>1
<1>2. QED
  BY <1>1 DEF TypeOK, CurrentCredit, Refilled, AtMost

(* The initial state satisfies the inductive invariant.                     *)
LEMMA InitIInv == Init => IInv
<1> SUFFICES ASSUME Init PROVE IInv
  OBVIOUS
<1>1. Full \in Int /\ Full >= 0
  <2>1. Full = Capacity * Interval /\ Capacity \in Nat /\ Interval \in Nat
    BY BucketAssumption DEF Full
  <2>2. QED
    BY <2>1
<1>2. starts = <<>> /\ syncs = <<>> /\ Len(starts) = 0 /\ Len(syncs) = 0
  BY DEF Init
<1>3. TypeOK
  BY <1>1 DEF Init, TypeOK, Sync
<1>4. DebtExplained
  BY <1>1 DEF Init, DebtExplained
<1>5. QED
  BY <1>2, <1>3, <1>4
     DEF IInv, SlotsPaidFor, SlotsWithinDebt, SyncsPaidFor, SyncsPast, Ordered,
         Apart, SyncsKept

(* The types of the parts that the step proofs refer to.                    *)
LEMMA TypesOfParts ==
    ASSUME TypeOK
    PROVE  /\ now \in Nat /\ credit \in Int /\ updatedAt \in 0 .. now
           /\ Len(starts) \in Nat
           /\ \A i \in 1 .. Len(starts) : starts[i] \in Nat
           /\ Len(syncs) \in Nat
           /\ \A m \in 1 .. Len(syncs) : /\ syncs[m].at \in Nat
                                         /\ syncs[m].available \in Nat
                                         /\ syncs[m].after \in Nat
<1>1. /\ now \in Nat /\ credit \in Int /\ updatedAt \in 0 .. now
      /\ starts \in Seq(Nat) /\ syncs \in Seq(Sync)
  BY DEF TypeOK
<1>2. /\ Len(starts) \in Nat
      /\ \A i \in 1 .. Len(starts) : starts[i] \in Nat
  BY <1>1
<1>3. /\ Len(syncs) \in Nat
      /\ \A m \in 1 .. Len(syncs) : syncs[m] \in Sync
  BY <1>1
<1>4. \A y \in Sync : y.at \in Nat /\ y.available \in Nat /\ y.after \in Nat
  BY DEF Sync
<1>5. QED
  BY <1>1, <1>2, <1>3, <1>4

(* What acquire does to the variables, in terms of the balance it finds.    *)
LEMMA AcquireEffect ==
    ASSUME TypeOK, Acquire
    PROVE  /\ credit' = CurrentCredit - Interval
           /\ credit' \in Int
           /\ updatedAt' = now /\ now' = now /\ syncs' = syncs
           /\ Len(starts') = Len(starts) + 1
           /\ \A i \in 1 .. Len(starts) : starts'[i] = starts[i]
           /\ starts'[Len(starts')] \in Nat
           /\ starts'[Len(starts')] >= now
           /\ \/ credit' >= 0 /\ starts'[Len(starts')] = now
              \/ credit' < 0 /\ starts'[Len(starts')] = now - credit'
           /\ TypeOK'
<1> DEFINE left == CurrentCredit - Tokens(1)
           s    == now + WaitFor(left)
<1>1. credit' = left /\ left = CurrentCredit - Interval
  BY TokensLinear DEF Acquire
<1>2. left \in Int /\ left <= Full /\ credit' \in Int /\ credit' <= Full
  <2>1. Full \in Int /\ Interval \in Nat
    BY TokensLinear, BucketAssumption, Capacity \in Int
  <2>2. QED
    BY <1>1, <2>1, RefillBounds
<1>3. \/ credit' >= 0 /\ s = now
      \/ credit' < 0 /\ s = now - credit'
  <2>1. (left >= 0 /\ s = now) \/ (left < 0 /\ s = now - left)
    BY <1>2 DEF WaitFor, TypeOK
  <2>2. QED
    BY <2>1, <1>1
<1>4. s \in Nat /\ s >= now
  BY <1>2 DEF WaitFor, TypeOK
<1>5. starts' = Append(starts, s)
  BY DEF Acquire
<1>6. /\ Len(starts') = Len(starts) + 1
      /\ \A i \in 1 .. Len(starts) : starts'[i] = starts[i]
      /\ starts'[Len(starts')] = s
      /\ starts' \in Seq(Nat)
  BY <1>4, <1>5 DEF TypeOK
<1>7. updatedAt' = now /\ now' = now /\ syncs' = syncs
  BY DEF Acquire
<1>8. TypeOK'
  BY <1>2, <1>6, <1>7 DEF TypeOK
<1>9. QED
  BY <1>1, <1>2, <1>3, <1>4, <1>6, <1>7, <1>8

(* acquire preserves the inductive invariant.                               *)
LEMMA AcquireIInv == IInv /\ Acquire => IInv'
<1> SUFFICES ASSUME IInv, Acquire PROVE IInv'
  OBVIOUS
<1> DEFINE n == Len(starts)
           s == starts'[Len(starts')]
           c == CurrentCredit
<1>1. TypeOK
  BY DEF IInv
<1>2. /\ now \in Nat /\ credit \in Int /\ updatedAt \in Nat /\ updatedAt <= now
      /\ n \in Nat
  BY <1>1, TypesOfParts
<1>3. \A i \in 1 .. n : starts[i] \in Nat
  BY <1>1, TypesOfParts
<1>4. \A m \in 1 .. Len(syncs) : /\ syncs[m].at \in Nat
                                 /\ syncs[m].available \in Nat
                                 /\ syncs[m].after \in Nat
  BY <1>1, TypesOfParts
<1>5. credit' = c - Interval /\ credit' \in Int /\ s \in Nat
  BY <1>1, AcquireEffect
<1>5b. \/ credit' >= 0 /\ s = now
       \/ credit' < 0 /\ s = now - credit'
  BY <1>1, AcquireEffect
<1>6. updatedAt' = now /\ now' = now /\ syncs' = syncs /\ Len(starts') = n + 1
  BY <1>1, AcquireEffect
<1>7. \A i \in 1 .. n : starts'[i] = starts[i]
  BY <1>1, AcquireEffect
<1>8. TypeOK'
  BY <1>1, AcquireEffect
<1>9. c \in Int /\ c <= Full /\ c <= credit + (now - updatedAt)
  BY <1>1, RefillBounds
<1>10. \/ c >= 0 /\ updatedAt - credit <= now
       \/ c = credit + (now - updatedAt)
  BY <1>1, RefillBounds
<1>11. Interval \in Nat /\ Capacity \in Int /\ 1 <= Capacity
  BY BucketAssumption
<1>12. \A m \in Int : Tokens(m) \in Int /\ Tokens(m + 1) = Tokens(m) + Interval
  BY TokensSucc
<1>13. Tokens(1) = Interval /\ Tokens(Capacity) = Full /\ Full \in Int
  BY <1>11, TokensLinear
<1>14. s >= now /\ s >= now - credit'
  BY <1>2, <1>5, <1>5b
<1>15. \A i \in 1 .. n : credit' <= now - starts[i] + Full - Tokens(n + 2 - i)
  <2> TAKE i \in 1 .. n
  <2>1. credit <= updatedAt - starts[i] + Full - Tokens(n + 1 - i)
    BY <1>13 DEF IInv, SlotsPaidFor
  <2>2. n + 1 - i \in Int /\ n + 2 - i = (n + 1 - i) + 1
    BY <1>2
  <2>3. Tokens(n + 2 - i) = Tokens(n + 1 - i) + Interval /\ Tokens(n + 1 - i) \in Int
    BY <2>2, <1>12
  <2>4. starts[i] \in Nat
    BY <1>3
  <2>5. QED
    <3> HIDE DEF n, s, c
    <3> QED
      BY <2>1, <2>3, <2>4, <1>2, <1>5, <1>9, <1>11, <1>13
<1>16. \A i \in 1 .. n : starts[i] <= s
  <2> TAKE i \in 1 .. n
  <2>1. starts[i] <= updatedAt \/ starts[i] <= updatedAt - credit
    BY DEF IInv, SlotsWithinDebt
  <2>2. starts[i] \in Nat
    BY <1>3
  <2>3. QED
    BY <2>1, <2>2, <1>2, <1>5, <1>5b, <1>9, <1>10, <1>11
<1>17. \A m \in 1 .. Len(syncs) :
         /\ syncs[m].at <= now
         /\ syncs[m].after <= n + 1
         /\ credit' <= now - syncs[m].at + Tokens(syncs[m].available)
                       - Tokens(n + 1 - syncs[m].after)
  <2> TAKE m \in 1 .. Len(syncs)
  <2> DEFINE at == syncs[m].at
             av == syncs[m].available
             af == syncs[m].after
  <2>1. at <= updatedAt /\ af <= n
    BY DEF IInv, SyncsPast
  <2>2. credit <= updatedAt - at + Tokens(av) - Tokens(n - af)
    BY DEF IInv, SyncsPaidFor
  <2>3. at \in Nat /\ av \in Int /\ af \in Nat
    BY <1>4
  <2>4. n - af \in Int /\ n + 1 - af = (n - af) + 1
    BY <2>3, <1>2
  <2>5. Tokens(n + 1 - af) = Tokens(n - af) + Interval /\ Tokens(n - af) \in Int
    BY <2>4, <1>12
  <2>6. Tokens(av) \in Int
    BY <2>3, <1>12
  <2>7. at <= now /\ af <= n + 1
    BY <2>1, <2>3, <1>2
  <2>8. credit' <= now - at + Tokens(av) - Tokens(n + 1 - af)
    <3> DEFINE t == Tokens(n - af)
               t1 == Tokens(n + 1 - af)
               u == Tokens(av)
               r == credit'
    <3>1. at \in Int
      BY <2>3
    <3>2. c \in Int /\ now \in Int /\ updatedAt \in Int /\ credit \in Int
      BY <1>2, <1>5, <1>9, <1>11
    <3>3. credit <= updatedAt - at + u - t
      BY <2>2
    <3>4. t \in Int /\ u \in Int /\ t1 = t + Interval
      BY <2>5, <2>6
    <3>5. r = c - Interval /\ c <= credit + (now - updatedAt)
      BY <1>5, <1>9
    <3> HIDE DEF at, av, af, n, s, c, t, t1, u, r
    <3>6. r <= now - at + u - t1
      <4>1. c <= now - at + u - t
        BY <3>1, <3>2, <3>3, <3>4, <3>5
      <4>2. QED
        BY <4>1, <3>1, <3>2, <3>4, <3>5, <1>11
    <3>7. QED
      BY <3>6 DEF t1, u, r
  <2>9. QED
    BY <2>7, <2>8
<1>18. SlotsPaidFor'
  <2> SUFFICES ASSUME NEW i \in 1 .. n + 1
               PROVE  credit' <= now - starts'[i] + Full - Tokens(n + 2 - i)
    <3>1. \A i \in 1 .. n + 1 : (n + 1) + 1 - i = n + 2 - i
      BY <1>2
    <3>2. QED
      BY <3>1, <1>6, <1>13 DEF SlotsPaidFor
  <2>1. CASE i \in 1 .. n
    BY <2>1, <1>7, <1>15
  <2>2. CASE i = n + 1
    <3>1. n + 2 - i = 1 /\ starts'[i] = s
      BY <2>2, <1>2, <1>6
    <3>2. Interval <= Full
      BY <1>11, <1>13, TokensMonotone
    <3>3. credit' <= now - s + Full - Interval
      BY <3>2, <1>2, <1>5, <1>5b, <1>9, <1>11, <1>13
    <3>4. QED
      BY <3>1, <3>3, <1>13
  <2>3. QED
    BY <2>1, <2>2, <1>2
<1>19. SlotsWithinDebt'
  <2> SUFFICES ASSUME NEW i \in 1 .. n + 1
               PROVE  starts'[i] <= now \/ starts'[i] <= now - credit'
    BY <1>6 DEF SlotsWithinDebt
  <2>1. CASE i \in 1 .. n
    <3>1. starts'[i] = starts[i] /\ starts[i] \in Nat /\ starts[i] <= s
      BY <2>1, <1>3, <1>7, <1>16
    <3>2. QED
      BY <3>1, <1>2, <1>5, <1>5b
  <2>2. CASE i = n + 1
    BY <2>2, <1>2, <1>5, <1>5b, <1>6
  <2>3. QED
    BY <2>1, <2>2, <1>2
<1>20. SyncsPaidFor' /\ SyncsPast'
  <2>1. SyncsPaidFor'
    <3> SUFFICES ASSUME NEW m \in 1 .. Len(syncs)
                 PROVE  credit' <= now - syncs[m].at + Tokens(syncs[m].available)
                                   - Tokens(Len(starts') - syncs[m].after)
      BY <1>6 DEF SyncsPaidFor
    <3>1. Len(starts') - syncs[m].after = n + 1 - syncs[m].after
      BY <1>2, <1>4, <1>6
    <3>2. credit' <= now - syncs[m].at + Tokens(syncs[m].available)
                       - Tokens(n + 1 - syncs[m].after)
      BY <1>17
    <3>3. QED
      <4> HIDE DEF n
      <4> QED
        BY <3>1, <3>2
  <2>2. SyncsPast'
    BY <1>6, <1>17 DEF SyncsPast
  <2>3. QED
    BY <2>1, <2>2
<1>21. DebtExplained'
  BY <1>2, <1>5, <1>5b, <1>6 DEF DebtExplained
<1>22. Ordered'
  <2> SUFFICES ASSUME NEW i \in 1 .. n + 1, NEW j \in 1 .. n + 1, i <= j
               PROVE  starts'[i] <= starts'[j]
    BY <1>6 DEF Ordered
  <2>1. CASE j \in 1 .. n
    <3>1. i \in 1 .. n
      BY <2>1, <1>2
    <3>2. QED
      BY <2>1, <3>1, <1>7 DEF IInv, Ordered
  <2>2. CASE j = n + 1 /\ i \in 1 .. n
    BY <2>2, <1>6, <1>7, <1>16
  <2>3. CASE j = n + 1 /\ i = n + 1
    BY <2>3, <1>5, <1>6
  <2>4. QED
    BY <2>1, <2>2, <2>3, <1>2
<1>23. Apart'
  <2> SUFFICES ASSUME NEW i \in 1 .. n + 1, NEW j \in 1 .. n + 1, i < j
               PROVE  starts'[j] - starts'[i] >= Tokens(j + 1 - i) - Tokens(Capacity)
    BY <1>6 DEF Apart
  <2>1. i \in 1 .. n
    BY <1>2
  <2>2. CASE j \in 1 .. n
    BY <2>1, <2>2, <1>7 DEF IInv, Apart
  <2>3. CASE j = n + 1
    <3>1. credit' <= now - starts[i] + Full - Tokens(n + 2 - i)
      BY <2>1, <1>15
    <3>2. j + 1 - i = n + 2 - i /\ n + 2 - i \in Int
      BY <2>1, <2>3, <1>2
    <3>3. Tokens(n + 2 - i) \in Int
      BY <3>2, <1>12
    <3>4. starts'[j] = s /\ starts'[i] = starts[i] /\ starts[i] \in Nat
      BY <2>1, <2>3, <1>3, <1>6, <1>7
    <3>5. s - starts[i] >= Tokens(n + 2 - i) - Full
      <4> DEFINE a == starts[i]
                 t == Tokens(n + 2 - i)
                 r == credit'
      <4>1. /\ now \in Int /\ s \in Int /\ r \in Int
            /\ Full \in Int /\ a \in Int /\ t \in Int
        BY <3>3, <3>4, <1>2, <1>5, <1>13
      <4>2. r <= now - a + Full - t
        BY <3>1
      <4>3. s >= now - r
        BY <1>14
      <4> HIDE DEF a, t, r, s, n, c
      <4>4. s - a >= t - Full
        BY <4>1, <4>2, <4>3
      <4>5. QED
        BY <4>4 DEF a, t
    <3>6. QED
      BY <3>2, <3>4, <3>5, <1>13
  <2>4. QED
    BY <2>2, <2>3, <1>2
<1>24. SyncsKept'
  <2> SUFFICES ASSUME NEW m \in 1 .. Len(syncs), NEW k \in 1 .. n + 1,
                      k > syncs[m].after
               PROVE  starts'[k] >= syncs[m].at + Tokens(k - syncs[m].after)
                                    - Tokens(syncs[m].available)
    BY <1>6 DEF SyncsKept
  <2>1. CASE k \in 1 .. n
    BY <2>1, <1>7 DEF IInv, SyncsKept
  <2>2. CASE k = n + 1
    <3> DEFINE at == syncs[m].at
               av == syncs[m].available
               af == syncs[m].after
    <3>1. credit' <= now - at + Tokens(av) - Tokens(n + 1 - af)
      BY <1>17
    <3>2. at \in Nat /\ av \in Int /\ n + 1 - af \in Int
      BY <1>2, <1>4
    <3>3. Tokens(n + 1 - af) \in Int /\ Tokens(av) \in Int
      BY <3>2, <1>12
    <3>4. s >= at + Tokens(n + 1 - af) - Tokens(av)
      <4> DEFINE t == Tokens(n + 1 - af)
                 u == Tokens(av)
                 r == credit'
      <4>1. /\ at \in Int /\ t \in Int /\ u \in Int /\ r \in Int
            /\ s \in Int /\ now \in Int
        BY <3>2, <3>3, <1>2, <1>5
      <4>2. r <= now - at + u - t
        BY <3>1
      <4>3. s >= now - r
        BY <1>14
      <4> HIDE DEF at, av, af, n, s, c, t, u, r
      <4>4. s >= at + t - u
        BY <4>1, <4>2, <4>3
      <4>5. QED
        BY <4>4 DEF t, u
    <3>5. starts'[k] = s
      BY <2>2, <1>6
    <3>6. af \in Nat
      BY <1>4
    <3>7. k - af = n + 1 - af
      <4> HIDE DEF at, av, af, n, s, c
      <4> QED
        BY <2>2, <3>6, <1>2
    <3>8. QED
      BY <3>4, <3>5, <3>7
  <2>3. QED
    BY <2>1, <2>2, <1>2
<1>25. QED
  BY <1>8, <1>18, <1>19, <1>20, <1>21, <1>22, <1>23, <1>24 DEF IInv

(* What sync_from_server does, in terms of the balance it finds.            *)
LEMMA SyncEffect ==
    ASSUME TypeOK, NEW available \in Nat, SyncFromServer(available)
    PROVE  /\ credit' \in Int
           /\ credit' <= CurrentCredit
           /\ credit' <= Tokens(available)
           /\ credit' >= 0 \/ credit' = CurrentCredit
           /\ updatedAt' = now /\ now' = now /\ starts' = starts
           /\ Len(syncs') = Len(syncs) + 1
           /\ \A m \in 1 .. Len(syncs) : syncs'[m] = syncs[m]
           /\ syncs'[Len(syncs')] = [at |-> now, available |-> available,
                                     after |-> Len(starts)]
           /\ TypeOK'
<1> DEFINE record == [at |-> now, available |-> available, after |-> Len(starts)]
<1>2. Tokens(available) \in Int /\ Tokens(available) >= 0
  <2>1. Tokens(0) <= Tokens(available)
    BY TokensMonotone
  <2>2. QED
    BY <2>1, TokensLinear
<1>3. CurrentCredit \in Int /\ CurrentCredit <= Full /\ Full \in Int
  <2>1. Full \in Int
    BY BucketAssumption, TokensLinear, Capacity \in Int
  <2>2. QED
    BY <2>1, RefillBounds
<1>4. credit' = Synced(CurrentCredit, available)
  BY DEF SyncFromServer
<1>5. /\ credit' \in Int /\ credit' <= CurrentCredit
      /\ credit' <= Tokens(available)
      /\ credit' >= 0 \/ credit' = CurrentCredit
  BY <1>2, <1>3, <1>4 DEF Synced, AtMost
<1>6. updatedAt' = now /\ now' = now /\ starts' = starts
  BY DEF SyncFromServer
<1>7. Len(starts) \in Nat /\ now \in Nat /\ syncs \in Seq(Sync) /\ starts \in Seq(Nat)
  BY TypesOfParts DEF TypeOK
<1>8. record \in Sync
  BY <1>7 DEF Sync
<1>9. syncs' = Append(syncs, record)
  BY DEF SyncFromServer
<1>10. /\ Len(syncs') = Len(syncs) + 1
       /\ \A m \in 1 .. Len(syncs) : syncs'[m] = syncs[m]
       /\ syncs'[Len(syncs')] = record
       /\ syncs' \in Seq(Sync)
  <2> HIDE DEF record
  <2> QED
    BY <1>7, <1>8, <1>9
<1>11. credit' <= Full
  BY <1>3, <1>5
<1>12. TypeOK'
  BY <1>5, <1>6, <1>7, <1>10, <1>11 DEF TypeOK
<1>13. QED
  BY <1>5, <1>6, <1>10, <1>12

(* sync_from_server preserves the inductive invariant.                      *)
LEMMA SyncIInv ==
    ASSUME IInv, NEW available \in Nat, SyncFromServer(available)
    PROVE  IInv'
<1> DEFINE n == Len(starts)
           c == CurrentCredit
<1>1. TypeOK
  BY DEF IInv
<1>2. now \in Nat /\ credit \in Int /\ updatedAt \in Nat /\ updatedAt <= now /\ n \in Nat
  BY <1>1, TypesOfParts
<1>3. \A i \in 1 .. n : starts[i] \in Nat
  BY <1>1, TypesOfParts
<1>4. \A m \in 1 .. Len(syncs) : /\ syncs[m].at \in Nat
                                 /\ syncs[m].available \in Nat
                                 /\ syncs[m].after \in Nat
  BY <1>1, TypesOfParts
<1>5. credit' \in Int /\ credit' <= c /\ credit' <= Tokens(available)
  BY <1>1, SyncEffect
<1>6. credit' >= 0 \/ credit' = c
  BY <1>1, SyncEffect
<1>7. updatedAt' = now /\ now' = now /\ starts' = starts
  BY <1>1, SyncEffect
<1>8. /\ Len(syncs') = Len(syncs) + 1
      /\ Len(syncs) \in Nat
      /\ \A m \in 1 .. Len(syncs) : syncs'[m] = syncs[m]
      /\ syncs'[Len(syncs')] = [at |-> now, available |-> available, after |-> n]
  BY <1>1, SyncEffect, TypesOfParts
<1>9. TypeOK'
  BY <1>1, SyncEffect
<1>10. c \in Int /\ c <= credit + (now - updatedAt) /\ credit <= c
  BY <1>1, RefillBounds
<1>11. \/ c >= 0 /\ updatedAt - credit <= now
       \/ c = credit + (now - updatedAt)
  BY <1>1, RefillBounds
<1>12. \A m \in Int : Tokens(m) \in Int
  BY TokensSucc
<1>13. SlotsPaidFor'
  <2> SUFFICES ASSUME NEW i \in 1 .. n
               PROVE  credit' <= now - starts[i] + Tokens(Capacity) - Tokens(n + 1 - i)
    BY <1>7 DEF SlotsPaidFor
  <2>1. credit <= updatedAt - starts[i] + Tokens(Capacity) - Tokens(n + 1 - i)
    BY DEF IInv, SlotsPaidFor
  <2>2. Tokens(Capacity) \in Int /\ Tokens(n + 1 - i) \in Int /\ starts[i] \in Nat
    BY <1>2, <1>3, <1>12, BucketAssumption, Capacity \in Int, n + 1 - i \in Int
  <2>3. QED
    <3> HIDE DEF n, c
    <3> QED
      BY <2>1, <2>2, <1>2, <1>5, <1>10
<1>14. SlotsWithinDebt'
  <2> SUFFICES ASSUME NEW i \in 1 .. n
               PROVE  starts[i] <= now \/ starts[i] <= now - credit'
    BY <1>7 DEF SlotsWithinDebt
  <2>1. starts[i] <= updatedAt \/ starts[i] <= updatedAt - credit
    BY DEF IInv, SlotsWithinDebt
  <2>2. starts[i] \in Nat
    BY <1>3
  <2>3. QED
    <3> HIDE DEF n, c
    <3> QED
      BY <2>1, <2>2, <1>2, <1>5, <1>10, <1>11
<1>15. \A m \in 1 .. Len(syncs) :
         /\ syncs[m].at <= now
         /\ syncs[m].after <= n
         /\ credit' <= now - syncs[m].at + Tokens(syncs[m].available)
                       - Tokens(n - syncs[m].after)
  <2> TAKE m \in 1 .. Len(syncs)
  <2> DEFINE at == syncs[m].at
             av == syncs[m].available
             af == syncs[m].after
  <2>1. at <= updatedAt /\ af <= n
    BY DEF IInv, SyncsPast
  <2>2. credit <= updatedAt - at + Tokens(av) - Tokens(n - af)
    BY DEF IInv, SyncsPaidFor
  <2>3. at \in Nat /\ af \in Nat /\ av \in Nat
    BY <1>4
  <2>4. Tokens(av) \in Int /\ Tokens(n - af) \in Int
    <3>1. n - af \in Int /\ av \in Int
      BY <2>3, <1>2
    <3>2. QED
      BY <3>1, <1>12
  <2>5. at <= now
    BY <2>1, <2>3, <1>2
  <2>6. credit' <= now - at + Tokens(av) - Tokens(n - af)
    <3> HIDE DEF n, c, at, av, af
    <3> QED
      BY <2>2, <2>3, <2>4, <1>2, <1>5, <1>10
  <2>7. QED
    BY <2>1, <2>5, <2>6
<1>16. \A m \in 1 .. Len(syncs') : m \in 1 .. Len(syncs) \/ m = Len(syncs')
  BY <1>8
<1>17. SyncsPaidFor' /\ SyncsPast' /\ SyncsKept'
  <2> SUFFICES ASSUME NEW m \in 1 .. Len(syncs')
               PROVE  /\ syncs'[m].at <= now
                      /\ syncs'[m].after <= n
                      /\ credit' <= now - syncs'[m].at + Tokens(syncs'[m].available)
                                    - Tokens(n - syncs'[m].after)
                      /\ \A k \in 1 .. n :
                           k > syncs'[m].after =>
                             starts[k] >= syncs'[m].at + Tokens(k - syncs'[m].after)
                                          - Tokens(syncs'[m].available)
    BY <1>7 DEF SyncsPaidFor, SyncsPast, SyncsKept
  <2>1. CASE m \in 1 .. Len(syncs)
    <3>1. syncs'[m] = syncs[m]
      BY <2>1, <1>8
    <3>2. \A k \in 1 .. n :
             k > syncs[m].after =>
               starts[k] >= syncs[m].at + Tokens(k - syncs[m].after)
                            - Tokens(syncs[m].available)
      BY <2>1 DEF IInv, SyncsKept
    <3>3. QED
      BY <2>1, <3>1, <3>2, <1>15
  <2>2. CASE m = Len(syncs')
    <3>1. syncs'[m].at = now /\ syncs'[m].available = available /\ syncs'[m].after = n
      BY <2>2, <1>8
    <3>2. n - n = 0 /\ Tokens(0) = 0 /\ Tokens(available) \in Int
      BY <1>2, <1>5, <1>12, TokensLinear, available \in Int
    <3>3. credit' <= now - now + Tokens(available) - Tokens(n - n)
      BY <3>2, <1>2, <1>5
    <3>4. \A k \in 1 .. n : ~(k > n)
      BY <1>2
    <3>5. n <= n /\ now <= now
      BY <1>2
    <3>6. QED
      BY <3>1, <3>3, <3>4, <3>5
  <2>3. QED
    BY <2>1, <2>2, <1>16
<1>18. DebtExplained'
  <2>1. CASE credit' >= 0
    BY <2>1 DEF DebtExplained
  <2>2. CASE credit' < 0
    <3>1. credit' = c /\ c < 0 /\ c = credit + (now - updatedAt) /\ credit < 0
      BY <2>2, <1>2, <1>5, <1>6, <1>10, <1>11
    <3>2. n > 0 /\ updatedAt - credit <= starts[n]
      BY <3>1, <1>2 DEF IInv, DebtExplained
    <3>3. now - credit' = updatedAt - credit
      BY <3>1, <1>2
    <3>4. QED
      BY <3>2, <3>3, <1>7 DEF DebtExplained
  <2>3. QED
    BY <2>1, <2>2, <1>5
<1>19. Ordered' /\ Apart'
  BY <1>7 DEF IInv, Ordered, Apart
<1>20. QED
  BY <1>9, <1>13, <1>14, <1>17, <1>18, <1>19 DEF IInv

(* The passage of time, however long, preserves the inductive invariant:    *)
(* the balance is only brought up to date by the next call.                 *)
LEMMA TimePassesIInv ==
    ASSUME IInv, now' \in Nat, now' >= now, UNCHANGED limiterVars
    PROVE  IInv'
<1>1. /\ credit' = credit /\ updatedAt' = updatedAt
      /\ starts' = starts /\ syncs' = syncs
  BY DEF limiterVars
<1>2. TypeOK'
  BY <1>1 DEF IInv, TypeOK
<1>3. QED
  BY <1>1, <1>2
     DEF IInv, SlotsPaidFor, SlotsWithinDebt, SyncsPaidFor, SyncsPast,
         DebtExplained, Ordered, Apart, SyncsKept

(* The inductive invariant holds throughout every behaviour.                *)
THEOREM Invariance == Spec => []IInv
<1>1. IInv /\ [Next]_vars => IInv'
  <2> SUFFICES ASSUME IInv, [Next]_vars PROVE IInv'
    OBVIOUS
  <2>1. CASE Tick
    <3>1. now' \in Nat /\ now' >= now /\ UNCHANGED limiterVars
      BY <2>1 DEF Tick, IInv, TypeOK
    <3>2. QED
      BY <3>1, TimePassesIInv
  <2>2. CASE Acquire
    BY <2>2, AcquireIInv
  <2>3. ASSUME NEW available \in Available, SyncFromServer(available)
        PROVE  IInv'
    <3>1. available \in Nat
      BY AvailableAssumption
    <3>2. QED
      BY <2>3, <3>1, SyncIInv
  <2>4. CASE UNCHANGED vars
    BY <2>4
       DEF vars, IInv, TypeOK, SlotsPaidFor, SlotsWithinDebt, SyncsPaidFor,
           SyncsPast, DebtExplained, Ordered, Apart, SyncsKept
  <2>5. QED
    BY <2>1, <2>2, <2>3, <2>4 DEF Next
<1>2. QED
  BY InitIInv, <1>1, PTL DEF Spec

-----------------------------------------------------------------------------
(* TypeOK, the type invariant of the run, is an invariant.                  *)
THEOREM TypeCorrect == Spec => []TypeOK
BY Invariance, PTL DEF IInv

(* What SyncsKept says is what ServerCountRespected promises.               *)
LEMMA ServerCountFromIInv == IInv => ServerCountRespected
<1> SUFFICES ASSUME IInv, NEW m \in DOMAIN syncs, NEW k \in DOMAIN starts,
                    k > syncs[m].after
             PROVE  starts[k] >= syncs[m].at
                       + Tokens(k - syncs[m].after - syncs[m].available)
  BY DEF ServerCountRespected
<1> DEFINE at == syncs[m].at
           av == syncs[m].available
           af == syncs[m].after
<1>1. TypeOK
  BY DEF IInv
<1>2. DOMAIN syncs = 1 .. Len(syncs) /\ DOMAIN starts = 1 .. Len(starts)
  BY <1>1 DEF TypeOK
<1>3. at \in Nat /\ av \in Nat /\ af \in Nat /\ k \in Int
  BY <1>1, <1>2, TypesOfParts
<1>4. starts[k] >= at + Tokens(k - af) - Tokens(av)
  BY <1>2 DEF IInv, SyncsKept
<1>5. k - af \in Int /\ av \in Int
  BY <1>3
<1>6. /\ Tokens(k - af - av) = Tokens(k - af) - Tokens(av)
      /\ Tokens(k - af) \in Int /\ Tokens(av) \in Int
  BY <1>5, TokensLinear
<1>7. starts[k] \in Nat
  BY <1>1, <1>2, TypesOfParts
<1>8. QED
  <2> HIDE DEF at, av, af
  <2>1. starts[k] >= at + Tokens(k - af - av)
    BY <1>3, <1>4, <1>6, <1>7
  <2> USE DEF at, av, af
  <2>2. QED
    BY <2>1

(* Every count the server has reported is respected for good by the slots   *)
(* reserved after it (sync_from_server only ever corrects downward).        *)
THEOREM ServerCountIsRespected == Spec => []ServerCountRespected
BY ServerCountFromIInv, Invariance, PTL

(* A non-empty set of natural numbers has a least element.                  *)
LEMMA LeastNatural ==
    ASSUME NEW S \in SUBSET Nat, S # {}
    PROVE  \E least \in S : \A k \in S : least <= k
<1>1. PICK least \in S : \A k \in S : ~ (<<k, least>> \in OpToRel(<, Nat))
  BY NatLessThanWellFounded, WFMin
<1>2. \A k \in S : ~ (k < least)
  BY <1>1 DEF OpToRel
<1>3. QED
  BY <1>2

(* Starts that are Apart leave room for few in one period.                  *)
LEMMA BurstFromIInv == IInv => BurstBound
<1> SUFFICES ASSUME IInv, NEW i \in DOMAIN starts
             PROVE  Cardinality(StartsWithinPeriodFrom(starts[i])) <= 2 * Capacity - 1
  BY DEF BurstBound
<1> DEFINE S == StartsWithinPeriodFrom(starts[i])
<1>1. TypeOK
  BY DEF IInv
<1>2. DOMAIN starts = 1 .. Len(starts) /\ \A k \in DOMAIN starts : starts[k] \in Nat
  BY <1>1, TypesOfParts DEF TypeOK
<1>3. Capacity \in Nat \ {0} /\ Capacity \in Int /\ 2 * Capacity \in Int
  BY BucketAssumption
<1>4. /\ Full \in Nat \ {0} /\ Tokens(Capacity) = Full
      /\ Tokens(2 * Capacity) = Full + Full
  <2>1. 2 * Capacity = Capacity + Capacity
    BY <1>3
  <2>2. Tokens(Capacity + Capacity) = Full + Full
    BY <1>3, TokensLinear
  <2>3. Full \in Nat \ {0}
    BY BucketAssumption DEF Full
  <2>4. QED
    BY <2>1, <2>2, <2>3, TokensLinear
<1>5. S \in SUBSET Nat /\ S \subseteq DOMAIN starts
  BY <1>2 DEF StartsWithinPeriodFrom
<1>6. i \in S
  BY <1>2, <1>4 DEF StartsWithinPeriodFrom
<1>7. PICK lo \in S : \A k \in S : lo <= k
  BY <1>5, <1>6, LeastNatural
<1>8. \A k \in S : k \in lo .. lo + (2 * Capacity - 2)
  <2> SUFFICES ASSUME NEW k \in S, k > lo + (2 * Capacity - 2) PROVE FALSE
    BY <1>3, <1>5, <1>7
  <2>1. /\ k \in 1 .. Len(starts) /\ lo \in 1 .. Len(starts)
        /\ k \in Nat /\ lo \in Nat
        /\ starts[k] \in Nat /\ starts[lo] \in Nat /\ starts[i] \in Nat
    BY <1>2, <1>5
  <2>2. starts[i] <= starts[lo] /\ starts[k] < starts[i] + Full
    BY DEF StartsWithinPeriodFrom
  <2>3. lo < k /\ 2 * Capacity <= k + 1 - lo /\ k + 1 - lo \in Int
    BY <2>1, <1>3
  <2>4. starts[k] - starts[lo] >= Tokens(k + 1 - lo) - Full
    BY <2>1, <2>3, <1>4 DEF IInv, Apart
  <2>5. Full + Full <= Tokens(k + 1 - lo) /\ Tokens(k + 1 - lo) \in Int
    BY <2>3, <1>3, <1>4, TokensMonotone, TokensLinear
  <2> DEFINE a == starts[i]
             b == starts[lo]
             e == starts[k]
             t == Tokens(k + 1 - lo)
  <2>6. a \in Int /\ b \in Int /\ e \in Int
    BY <2>1
  <2>7. t \in Int /\ Full \in Int
    BY <2>5, <1>4
  <2>8. a <= b /\ e < a + Full /\ e - b >= t - Full /\ Full + Full <= t
    BY <2>2, <2>4, <2>5
  <2>9. QED
    <3> HIDE DEF a, b, e, t
    <3> QED
      BY <2>6, <2>7, <2>8
<1>9. /\ IsFiniteSet(lo .. lo + (2 * Capacity - 2))
      /\ Cardinality(lo .. lo + (2 * Capacity - 2)) = 2 * Capacity - 1
  <2> DEFINE hi == lo + (2 * Capacity - 2)
  <2>1. /\ lo \in Int /\ hi \in Int
        /\ ~ (lo > hi)
        /\ hi - lo + 1 = 2 * Capacity - 1
    BY <1>3, <1>5
  <2>2. IsFiniteSet(lo .. hi) /\ Cardinality(lo .. hi) = hi - lo + 1
    <3> HIDE DEF hi
    <3> QED
      BY <2>1, FS_Interval
  <2>3. QED
    BY <2>1, <2>2
<1>10. S \in SUBSET (lo .. lo + (2 * Capacity - 2))
  BY <1>8
<1>11. Cardinality(S) <= Cardinality(lo .. lo + (2 * Capacity - 2))
  BY <1>9, <1>10, FS_Subset
<1>12. QED
  BY <1>9, <1>11

(* No period of per_seconds holds more than 2 * Capacity - 1 starts.        *)
THEOREM BurstIsBounded == Spec => []BurstBound
BY BurstFromIInv, Invariance, PTL

(* A reservation is never later than one refill after the present or after  *)
(* the reservation before it.                                               *)
THEOREM DelayIsBounded == Spec => NoOverDelay
<1> DEFINE Step == Len(starts') > Len(starts) =>
                     LET s == starts'[Len(starts')] IN
                       \/ s <= now + Interval
                       \/ /\ Len(starts) > 0
                          /\ s <= starts[Len(starts)] + Interval
<1>1. IInv /\ [Next]_vars => [Step]_vars
  <2> SUFFICES ASSUME IInv, [Next]_vars, Len(starts') > Len(starts)
               PROVE  \/ starts'[Len(starts')] <= now + Interval
                      \/ /\ Len(starts) > 0
                         /\ starts'[Len(starts')] <= starts[Len(starts)] + Interval
    BY DEF Step
  <2> DEFINE s == starts'[Len(starts')]
             n == Len(starts)
             c == CurrentCredit
  <2>1. TypeOK
    BY DEF IInv
  <2>2. now \in Nat /\ credit \in Int /\ updatedAt \in Nat /\ n \in Nat
    BY <2>1, TypesOfParts
  <2>3. Acquire
    <3>1. starts' # starts
      BY <2>2
    <3>2. QED
      BY <3>1 DEF Next, Tick, SyncFromServer, vars, limiterVars
  <2>4. credit' = c - Interval /\ credit' \in Int /\ s \in Nat
    BY <2>1, <2>3, AcquireEffect
  <2>5. \/ credit' >= 0 /\ s = now
        \/ credit' < 0 /\ s = now - credit'
    BY <2>1, <2>3, AcquireEffect
  <2>6. c \in Int /\ credit <= c
    BY <2>1, RefillBounds
  <2>7. \/ c >= 0 /\ updatedAt - credit <= now
        \/ c = credit + (now - updatedAt)
    BY <2>1, RefillBounds
  <2>8. Interval \in Nat
    BY BucketAssumption
  <2>9. CASE c >= 0
    <3> HIDE DEF s, n, c
    <3>1. s <= now + Interval
      BY <2>2, <2>4, <2>5, <2>6, <2>8, <2>9
    <3> USE DEF s, n, c
    <3>2. QED
      BY <3>1
  <2>10. CASE c < 0
    <3>1. c = credit + (now - updatedAt) /\ credit < 0
      <4> HIDE DEF s, n, c
      <4> QED
        BY <2>2, <2>6, <2>7, <2>10
    <3>2. n > 0 /\ updatedAt - credit <= starts[n]
      BY <3>1, <2>2 DEF IInv, DebtExplained
    <3>3. starts[n] \in Nat
      BY <3>2, <2>1, <2>2, TypesOfParts, n \in 1 .. n
    <3>4. s = now - credit'
      <4> HIDE DEF s, n, c
      <4> QED
        BY <2>4, <2>5, <2>6, <2>8, <2>10
    <3>5. s = updatedAt - credit + Interval
      <4> HIDE DEF s, n, c
      <4> QED
        BY <3>1, <3>4, <2>2, <2>4, <2>6, <2>8
    <3>6. s <= starts[n] + Interval
      <4> HIDE DEF s
      <4> QED
        BY <3>2, <3>3, <3>5, <2>2, <2>8
    <3>7. QED
      BY <3>2, <3>6
  <2>11. QED
    BY <2>6, <2>9, <2>10
<1>2. QED
  BY <1>1, Invariance, PTL DEF Spec, NoOverDelay

(* The limiter implements PacedStarts: its initial state is one of          *)
(* PacedStarts, and each of its steps is a Tick, a HandOut or, for a        *)
(* correction from the server, a stuttering step of it.                     *)
THEOREM ImplementsPacedStarts == Spec => KeepsPacedStarts
<1>1. Init => Paced!Init
  BY DEF Init, Paced!Init
<1>2. IInv /\ IInv' /\ [Next]_vars => [Paced!Next]_(Paced!vars)
  <2> SUFFICES ASSUME IInv, IInv', [Next]_vars
               PROVE  Paced!Next \/ UNCHANGED Paced!vars
    OBVIOUS
  <2>1. CASE Tick
    <3>1. now' > now /\ starts' = starts
      BY <2>1 DEF Tick, limiterVars, IInv, TypeOK
    <3>2. QED
      BY <3>1 DEF Paced!Next, Paced!Tick
  <2>2. CASE Acquire
    <3> DEFINE n == Len(starts)
               s == starts'[Len(starts')]
    <3>1. TypeOK /\ TypeOK'
      BY DEF IInv
    <3>2. n \in Nat /\ Len(starts') = n + 1 /\ now' = now /\ now \in Nat
      BY <3>1, <2>2, AcquireEffect, TypesOfParts
    <3>3. starts' = Append(starts, s)
      <4>1. PICK t : starts' = Append(starts, t)
        BY <2>2 DEF Acquire
      <4>2. t = s
        BY <4>1, <3>1 DEF TypeOK
      <4>3. QED
        BY <4>1, <4>2
    <3>4. s >= now
      BY <3>1, <2>2, AcquireEffect
    <3>5. ASSUME NEW i \in 1 .. n
          PROVE  s >= starts[i] /\ s - starts[i] >= (n + 2 - i - Capacity) * Interval
      <4>1. i \in 1 .. n + 1 /\ n + 1 \in 1 .. n + 1 /\ i < n + 1 /\ i <= n + 1
        BY <3>2
      <4>2. starts'[i] = starts[i]
        BY <3>1, <2>2, AcquireEffect
      <4>3. starts'[i] <= starts'[n + 1]
        BY <4>1, <3>2 DEF IInv, Ordered
      <4>4. starts'[n + 1] - starts'[i] >= Tokens((n + 1) + 1 - i) - Tokens(Capacity)
        BY <4>1, <3>2 DEF IInv, Apart
      <4>5. (n + 1) + 1 - i = n + 2 - i /\ n + 2 - i \in Int /\ Capacity \in Int
        BY <3>2, BucketAssumption
      <4>6. Tokens(n + 2 - i - Capacity) = Tokens(n + 2 - i) - Tokens(Capacity)
        BY <4>5, TokensLinear
      <4>7. starts[i] \in Nat /\ s \in Nat
        BY <3>1, <2>2, AcquireEffect, TypesOfParts
      <4>8. s >= starts[i]
        BY <4>2, <4>3, <4>7, <3>2
      <4>9. s - starts[i] >= Tokens(n + 2 - i - Capacity)
        BY <4>2, <4>4, <4>5, <4>6, <3>2
      <4>10. QED
        BY <4>8, <4>9 DEF Tokens
    <3>6. Paced!MayHandOut(s)
      BY <3>4, <3>5 DEF Paced!MayHandOut
    <3>7. Paced!HandOut
      BY <3>2, <3>3, <3>6 DEF Paced!HandOut
    <3>8. QED
      BY <3>7 DEF Paced!Next
  <2>3. ASSUME NEW available \in Available, SyncFromServer(available)
        PROVE  UNCHANGED Paced!vars
    BY <2>3 DEF SyncFromServer, Paced!vars
  <2>4. CASE UNCHANGED vars
    BY <2>4 DEF vars, Paced!vars
  <2>5. QED
    BY <2>1, <2>2, <2>3, <2>4 DEF Next
<1>3. QED
  BY <1>1, <1>2, Invariance, PTL DEF Spec, KeepsPacedStarts, Paced!Spec

=============================================================================
