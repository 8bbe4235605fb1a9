-------------------------- MODULE ApiClient_proofs --------------------------
(***************************************************************************)
(* Theorems about ApiClient, for every bucket, quota, window, latency and   *)
(* number of attempts, whatever the server answers and whoever else uses    *)
(* the token.  What RateLimiter_proofs shows of the limiter is used through *)
(* its inductive invariant, IInv.                                           *)
(***************************************************************************)
EXTENDS ApiClient, RateLimiter_proofs

-----------------------------------------------------------------------------
(* The inductive invariant *)

Paying == {"pace", "send"}
Handling == {"receive", "sync", "dispatch", "backoff"}

\* A request owes its slot to the attempt that sends it.
SlotsSent ==
    /\ Len(starts) = Len(sent) + (IF pc \in Paying THEN 1 ELSE 0)
    /\ \A k \in 1 .. Len(sent) : sent[k] >= starts[k]
    /\ pc = "send" => now >= starts[Len(starts)]

\* The client waits out each slot, so it comes back without debt.
Solvent ==
    IF pc = "pace"
    THEN /\ updatedAt = now
         /\ credit >= - Interval
         /\ starts[Len(starts)] = now + WaitFor(credit)
    ELSE CurrentCredit >= 0

\* What is handled is an answer, and only a rejection is waited out.
Answered ==
    /\ pc \in {"sync", "dispatch"} => resp.status # "fault"
    /\ pc = "backoff" => resp.status = "tooMany"

\* The last window the server has called spent is the last it has counted in,
\* and the client is past it when it has backed off.
SpentUntil == (resp.window + 1) * Window - phase

Outwaited ==
    resp.status = "tooMany" =>
        /\ resp.window = window
        /\ pc \in Handling => now + RetryAfter(resp) >= SpentUntil
        /\ pc \notin Handling => now >= SpentUntil

\* With the token to itself, the client is rejected at its first attempt only.
RejectedOnce ==
    ~ shared =>
        /\ pc \in Handling /\ resp.status = "tooMany" => attempt <= 1
        /\ pc = "acquire" =>
              /\ attempt <= 1
              /\ attempt = 1 => resp.status = "tooMany"
        /\ pc \in Paying /\ attempt # 1 => resp.status = "tooMany"
        /\ outcome # "RateLimitExceeded"

\* The part that needs nothing of the constants but ClientAssumption.
Steady == ClientTypeOK /\ SlotsSent /\ Solvent /\ Answered

\* A back-off without a header outlasts a window.
LongBackOff == DefaultRetryAfter >= Window

-----------------------------------------------------------------------------
(* Windows *)

(* A quotient lies between its neighbours.                                  *)
LEMMA DivisionBounds ==
    ASSUME NEW n \in Nat, NEW w \in Nat \ {0}
    PROVE  /\ n \div w \in Nat
           /\ (n \div w) * w <= n
           /\ n < (n \div w + 1) * w
<1>1. n \div w \in Int /\ n \div w >= 0
  OBVIOUS
<1>2. (n \div w) * w <= n
  OBVIOUS
<1>3. n < (n \div w + 1) * w
  OBVIOUS
<1>4. QED
  BY <1>1, <1>2, <1>3

(* A time lies within its window.                                           *)
LEMMA WithinWindow ==
    ASSUME ClientTypeOK, NEW t \in Nat
    PROVE  /\ WindowAt(t) \in Nat
           /\ WindowEnd(t) \in Int
           /\ t < WindowEnd(t)
           /\ WindowEnd(t) <= t + Window
<1> DEFINE w == WindowAt(t)
<1>1. Window \in Nat \ {0} /\ phase \in Nat /\ t + phase \in Nat
  BY ClientAssumption DEF ClientTypeOK
<1>2. w \in Nat /\ w * Window <= t + phase /\ t + phase < (w + 1) * Window
  BY <1>1, DivisionBounds DEF WindowAt
<1>3. (w + 1) * Window = w * Window + Window /\ w * Window \in Int
  <2> HIDE DEF w
  <2> QED
    BY <1>1, <1>2
<1>4. WindowEnd(t) = (w + 1) * Window - phase
  BY DEF WindowEnd
<1>5. QED
  <2> HIDE DEF w
  <2>1. /\ WindowEnd(t) \in Int /\ t < WindowEnd(t) /\ WindowEnd(t) <= t + Window
    BY <1>1, <1>2, <1>3, <1>4
  <2>2. QED
    BY <1>2, <2>1 DEF w

(* A time past the end of a window is in a later one.                       *)
LEMMA PastWindow ==
    ASSUME ClientTypeOK, NEW t \in Nat, NEW w \in Nat,
           t >= (w + 1) * Window - phase
    PROVE  WindowAt(t) > w
<1> DEFINE v == WindowAt(t)
<1>1. Window \in Nat \ {0} /\ phase \in Nat /\ t + phase \in Nat
  BY ClientAssumption DEF ClientTypeOK
<1>2. v \in Nat /\ t + phase < (v + 1) * Window
  BY <1>1, DivisionBounds DEF WindowAt
<1>3. SUFFICES ASSUME v <= w PROVE FALSE
  BY <1>2
<1> HIDE DEF v
<1>4. (v + 1) * Window \in Int /\ (w + 1) * Window \in Int
  BY <1>1, <1>2
<1>5. (v + 1) * Window <= (w + 1) * Window
  BY <1>1, <1>2, <1>3
<1>6. QED
  BY <1>1, <1>2, <1>4, <1>5

-----------------------------------------------------------------------------
(* The steps, and what they leave alone *)

(* The types of the parts that the step proofs refer to.                    *)
LEMMA ClientTypes ==
    ASSUME ClientTypeOK
    PROVE  /\ TypeOK /\ now \in Nat /\ attempt \in Nat /\ gets \in Nat
           /\ MaxRetries \in Nat /\ MaxGets \in Nat
           /\ DefaultRetryAfter \in Nat
           /\ Quota \in Nat \ {0} /\ Window \in Nat \ {0}
           /\ resp.status \in Statuses
           /\ resp.available \in Nat \cup {NoHeader}
           /\ resp.retryAfter \in Nat \cup {NoHeader}
           /\ resp.window \in Nat
           /\ RetryAfter(resp) \in Nat
           /\ SpentUntil \in Int
<1>1. /\ resp.status \in Statuses /\ resp.available \in Nat \cup {NoHeader}
      /\ resp.retryAfter \in Nat \cup {NoHeader} /\ resp.window \in Nat
  BY DEF ClientTypeOK
<1>2. RetryAfter(resp) \in Nat
  BY <1>1, ClientAssumption DEF RetryAfter, NoHeader
<1>3. SpentUntil \in Int
  BY <1>1, ClientAssumption DEF SpentUntil, ClientTypeOK
<1>4. QED
  BY <1>1, <1>2, <1>3, ClientAssumption DEF ClientTypeOK, TypeOK

(* A refill that is cut at the bucket's size keeps a balance's sign.        *)
LEMMA AtMostSign ==
    ASSUME NEW bound \in Int, NEW x \in Int, bound >= 0
    PROVE  AtMost(bound, x) >= 0 <=> x >= 0
BY DEF AtMost

(* The balance after a refill, in this state and in the next, is negative   *)
(* only if the time that has passed does not make up for the debt.          *)
LEMMA CreditSign ==
    /\ TypeOK => (CurrentCredit >= 0 <=> credit + (now - updatedAt) >= 0)
    /\ TypeOK' => (CurrentCredit' >= 0 <=> credit' + (now' - updatedAt') >= 0)
<1>1. Full \in Int /\ Full >= 0
  BY BucketAssumption DEF Full
<1>2. /\ CurrentCredit = AtMost(Full, credit + (now - updatedAt))
      /\ CurrentCredit' = AtMost(Full, credit' + (now' - updatedAt'))
  BY DEF CurrentCredit, Refilled, Full
<1>3. /\ TypeOK => credit + (now - updatedAt) \in Int
      /\ TypeOK' => credit' + (now' - updatedAt') \in Int
  BY DEF TypeOK
<1>4. QED
  BY <1>1, <1>2, <1>3, AtMostSign

(* While the client waits, its balance only grows.                          *)
LEMMA TimePasses ==
    ASSUME TypeOK, now' \in Nat, now' >= now, UNCHANGED limiterVars
    PROVE  /\ TypeOK'
           /\ CurrentCredit >= 0 => CurrentCredit' >= 0
           /\ starts' = starts
<1>1. /\ credit' = credit /\ updatedAt' = updatedAt
      /\ starts' = starts /\ syncs' = syncs
  BY DEF limiterVars
<1>2. TypeOK'
  BY <1>1 DEF TypeOK
<1>3. now \in Nat /\ credit \in Int /\ updatedAt \in Nat
  BY DEF TypeOK
<1>4. credit + (now - updatedAt) >= 0 => credit' + (now' - updatedAt') >= 0
  <2> DEFINE later == now'
  <2>1. later \in Nat /\ later >= now
    OBVIOUS
  <2> HIDE DEF later
  <2>2. credit + (now - updatedAt) >= 0 => credit + (later - updatedAt) >= 0
    BY <1>3, <2>1
  <2>3. QED
    BY <1>1, <2>2 DEF later
<1>5. CurrentCredit >= 0 => CurrentCredit' >= 0
  BY <1>2, <1>4, CreditSign
<1>6. QED
  BY <1>1, <1>2, <1>5

(* A step that leaves clock and limiter alone leaves their types alone.     *)
LEMMA LimiterKept ==
    ASSUME TypeOK, UNCHANGED vars
    PROVE  TypeOK' /\ now' = now /\ CurrentCredit' = CurrentCredit
           /\ starts' = starts /\ credit' = credit /\ updatedAt' = updatedAt
BY DEF vars, TypeOK, CurrentCredit

(* A correction from the server never drives the balance below zero.        *)
LEMMA SyncKeepsSolvent ==
    ASSUME TypeOK, CurrentCredit >= 0,
           NEW available \in Nat, SyncFromServer(available)
    PROVE  TypeOK' /\ now' = now /\ starts' = starts /\ CurrentCredit' >= 0
<1>1. /\ credit' \in Int
      /\ credit' >= 0 \/ credit' = CurrentCredit
      /\ updatedAt' = now /\ now' = now /\ starts' = starts /\ TypeOK'
  BY SyncEffect
<1>2. now \in Nat /\ CurrentCredit \in Int
  BY RefillBounds DEF TypeOK
<1>3. credit' >= 0
  BY <1>1
<1>4. credit' + (now' - updatedAt') >= 0
  <2> DEFINE c == credit'
  <2>1. c \in Int /\ c >= 0
    BY <1>1, <1>3
  <2> HIDE DEF c
  <2>2. c + (now - now) >= 0
    BY <1>2, <2>1
  <2>3. QED
    BY <1>1, <2>2 DEF c
<1>5. QED
  BY <1>1, <1>4, CreditSign

(* What the server does with a request: it answers within its types, and a  *)
(* rejection names the window it has counted in, which is over when its     *)
(* Retry-After has passed; it rejects a lone client only in a window it has *)
(* counted in before.                                                       *)
LEMMA ServerAnswers ==
    ASSUME ClientTypeOK, Send
    PROVE  /\ window' = WindowAt(now) /\ window' \in Nat
           /\ used' \in 0 .. Quota
           /\ resp' \in [status : Statuses, available : Nat \cup {NoHeader},
                         retryAfter : Nat \cup {NoHeader}, window : Nat]
           /\ resp'.status = "tooMany" =>
                 /\ resp'.window = window'
                 /\ resp'.retryAfter \in {WindowEnd(now) - now, NoHeader}
                 /\ ~ shared => window' = window
<1>1. now \in Nat /\ Quota \in Nat \ {0} /\ used \in 0 .. Quota
  BY ClientTypes DEF ClientTypeOK
<1>2. window' = WindowAt(now) /\ window' \in Nat
  BY <1>1, WithinWindow DEF Send
<1>3. WindowEnd(now) - now \in Nat
  BY <1>1, WithinWindow
<1>4. PICK others \in IF shared THEN OtherUse ELSE {0} :
        LET counted == (IF window' = window THEN used ELSE 0) + others
        IN  Admit(counted) \/ Reject(counted) \/ Lose(counted)
  BY DEF Send
<1> DEFINE counted == (IF window' = window THEN used ELSE 0) + others
<1>5. counted \in Nat /\ (~ shared => others = 0)
  BY <1>1, <1>4, ClientAssumption
<1>6. Admit(counted) \/ Reject(counted) \/ Lose(counted)
  BY <1>4
<1>7. window' # window => counted = others
  BY <1>1, <1>5, <1>4, ClientAssumption
<1> HIDE DEF counted
<1>8. CASE Admit(counted)
  <2>1. counted < Quota /\ used' = counted + 1 /\ Quota - used' \in Nat
    BY <1>8, <1>1, <1>5 DEF Admit
  <2>2. PICK status \in {"ok", "notFound", "serverError"},
             available \in Said(Quota - used') :
          resp' = [status |-> status, available |-> available,
                   retryAfter |-> NoHeader, window |-> window']
    BY <1>8 DEF Admit
  <2>3. available \in Nat \cup {NoHeader} /\ status \in Statuses
    BY <2>1 DEF Said, Statuses
  <2>4. resp'.status # "tooMany"
    BY <2>2
  <2>5. QED
    BY <1>1, <1>2, <1>5, <2>1, <2>2, <2>3, <2>4
<1>9. CASE Reject(counted)
  <2>1. counted >= Quota /\ used' = Quota
    BY <1>9 DEF Reject
  <2>2. PICK available \in Said(0), retryAfter \in Said(WindowEnd(now) - now) :
          resp' = [status |-> "tooMany", available |-> available,
                   retryAfter |-> retryAfter, window |-> window']
    BY <1>9 DEF Reject
  <2>3. /\ available \in Nat \cup {NoHeader}
        /\ retryAfter \in Nat \cup {NoHeader}
        /\ retryAfter \in {WindowEnd(now) - now, NoHeader}
        /\ "tooMany" \in Statuses
    BY <1>3 DEF Said, Statuses
  <2>4. ~ shared => window' = window
    BY <1>1, <1>5, <1>7, <2>1
  <2>5. QED
    BY <1>1, <1>2, <2>1, <2>2, <2>3, <2>4
<1>10. CASE Lose(counted)
  <2>1. used' \in 0 .. Quota
    BY <1>1, <1>5, <1>10 DEF Lose, AtMost
  <2>2. resp' = NoResponse
    BY <1>10 DEF Lose
  <2>3. QED
    BY <1>2, <2>1, <2>2 DEF NoResponse, Statuses, NoHeader
<1>11. QED
  BY <1>6, <1>8, <1>9, <1>10

-----------------------------------------------------------------------------
(* Steady is inductive *)

(* The initial state satisfies it.                                          *)
LEMMA InitSteady == ClientInit => Steady
<1> SUFFICES ASSUME ClientInit PROVE Steady
  OBVIOUS
<1>1. TypeOK
  BY InitIInv DEF ClientInit, IInv
<1>2. ClientTypeOK
  <2>1. MaxRetries \in Nat /\ MaxGets \in Nat
    BY ClientAssumption
  <2>2. resp \in [status : Statuses, available : Nat \cup {NoHeader},
                  retryAfter : Nat \cup {NoHeader}, window : Nat]
    BY DEF ClientInit, NoResponse, Statuses, NoHeader
  <2>3. sent \in Seq(Nat)
    BY DEF ClientInit
  <2>4. QED
    BY <1>1, <2>1, <2>2, <2>3 DEF ClientTypeOK, ClientInit, Outcomes
<1>3. SlotsSent
  BY DEF SlotsSent, ClientInit, Init, Paying
<1>4. Solvent
  <2>1. Full \in Int /\ Full >= 0
    BY BucketAssumption DEF Full
  <2>2. credit + (now - updatedAt) >= 0
    BY <2>1 DEF ClientInit, Init
  <2>3. QED
    BY <1>1, <2>2, CreditSign DEF Solvent, ClientInit
<1>5. Answered
  BY DEF Answered, ClientInit
<1>6. QED
  BY <1>2, <1>3, <1>4, <1>5 DEF Steady

(* A step that neither reserves a slot nor sends keeps them matched.        *)
LEMMA SlotsSentKept ==
    ASSUME SlotsSent, starts' = starts, sent' = sent,
           pc \notin Paying, pc' \notin Paying
    PROVE  SlotsSent'
BY DEF SlotsSent, Paying

LEMMA CallSteady == Steady /\ Call => Steady'
<1> SUFFICES ASSUME Steady, Call PROVE Steady'
  OBVIOUS
<1>1. ClientTypeOK /\ TypeOK /\ now \in Nat /\ gets \in 0 .. MaxGets
  BY DEF Steady, ClientTypeOK, TypeOK
<1>2. pc = "idle" /\ pc' = "acquire" /\ UNCHANGED limiterVars
      /\ UNCHANGED <<resp, sent, serverVars>>
  BY DEF Call, Goto
<1>3. now' \in Nat /\ now' >= now
  BY <1>1, ClientAssumption DEF Call
<1>4. /\ TypeOK' /\ starts' = starts
      /\ CurrentCredit >= 0 => CurrentCredit' >= 0
  BY <1>1, <1>2, <1>3, TimePasses
<1>5. attempt' \in 0 .. MaxRetries /\ gets' \in 0 .. MaxGets /\ outcome' \in Outcomes
  BY <1>1, ClientAssumption DEF Call, Outcomes
<1>6. ClientTypeOK'
  BY <1>1, <1>2, <1>4, <1>5 DEF ClientTypeOK, serverVars
<1>7. SlotsSent'
  BY <1>2, <1>4, SlotsSentKept DEF Steady, Paying
<1>8. Solvent'
  BY <1>2, <1>4 DEF Steady, Solvent
<1>9. Answered'
  BY <1>2 DEF Answered
<1>10. QED
  BY <1>6, <1>7, <1>8, <1>9 DEF Steady

LEMMA TakeSlotSteady == Steady /\ TakeSlot => Steady'
<1> SUFFICES ASSUME Steady, TakeSlot PROVE Steady'
  OBVIOUS
<1> DEFINE owed == credit'
           slot == starts'[Len(starts')]
           n == Len(starts)
<1>1. ClientTypeOK /\ TypeOK /\ now \in Nat /\ attempt \in 0 .. MaxRetries
      /\ sent \in Seq(Nat) /\ n \in Nat
  BY DEF Steady, ClientTypeOK, TypeOK
<1>2. pc = "acquire" /\ pc' = "pace" /\ Acquire /\ attempt < MaxRetries
      /\ attempt' = attempt + 1 /\ UNCHANGED <<resp, outcome, gets, sent, serverVars>>
  BY DEF TakeSlot, Goto
<1>3. /\ owed = CurrentCredit - Interval /\ owed \in Int
      /\ updatedAt' = now /\ now' = now
      /\ Len(starts') = n + 1
      /\ \A i \in 1 .. n : starts'[i] = starts[i]
      /\ TypeOK'
  BY <1>1, <1>2, AcquireEffect
<1>3b. \/ owed >= 0 /\ slot = now
       \/ owed < 0 /\ slot = now - owed
  BY <1>1, <1>2, AcquireEffect
<1>4. CurrentCredit >= 0 /\ CurrentCredit \in Int
  BY <1>1, <1>2, RefillBounds DEF Steady, Solvent
<1>5. attempt' \in 0 .. MaxRetries
  BY <1>1, <1>2, ClientAssumption
<1>6. ClientTypeOK'
  BY <1>1, <1>2, <1>3, <1>5 DEF ClientTypeOK, serverVars
<1>7. SlotsSent'
  <2>1. Len(sent) = n /\ \A k \in 1 .. Len(sent) : sent[k] >= starts[k]
    BY <1>1, <1>2 DEF Steady, SlotsSent, Paying
  <2>2. Len(starts') = Len(sent) + 1 /\ \A k \in 1 .. Len(sent) : sent[k] >= starts'[k]
    BY <1>3, <2>1
  <2>3. QED
    BY <1>2, <2>2 DEF SlotsSent, Paying
<1>8. Solvent'
  <2>1. owed >= - Interval
    <3> HIDE DEF owed
    <3> QED
      BY <1>3, <1>4, BucketAssumption
  <2>2. slot = now + WaitFor(owed)
    <3> HIDE DEF owed, slot
    <3> QED
      BY <1>1, <1>3, <1>3b DEF WaitFor
  <2>3. QED
    BY <1>2, <1>3, <2>1, <2>2 DEF Solvent
<1>9. Answered'
  BY <1>2 DEF Answered
<1>10. QED
  BY <1>6, <1>7, <1>8, <1>9 DEF Steady

LEMMA GiveUpSteady == Steady /\ GiveUp => Steady'
<1> SUFFICES ASSUME Steady, GiveUp PROVE Steady'
  OBVIOUS
<1>1. pc = "acquire" /\ pc' = "idle" /\ outcome' = "RateLimitExceeded"
      /\ UNCHANGED <<vars, attempt, resp, gets, sent, serverVars>>
  BY DEF GiveUp, Goto
<1>2. TypeOK' /\ starts' = starts /\ CurrentCredit' = CurrentCredit
  BY <1>1, LimiterKept DEF Steady, ClientTypeOK
<1>3. ClientTypeOK'
  BY <1>1, <1>2 DEF Steady, ClientTypeOK, serverVars, Outcomes
<1>4. SlotsSent'
  BY <1>1, <1>2, SlotsSentKept DEF Steady, Paying
<1>5. Solvent' /\ Answered'
  BY <1>1, <1>2 DEF Steady, Solvent, Answered
<1>6. QED
  BY <1>3, <1>4, <1>5 DEF Steady

LEMMA PaceSteady == Steady /\ Pace => Steady'
<1> SUFFICES ASSUME Steady, Pace PROVE Steady'
  OBVIOUS
<1>1. pc = "pace" /\ pc' = "send" /\ now' = starts[Len(starts)]
      /\ UNCHANGED limiterVars
      /\ UNCHANGED <<attempt, resp, outcome, gets, sent, serverVars>>
  BY DEF Pace, Goto
<1>2. TypeOK /\ now \in Nat /\ credit \in Int
  BY DEF Steady, ClientTypeOK, TypeOK
<1>3. now' = now + WaitFor(credit) /\ updatedAt = now
  BY <1>1 DEF Steady, Solvent
<1>4. WaitFor(credit) \in Nat /\ credit + WaitFor(credit) >= 0
  BY <1>2 DEF WaitFor
<1>5. now' \in Nat /\ now' >= now
  BY <1>2, <1>3, <1>4
<1>6. TypeOK' /\ starts' = starts /\ credit' = credit /\ updatedAt' = updatedAt
  BY <1>1, <1>2, <1>5, TimePasses DEF limiterVars
<1>7. ClientTypeOK'
  BY <1>1, <1>6 DEF Steady, ClientTypeOK, serverVars
<1>8. SlotsSent'
  <2>1. /\ Len(starts') = Len(sent') + 1
        /\ \A k \in 1 .. Len(sent') : sent'[k] >= starts'[k]
    BY <1>1, <1>6 DEF Steady, SlotsSent, Paying
  <2>2. now' >= starts'[Len(starts')]
    BY <1>1, <1>5, <1>6
  <2>3. QED
    BY <1>1, <2>1, <2>2 DEF SlotsSent, Paying
<1>9. Solvent'
  <2> DEFINE wait == WaitFor(credit)
  <2>1. credit + ((now + wait) - now) >= 0
    <3> HIDE DEF wait
    <3>1. wait \in Nat /\ credit + wait >= 0
      BY <1>4 DEF wait
    <3>2. QED
      BY <1>2, <3>1
  <2>2. CurrentCredit' >= 0
    BY <1>3, <1>6, <2>1, CreditSign
  <2>3. QED
    BY <1>1, <2>2 DEF Solvent
<1>10. Answered'
  BY <1>1 DEF Answered
<1>11. QED
  BY <1>7, <1>8, <1>9, <1>10 DEF Steady

LEMMA SendSteady == Steady /\ Send => Steady'
<1> SUFFICES ASSUME Steady, Send PROVE Steady'
  OBVIOUS
<1>1. /\ pc = "send" /\ pc' = "receive" /\ sent' = Append(sent, now)
      /\ UNCHANGED <<vars, attempt, outcome, gets, phase, shared>>
  BY DEF Send, Goto
<1>2. ClientTypeOK /\ now \in Nat /\ sent \in Seq(Nat) /\ starts \in Seq(Nat)
  BY DEF Steady, ClientTypeOK, TypeOK
<1>3. TypeOK' /\ now' = now /\ starts' = starts /\ CurrentCredit' = CurrentCredit
  BY <1>1, LimiterKept DEF Steady, ClientTypeOK
<1>4. /\ window' \in Nat /\ used' \in 0 .. Quota
      /\ resp' \in [status : Statuses, available : Nat \cup {NoHeader},
                    retryAfter : Nat \cup {NoHeader}, window : Nat]
  BY <1>2, ServerAnswers
<1>5. /\ sent' \in Seq(Nat) /\ Len(sent') = Len(sent) + 1
      /\ \A k \in 1 .. Len(sent) : sent'[k] = sent[k]
      /\ sent'[Len(sent')] = now
  BY <1>1, <1>2
<1>6. ClientTypeOK'
  BY <1>1, <1>2, <1>3, <1>4, <1>5 DEF ClientTypeOK
<1>7. SlotsSent'
  <2>1. /\ Len(starts) = Len(sent) + 1 /\ now >= starts[Len(starts)]
        /\ \A k \in 1 .. Len(sent) : sent[k] >= starts[k]
    BY <1>1 DEF Steady, SlotsSent, Paying
  <2>2. \A k \in 1 .. Len(sent') : k \in 1 .. Len(sent) \/ k = Len(sent')
    BY <1>2, <1>5
  <2>3. Len(sent') = Len(starts)
    BY <1>5, <2>1
  <2>4. \A k \in 1 .. Len(sent') : sent'[k] >= starts[k]
    BY <1>5, <2>1, <2>2, <2>3
  <2>5. QED
    BY <1>1, <1>2, <1>3, <2>3, <2>4 DEF SlotsSent, Paying
<1>8. Solvent' /\ Answered'
  BY <1>1, <1>3 DEF Steady, Solvent, Answered
<1>9. QED
  BY <1>6, <1>7, <1>8 DEF Steady

LEMMA ReceiveSteady == Steady /\ Receive => Steady'
<1> SUFFICES ASSUME Steady, Receive PROVE Steady'
  OBVIOUS
<1>1. /\ pc = "receive" /\ UNCHANGED limiterVars
      /\ UNCHANGED <<attempt, resp, gets, sent, serverVars>>
      /\ \/ pc' = "idle" /\ outcome' = "requestException"
         \/ pc' = "sync" /\ outcome' = outcome /\ resp.status # "fault"
  BY DEF Receive
<1>2. ClientTypeOK /\ TypeOK /\ now \in Nat
  BY DEF Steady, ClientTypeOK, TypeOK
<1>3. now' \in Nat /\ now' >= now
  BY <1>2, ClientAssumption DEF Receive
<1>4. /\ TypeOK' /\ starts' = starts
      /\ CurrentCredit >= 0 => CurrentCredit' >= 0
  BY <1>1, <1>2, <1>3, TimePasses
<1>5. ClientTypeOK'
  BY <1>1, <1>2, <1>4 DEF ClientTypeOK, serverVars, Outcomes
<1>6. SlotsSent'
  BY <1>1, <1>4, SlotsSentKept DEF Steady, Paying
<1>7. Solvent' /\ Answered'
  BY <1>1, <1>4 DEF Steady, Solvent, Answered
<1>8. QED
  BY <1>5, <1>6, <1>7 DEF Steady

LEMMA SyncLimiterSteady == Steady /\ SyncLimiter => Steady'
<1> SUFFICES ASSUME Steady, SyncLimiter PROVE Steady'
  OBVIOUS
<1>1. /\ pc = "sync" /\ pc' = "dispatch"
      /\ UNCHANGED <<attempt, resp, outcome, gets, sent, serverVars>>
  BY DEF SyncLimiter, Goto
<1>2. ClientTypeOK /\ TypeOK /\ CurrentCredit >= 0
  BY <1>1 DEF Steady, ClientTypeOK, Solvent
<1>3. TypeOK' /\ starts' = starts /\ CurrentCredit' >= 0
  <2>1. CASE resp.available = NoHeader
    <3>1. UNCHANGED vars
      BY <2>1 DEF SyncLimiter
    <3>2. QED
      BY <1>2, <3>1, LimiterKept
  <2>2. CASE resp.available # NoHeader
    <3>1. SyncFromServer(resp.available) /\ resp.available \in Nat
      BY <1>2, <2>2, ClientTypes DEF SyncLimiter
    <3>2. QED
      BY <1>2, <3>1, SyncKeepsSolvent
  <2>3. QED
    BY <2>1, <2>2
<1>4. ClientTypeOK'
  BY <1>1, <1>2, <1>3 DEF ClientTypeOK, serverVars
<1>5. SlotsSent'
  BY <1>1, <1>3, SlotsSentKept DEF Steady, Paying
<1>6. Solvent' /\ Answered'
  BY <1>1, <1>3 DEF Steady, Solvent, Answered
<1>7. QED
  BY <1>4, <1>5, <1>6 DEF Steady

LEMMA RejectedSteady == Steady /\ Rejected => Steady'
<1> SUFFICES ASSUME Steady, Rejected PROVE Steady'
  OBVIOUS
<1>1. /\ pc = "dispatch" /\ pc' = "backoff" /\ resp.status = "tooMany"
      /\ SyncFromServer(0)
      /\ UNCHANGED <<attempt, resp, outcome, gets, sent, serverVars>>
  BY DEF Rejected, Goto
<1>2. ClientTypeOK /\ TypeOK /\ CurrentCredit >= 0 /\ 0 \in Nat
  BY <1>1 DEF Steady, ClientTypeOK, Solvent
<1>3. TypeOK' /\ starts' = starts /\ CurrentCredit' >= 0
  BY <1>1, <1>2, SyncKeepsSolvent
<1>4. ClientTypeOK'
  BY <1>1, <1>2, <1>3 DEF ClientTypeOK, serverVars
<1>5. SlotsSent'
  BY <1>1, <1>3, SlotsSentKept DEF Steady, Paying
<1>6. Solvent' /\ Answered'
  BY <1>1, <1>3 DEF Steady, Solvent, Answered
<1>7. QED
  BY <1>4, <1>5, <1>6 DEF Steady

LEMMA ConcludeSteady == Steady /\ Conclude => Steady'
<1> SUFFICES ASSUME Steady, Conclude PROVE Steady'
  OBVIOUS
<1>1. /\ pc = "dispatch" /\ pc' = "idle" /\ resp.status # "tooMany"
      /\ outcome' = Ending(resp.status)
      /\ UNCHANGED <<vars, attempt, resp, gets, sent, serverVars>>
  BY DEF Conclude, Goto
<1>2. ClientTypeOK /\ TypeOK /\ resp.status \in Statuses /\ resp.status # "fault"
  BY <1>1, ClientTypes DEF Steady, ClientTypeOK, Answered
<1>3. outcome' \in Outcomes
  <2>1. \/ resp.status = "ok" \/ resp.status = "notFound"
        \/ resp.status = "serverError"
    BY <1>1, <1>2 DEF Statuses
  <2>2. QED
    BY <1>1, <2>1 DEF Ending, Outcomes
<1>4. TypeOK' /\ starts' = starts /\ CurrentCredit' = CurrentCredit
  BY <1>1, <1>2, LimiterKept
<1>5. ClientTypeOK'
  BY <1>1, <1>2, <1>3, <1>4 DEF ClientTypeOK, serverVars
<1>6. SlotsSent'
  BY <1>1, <1>4, SlotsSentKept DEF Steady, Paying
<1>7. Solvent' /\ Answered'
  BY <1>1, <1>4 DEF Steady, Solvent, Answered
<1>8. QED
  BY <1>5, <1>6, <1>7 DEF Steady

LEMMA BackOffSteady == Steady /\ BackOff => Steady'
<1> SUFFICES ASSUME Steady, BackOff PROVE Steady'
  OBVIOUS
<1>1. /\ pc = "backoff" /\ pc' = "acquire" /\ now' = now + RetryAfter(resp)
      /\ UNCHANGED limiterVars
      /\ UNCHANGED <<attempt, resp, outcome, gets, sent, serverVars>>
  BY DEF BackOff, Goto
<1>2. ClientTypeOK /\ TypeOK /\ now \in Nat /\ RetryAfter(resp) \in Nat
  BY ClientTypes DEF Steady
<1>3. now' \in Nat /\ now' >= now
  BY <1>1, <1>2
<1>4. /\ TypeOK' /\ starts' = starts
      /\ CurrentCredit >= 0 => CurrentCredit' >= 0
  BY <1>1, <1>2, <1>3, TimePasses
<1>5. ClientTypeOK'
  BY <1>1, <1>2, <1>4 DEF ClientTypeOK, serverVars
<1>6. SlotsSent'
  BY <1>1, <1>4, SlotsSentKept DEF Steady, Paying
<1>7. Solvent' /\ Answered'
  BY <1>1, <1>4 DEF Steady, Solvent, Answered
<1>8. QED
  BY <1>5, <1>6, <1>7 DEF Steady

(* A step that changes nothing keeps every part.                            *)
LEMMA StutterSteady == Steady /\ UNCHANGED allVars => Steady'
<1> SUFFICES ASSUME Steady, UNCHANGED allVars PROVE Steady'
  OBVIOUS
<1>1. UNCHANGED vars /\ UNCHANGED clientVars /\ UNCHANGED serverVars
  BY DEF allVars
<1>2. /\ TypeOK' /\ now' = now /\ CurrentCredit' = CurrentCredit
      /\ starts' = starts /\ credit' = credit /\ updatedAt' = updatedAt
  BY <1>1, LimiterKept DEF Steady, ClientTypeOK
<1>3. QED
  BY <1>1, <1>2
     DEF Steady, ClientTypeOK, SlotsSent, Solvent, Answered, clientVars, serverVars

(* Steady holds throughout every behaviour of the client.                   *)
LEMMA SteadyStep == Steady /\ [ClientNext]_allVars => Steady'
BY CallSteady, TakeSlotSteady, GiveUpSteady, PaceSteady, SendSteady,
   ReceiveSteady, SyncLimiterSteady, RejectedSteady, ConcludeSteady,
   BackOffSteady, StutterSteady
   DEF ClientNext, GetStep

THEOREM SteadyInvariance == ClientSpec => []Steady
BY InitSteady, SteadyStep, PTL DEF ClientSpec

-----------------------------------------------------------------------------
(* ClientTypeOK, the type invariant of the run, is an invariant.            *)
THEOREM ClientTypeCorrect == ClientSpec => []ClientTypeOK
BY SteadyInvariance, PTL DEF Steady

(* Each request has a slot of its own and does not go out before it.        *)
THEOREM SlotPerRequestHolds == ClientSpec => []SlotPerRequest
<1>1. Steady => SlotPerRequest
  <2> SUFFICES ASSUME Steady PROVE SlotPerRequest
    OBVIOUS
  <2>1. sent \in Seq(Nat) /\ DOMAIN sent = 1 .. Len(sent) /\ Len(sent) \in Nat
    BY DEF Steady, ClientTypeOK
  <2>2. /\ Len(starts) = Len(sent) \/ Len(starts) = Len(sent) + 1
        /\ \A k \in 1 .. Len(sent) : sent[k] >= starts[k]
    BY DEF Steady, SlotsSent
  <2>3. QED
    BY <2>1, <2>2 DEF SlotPerRequest
<1>2. QED
  BY <1>1, SteadyInvariance, PTL

(* The client never sleeps for longer than one refill before a request.     *)
THEOREM PacedWithinOneIntervalHolds == ClientSpec => []PacedWithinOneInterval
<1>1. Steady => PacedWithinOneInterval
  <2> SUFFICES ASSUME Steady, pc = "pace"
               PROVE  starts[Len(starts)] <= now + Interval
    BY DEF PacedWithinOneInterval
  <2>1. now \in Nat /\ credit \in Int /\ Interval \in Nat
    BY BucketAssumption DEF Steady, ClientTypeOK, TypeOK
  <2>2. credit >= - Interval /\ starts[Len(starts)] = now + WaitFor(credit)
    BY DEF Steady, Solvent
  <2>3. WaitFor(credit) \in Nat /\ WaitFor(credit) <= Interval
    BY <2>1, <2>2 DEF WaitFor
  <2>4. QED
    BY <2>1, <2>2, <2>3
<1>2. QED
  BY <1>1, SteadyInvariance, PTL

-----------------------------------------------------------------------------
(* Spent windows *)

(* Time that passes while a response is kept is time waited.                *)
LEMMA OutwaitedKept ==
    ASSUME ClientTypeOK, Outwaited, now' \in Nat, now' >= now,
           resp' = resp, window' = window, phase' = phase,
           pc \in Handling <=> pc' \in Handling
    PROVE  Outwaited'
<1> SUFFICES ASSUME resp.status = "tooMany"
             PROVE  /\ resp'.window = window'
                    /\ pc' \in Handling => now' + RetryAfter(resp)' >= SpentUntil'
                    /\ pc' \notin Handling => now' >= SpentUntil'
  BY DEF Outwaited
<1> DEFINE later == now'
<1>1. later \in Nat /\ later >= now /\ now \in Nat
  BY DEF ClientTypeOK, TypeOK
<1>2. RetryAfter(resp) \in Nat /\ RetryAfter(resp)' = RetryAfter(resp)
  BY ClientTypes DEF RetryAfter
<1>3. SpentUntil \in Int /\ SpentUntil' = SpentUntil
  BY ClientTypes DEF SpentUntil
<1>4. /\ resp.window = window
      /\ pc \in Handling => now + RetryAfter(resp) >= SpentUntil
      /\ pc \notin Handling => now >= SpentUntil
  BY DEF Outwaited
<1> HIDE DEF later
<1>5. now + RetryAfter(resp) >= SpentUntil => later + RetryAfter(resp) >= SpentUntil
  BY <1>1, <1>2, <1>3
<1>6. now >= SpentUntil => later >= SpentUntil
  BY <1>1, <1>3
<1>7. QED
  BY <1>2, <1>3, <1>4, <1>5, <1>6 DEF later

(* The client is past every window it knows to be spent when it next sends. *)
LEMMA OutwaitedStep ==
    ASSUME LongBackOff, Steady, Steady', Outwaited, [ClientNext]_allVars
    PROVE  Outwaited'
<1>1. ClientTypeOK /\ now \in Nat /\ now' \in Nat
  BY DEF Steady, ClientTypeOK, TypeOK
<1>2. CASE Call
  <2>1. now' >= now
    BY <1>1, <1>2, ClientAssumption DEF Call
  <2>2. QED
    BY <1>1, <1>2, <2>1, OutwaitedKept DEF Call, Goto, Handling, serverVars
<1>3. CASE TakeSlot
  <2>1. now' = now
    BY <1>3 DEF TakeSlot, Acquire
  <2>2. QED
    BY <1>1, <1>3, <2>1, OutwaitedKept DEF TakeSlot, Goto, Handling, serverVars
<1>4. CASE GiveUp
  BY <1>1, <1>4, OutwaitedKept DEF GiveUp, Goto, Handling, serverVars, vars
<1>5. CASE Pace
  <2>1. credit \in Int /\ now' = now + WaitFor(credit)
    BY <1>5 DEF Pace, Goto, Steady, Solvent, ClientTypeOK, TypeOK
  <2>2. now' >= now
    BY <1>1, <2>1 DEF WaitFor
  <2>3. QED
    BY <1>1, <1>5, <2>2, OutwaitedKept DEF Pace, Goto, Handling, serverVars
<1>6. CASE Send
  <2> SUFFICES ASSUME resp'.status = "tooMany" PROVE Outwaited'
    BY DEF Outwaited
  <2>1. /\ resp'.window = window' /\ window' = WindowAt(now)
        /\ resp'.retryAfter \in {WindowEnd(now) - now, NoHeader}
    BY <1>1, <1>6, ServerAnswers
  <2>2. pc' = "receive" /\ now' = now /\ phase' = phase
    BY <1>6 DEF Send, Goto, vars
  <2>3. SpentUntil' = WindowEnd(now)
    BY <2>1, <2>2 DEF SpentUntil, WindowEnd
  <2>4. /\ WindowEnd(now) \in Int /\ now < WindowEnd(now)
        /\ WindowEnd(now) <= now + Window
    BY <1>1, WithinWindow
  <2>5. DefaultRetryAfter \in Nat /\ Window \in Nat /\ DefaultRetryAfter >= Window
    BY ClientAssumption DEF LongBackOff
  <2>6. now + RetryAfter(resp)' >= WindowEnd(now)
    <3>1. CASE resp'.retryAfter = NoHeader
      <4>1. RetryAfter(resp)' = DefaultRetryAfter
        BY <3>1 DEF RetryAfter
      <4>2. QED
        BY <1>1, <2>4, <2>5, <4>1
    <3>2. CASE resp'.retryAfter # NoHeader
      <4>1. RetryAfter(resp)' = WindowEnd(now) - now
        BY <2>1, <3>2 DEF RetryAfter
      <4>2. QED
        BY <1>1, <2>4, <4>1
    <3>3. QED
      BY <3>1, <3>2
  <2>7. QED
    BY <2>1, <2>2, <2>3, <2>6 DEF Outwaited, Handling
<1>7. CASE Receive
  <2>1. now' >= now
    BY <1>1, <1>7, ClientAssumption DEF Receive
  <2>2. CASE resp.status = "fault"
    BY <1>7, <2>2 DEF Receive, Outwaited
  <2>3. CASE resp.status # "fault"
    BY <1>1, <1>7, <2>1, <2>3, OutwaitedKept DEF Receive, Handling, serverVars
  <2>4. QED
    BY <2>2, <2>3
<1>8. CASE SyncLimiter
  <2>1. now' = now
    BY <1>8 DEF SyncLimiter, SyncFromServer, vars
  <2>2. QED
    BY <1>1, <1>8, <2>1, OutwaitedKept DEF SyncLimiter, Goto, Handling, serverVars
<1>9. CASE Rejected
  <2>1. now' = now
    BY <1>9 DEF Rejected, SyncFromServer
  <2>2. QED
    BY <1>1, <1>9, <2>1, OutwaitedKept DEF Rejected, Goto, Handling, serverVars
<1>10. CASE Conclude
  BY <1>10 DEF Conclude, Outwaited
<1>11. CASE BackOff
  <2>1. /\ pc = "backoff" /\ pc' = "acquire" /\ now' = now + RetryAfter(resp)
        /\ resp' = resp /\ window' = window /\ phase' = phase
    BY <1>11 DEF BackOff, Goto, serverVars
  <2>2. SpentUntil' = SpentUntil
    BY <2>1 DEF SpentUntil
  <2>3. QED
    BY <2>1, <2>2 DEF Outwaited, Handling
<1>12. CASE UNCHANGED allVars
  <2>1. now' = now /\ resp' = resp /\ window' = window /\ phase' = phase /\ pc' = pc
    BY <1>12 DEF allVars, vars, clientVars, serverVars
  <2>2. QED
    BY <1>1, <2>1, OutwaitedKept
<1>13. QED
  BY <1>2, <1>3, <1>4, <1>5, <1>6, <1>7, <1>8, <1>9, <1>10, <1>11, <1>12
     DEF ClientNext, GetStep

LEMMA OutwaitedInvariance ==
    ASSUME LongBackOff
    PROVE  ClientSpec => []Outwaited
<1>1. ClientInit => Outwaited
  BY DEF ClientInit, Outwaited, NoResponse
<1>2. Steady /\ Steady' /\ Outwaited /\ [ClientNext]_allVars => Outwaited'
  BY OutwaitedStep
<1>3. QED
  BY <1>1, <1>2, SteadyInvariance, PTL DEF ClientSpec

(* If the back-off without a header outlasts a window, no request goes out  *)
(* in a window the server has called spent.                                 *)
THEOREM NeverRetriesSpentWindowHolds ==
    ASSUME LongBackOff
    PROVE  ClientSpec => NeverRetriesSpentWindow
<1> DEFINE Step == pc = "send" /\ pc' = "receive" /\ resp.status = "tooMany"
                     => window' > resp.window
<1>1. Steady /\ Outwaited /\ [ClientNext]_allVars => [Step]_allVars
  <2> SUFFICES ASSUME Steady, Outwaited, ClientNext, pc = "send", pc' = "receive",
                      resp.status = "tooMany"
               PROVE  window' > resp.window
    BY DEF Step
  <2>1. Send
    BY DEF ClientNext, GetStep, Call, TakeSlot, GiveUp, Pace, Receive, SyncLimiter,
           Rejected, Conclude, BackOff, Goto
  <2>2. ClientTypeOK /\ now \in Nat /\ resp.window \in Nat
    BY ClientTypes DEF Steady
  <2>3. now >= (resp.window + 1) * Window - phase
    BY DEF Outwaited, SpentUntil, Handling
  <2>4. window' = WindowAt(now)
    BY <2>1, <2>2, ServerAnswers
  <2>5. QED
    BY <2>2, <2>3, <2>4, PastWindow
<1>2. QED
  BY <1>1, SteadyInvariance, OutwaitedInvariance, PTL
     DEF ClientSpec, NeverRetriesSpentWindow

-----------------------------------------------------------------------------
(* A client with the token to itself *)

(* A lone client is rejected only in a window that was in use before its    *)
(* first attempt: the next attempt finds a fresh one.                       *)
LEMMA RejectedOnceStep ==
    ASSUME MaxRetries >= 2, Steady, Steady', Outwaited, RejectedOnce,
           [ClientNext]_allVars
    PROVE  RejectedOnce'
<1> SUFFICES ASSUME ~ shared'
             PROVE  /\ pc' \in Handling /\ resp'.status = "tooMany" => attempt' <= 1
                    /\ pc' = "acquire" =>
                          /\ attempt' <= 1
                          /\ attempt' = 1 => resp'.status = "tooMany"
                    /\ pc' \in Paying /\ attempt' # 1 => resp'.status = "tooMany"
                    /\ outcome' # "RateLimitExceeded"
  BY DEF RejectedOnce
<1>1. shared' = shared
  BY DEF ClientNext, GetStep, Call, TakeSlot, GiveUp, Pace, Send, Receive, SyncLimiter,
         Rejected, Conclude, BackOff, allVars, serverVars
<1>2. ClientTypeOK /\ now \in Nat /\ attempt \in Nat /\ MaxRetries \in Nat
  BY ClientTypes DEF Steady
<1>3. /\ pc \in Handling /\ resp.status = "tooMany" => attempt <= 1
      /\ pc = "acquire" => /\ attempt <= 1
                           /\ attempt = 1 => resp.status = "tooMany"
      /\ pc \in Paying /\ attempt # 1 => resp.status = "tooMany"
      /\ outcome # "RateLimitExceeded"
  BY <1>1 DEF RejectedOnce
<1>4. CASE Call
  BY <1>3, <1>4 DEF Call, Goto, Handling, Paying
<1>5. CASE TakeSlot
  <2>1. attempt = 0 \/ attempt = 1
    BY <1>2, <1>3, <1>5 DEF TakeSlot, Goto
  <2>2. QED
    BY <1>3, <1>5, <2>1 DEF TakeSlot, Goto, Handling, Paying
<1>6. CASE GiveUp
  BY <1>2, <1>3, <1>6 DEF GiveUp, Goto
<1>7. CASE Pace
  BY <1>3, <1>7 DEF Pace, Goto, Handling, Paying
<1>8. CASE Send
  <2>1. pc = "send" /\ pc' = "receive" /\ attempt' = attempt /\ outcome' = outcome
    BY <1>8 DEF Send, Goto
  <2>2. ASSUME resp'.status = "tooMany", attempt # 1 PROVE FALSE
    <3>1. resp.status = "tooMany"
      BY <1>3, <2>1, <2>2 DEF Paying
    <3>2. now >= (resp.window + 1) * Window - phase /\ resp.window = window
      BY <2>1, <3>1 DEF Outwaited, SpentUntil, Handling
    <3>3. window \in Nat
      BY <1>2 DEF ClientTypeOK
    <3>4. WindowAt(now) > window
      BY <1>2, <3>2, <3>3, PastWindow
    <3>5. window' = WindowAt(now) /\ window' = window
      BY <1>1, <1>2, <1>8, <2>2, ServerAnswers
    <3>6. QED
      BY <3>3, <3>4, <3>5
  <2>3. QED
    BY <1>2, <1>3, <2>1, <2>2 DEF Handling, Paying
<1>9. CASE Receive
  BY <1>3, <1>9 DEF Receive, Handling, Paying
<1>10. CASE SyncLimiter
  BY <1>3, <1>10 DEF SyncLimiter, Goto, Handling, Paying
<1>11. CASE Rejected
  BY <1>3, <1>11 DEF Rejected, Goto, Handling, Paying
<1>12. CASE Conclude
  <2>1. resp.status \in Statuses /\ resp.status # "fault" /\ resp.status # "tooMany"
    BY <1>2, <1>12, ClientTypes DEF Conclude, Goto, Steady, Answered
  <2>2. outcome' # "RateLimitExceeded"
    BY <1>12, <2>1 DEF Conclude, Ending, Statuses
  <2>3. QED
    BY <1>12, <2>2 DEF Conclude, Goto, Handling, Paying
<1>13. CASE BackOff
  <2>1. /\ resp.status = "tooMany" /\ pc = "backoff" /\ pc' = "acquire"
        /\ UNCHANGED <<attempt, resp, outcome>>
    BY <1>13 DEF Steady, Answered, BackOff, Goto
  <2>2. QED
    BY <1>3, <2>1 DEF Handling, Paying
<1>14. CASE UNCHANGED allVars
  BY <1>3, <1>14 DEF allVars, clientVars
<1>15. QED
  BY <1>4, <1>5, <1>6, <1>7, <1>8, <1>9, <1>10, <1>11, <1>12, <1>13, <1>14
     DEF ClientNext, GetStep

(* With two attempts or more, and such a back-off, a client that has the    *)
(* token to itself never runs out of retries.                               *)
THEOREM AloneNeverExceedsHolds ==
    ASSUME LongBackOff, MaxRetries >= 2
    PROVE  ClientSpec => []AloneNeverExceeds
<1>1. ClientInit => RejectedOnce
  BY DEF ClientInit, RejectedOnce, Handling, Paying
<1>2. /\ Steady /\ Steady' /\ Outwaited /\ RejectedOnce /\ [ClientNext]_allVars
      => RejectedOnce'
  BY RejectedOnceStep
<1>3. RejectedOnce => AloneNeverExceeds
  BY DEF RejectedOnce, AloneNeverExceeds
<1>4. QED
  BY <1>1, <1>2, <1>3, SteadyInvariance, OutwaitedInvariance, PTL DEF ClientSpec

-----------------------------------------------------------------------------
(* The limiter as the client uses it *)

(* Every step of the client is one of the limiter's operations, time that   *)
(* passes, or nothing to it; so the limiter's invariant holds.              *)
LEMMA LimiterStep ==
    ASSUME Steady, Steady', IInv, [ClientNext]_allVars
    PROVE  IInv'
<1>1. ClientTypeOK /\ now \in Nat /\ now' \in Nat
  BY DEF Steady, ClientTypeOK, TypeOK
<1>2. CASE TakeSlot
  BY <1>2, AcquireIInv DEF TakeSlot
<1>3. CASE SyncLimiter /\ resp.available # NoHeader
  <2>1. SyncFromServer(resp.available) /\ resp.available \in Nat
    BY <1>1, <1>3, ClientTypes DEF SyncLimiter
  <2>2. QED
    BY <2>1, SyncIInv
<1>4. CASE Rejected
  <2>1. SyncFromServer(0) /\ 0 \in Nat
    BY <1>4 DEF Rejected
  <2>2. QED
    BY <2>1, SyncIInv
<1>5. CASE Call \/ Receive
  <2>1. now' >= now /\ UNCHANGED limiterVars
    BY <1>1, <1>5, ClientAssumption DEF Call, Receive
  <2>2. QED
    BY <1>1, <2>1, TimePassesIInv
<1>6. CASE BackOff
  <2>1. now' >= now /\ UNCHANGED limiterVars
    BY <1>1, <1>6, ClientTypes DEF BackOff
  <2>2. QED
    BY <1>1, <2>1, TimePassesIInv
<1>7. CASE Pace
  <2>1. credit \in Int /\ now' = now + WaitFor(credit) /\ UNCHANGED limiterVars
    BY <1>7 DEF Pace, Goto, Steady, Solvent, ClientTypeOK, TypeOK
  <2>2. now' >= now
    BY <1>1, <2>1 DEF WaitFor
  <2>3. QED
    BY <1>1, <2>1, <2>2, TimePassesIInv
<1>8. CASE UNCHANGED vars
  <2>1. now' >= now /\ UNCHANGED limiterVars
    BY <1>1, <1>8 DEF vars, limiterVars
  <2>2. QED
    BY <1>1, <2>1, TimePassesIInv
<1>9. GiveUp \/ Send \/ Conclude \/ (SyncLimiter /\ resp.available = NoHeader)
         \/ UNCHANGED allVars
      => UNCHANGED vars
  BY DEF GiveUp, Send, Conclude, SyncLimiter, allVars
<1>10. QED
  BY <1>2, <1>3, <1>4, <1>5, <1>6, <1>7, <1>8, <1>9 DEF ClientNext, GetStep

LEMMA LimiterInvariance == ClientSpec => []IInv
<1>1. ClientInit => IInv
  BY InitIInv DEF ClientInit
<1>2. Steady /\ Steady' /\ IInv /\ [ClientNext]_allVars => IInv'
  BY LimiterStep
<1>3. QED
  BY <1>1, <1>2, SteadyInvariance, PTL DEF ClientSpec

(* No period holds more than 2 * Capacity - 1 of the client's slots.        *)
THEOREM ClientBurstIsBounded == ClientSpec => []BurstBound
BY LimiterInvariance, BurstFromIInv, PTL

(* The client's slots respect every count the server has reported to it.    *)
THEOREM ClientRespectsServerCount == ClientSpec => []ServerCountRespected
BY LimiterInvariance, ServerCountFromIInv, PTL

=============================================================================
