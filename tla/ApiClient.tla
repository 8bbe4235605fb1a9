----------------------------- MODULE ApiClient -----------------------------
(***************************************************************************)
(* FootballDataClient.get of football_pipeline/client.py, over its rate     *)
(* limiter and the server's quota.  One client, one thread: the resource    *)
(* generators of an ingest call get one after another.                      *)
(*                                                                         *)
(* Time passes in jumps: while the client sleeps (pacing, back-off), while  *)
(* a request is on its way, and between two calls.  The server is outside   *)
(* the repository; it is modelled from how the client uses it: a quota of   *)
(* Quota requests per window, windows that begin at a phase the client does *)
(* not know, 429 once a window's quota is used up, and the two headers,     *)
(* which may be missing or unreadable (the client treats both alike).       *)
(***************************************************************************)
EXTENDS RateLimiter

CONSTANTS
    MaxRetries,          \* max_retries
    DefaultRetryAfter,   \* DEFAULT_RETRY_AFTER, in ticks
    Quota,               \* requests the server admits in a window
    Window,              \* length of the server's window, in ticks
    OtherUse,            \* how much of it another holder of the token takes
    Latency,             \* how long a request may take
    Idle,                \* how long the caller may pause between two gets
    MaxGets              \* bound: calls of get

ASSUME ClientAssumption ==
    /\ MaxRetries \in Nat /\ DefaultRetryAfter \in Nat
    /\ Quota \in Nat \ {0} /\ Window \in Nat \ {0}
    /\ OtherUse \subseteq Nat /\ Latency \subseteq Nat /\ Idle \subseteq Nat
    /\ MaxGets \in Nat

NoHeader == -1

VARIABLES
    pc,        \* where get is
    attempt,   \* the loop variable of get: attempts begun
    resp,      \* the response being handled
    outcome,   \* how the last get ended
    gets,      \* calls of get so far (bounds the instance)
    sent,      \* history: when each request was sent
    phase,     \* the server: a window begins when now + phase is a multiple
    window,    \*   of Window; the window it last counted in
    used,      \*   requests counted in that window
    shared     \*   whether somebody else uses the token too

serverVars == <<phase, window, used, shared>>
clientVars == <<pc, attempt, resp, outcome, gets, sent>>
allVars == <<vars, clientVars, serverVars>>

Statuses == {"ok", "notFound", "serverError", "tooMany", "fault"}
Outcomes ==
    {"none", "json", "NotFoundError", "RateLimitExceeded", "requestException"}

NoResponse == [status |-> "fault", available |-> NoHeader,
               retryAfter |-> NoHeader, window |-> 0]

WindowAt(t) == (t + phase) \div Window

\* When the window that holds time t ends.
WindowEnd(t) == (WindowAt(t) + 1) * Window - phase

ClientInit ==
    /\ Init
    /\ pc = "idle" /\ attempt = 0 /\ resp = NoResponse
    /\ outcome = "none" /\ gets = 0 /\ sent = <<>>
    /\ phase \in 0 .. Window - 1
    /\ window = 0
    \* An earlier run may have used part of the window already.
    /\ used \in 0 .. Quota
    /\ shared \in BOOLEAN

Goto(from, to) == pc = from /\ pc' = to

\* The caller does something else for a while, then calls get.
Call ==
    /\ gets < MaxGets
    /\ Goto("idle", "acquire")
    /\ \E d \in Idle : now' = now + d
    /\ gets' = gets + 1
    /\ attempt' = 0
    /\ outcome' = "none"
    /\ UNCHANGED <<limiterVars, resp, sent, serverVars>>

(* Mutant: the loop makes one attempt too many. *)
TakeSlotOnceMore ==
    /\ attempt <= MaxRetries
    /\ Goto("acquire", "pace")
    /\ Acquire
    /\ attempt' = attempt + 1
    /\ UNCHANGED <<resp, outcome, gets, sent, serverVars>>

\* wait = self._limiter.acquire(), or the loop is over.
TakeSlot ==
    /\ attempt < MaxRetries
    /\ Goto("acquire", "pace")
    /\ Acquire
    /\ attempt' = attempt + 1
    /\ UNCHANGED <<resp, outcome, gets, sent, serverVars>>

GiveUp ==
    /\ attempt >= MaxRetries
    /\ Goto("acquire", "idle")
    /\ outcome' = "RateLimitExceeded"
    /\ UNCHANGED <<vars, attempt, resp, gets, sent, serverVars>>

(* Mutant: the wait that acquire reports is not slept. *)
PaceWithoutSleep ==
    /\ Goto("pace", "send")
    /\ UNCHANGED <<vars, attempt, resp, outcome, gets, sent, serverVars>>

\* if wait > 0: self._sleep(wait).
Pace ==
    /\ Goto("pace", "send")
    /\ now' = starts[Len(starts)]
    /\ UNCHANGED <<limiterVars, attempt, resp, outcome, gets, sent, serverVars>>

\* What the server may say of the quota: the truth, or nothing readable.
Said(n) == {n, NoHeader}

\* The server counts the request and answers it.
Admit(counted) ==
    /\ counted < Quota
    /\ used' = counted + 1
    /\ \E status \in {"ok", "notFound", "serverError"} :
       \E available \in Said(Quota - used') :
          resp' = [status |-> status, available |-> available,
                   retryAfter |-> NoHeader, window |-> window']

Reject(counted) ==
    /\ counted >= Quota
    /\ used' = Quota
    /\ \E available \in Said(0) : \E retryAfter \in Said(WindowEnd(now) - now) :
          resp' = [status |-> "tooMany", available |-> available,
                   retryAfter |-> retryAfter, window |-> window']

\* No answer reaches the client; the server may have counted the request.
Lose(counted) ==
    /\ used' \in {AtMost(Quota, counted), AtMost(Quota, counted + 1)}
    /\ resp' = NoResponse

\* self._session.get: the request reaches the server now.
Send ==
    /\ Goto("send", "receive")
    /\ sent' = Append(sent, now)
    /\ window' = WindowAt(now)
    /\ \E others \in IF shared THEN OtherUse ELSE {0} :
          LET counted == (IF window' = window THEN used ELSE 0) + others
          IN  Admit(counted) \/ Reject(counted) \/ Lose(counted)
    /\ UNCHANGED <<vars, attempt, outcome, gets, phase, shared>>

\* The response arrives, or session.get raises, after some latency.
Receive ==
    /\ pc = "receive"
    /\ \E d \in Latency : now' = now + d
    /\ IF resp.status = "fault"
       THEN pc' = "idle" /\ outcome' = "requestException"
       ELSE pc' = "sync" /\ UNCHANGED outcome
    /\ UNCHANGED <<limiterVars, attempt, resp, gets, sent, serverVars>>

\* _sync_limiter: only a readable header reaches the limiter.
SyncLimiter ==
    /\ Goto("sync", "dispatch")
    /\ IF resp.available = NoHeader
       THEN UNCHANGED vars
       ELSE SyncFromServer(resp.available)
    /\ UNCHANGED <<attempt, resp, outcome, gets, sent, serverVars>>

\* A 429: the server has just told us the window is spent.
Rejected ==
    /\ resp.status = "tooMany"
    /\ Goto("dispatch", "backoff")
    /\ SyncFromServer(0)
    /\ UNCHANGED <<attempt, resp, outcome, gets, sent, serverVars>>

Ending(status) ==
    CASE status = "ok"          -> "json"
      [] status = "notFound"    -> "NotFoundError"
      [] status = "serverError" -> "requestException"

\* Any other status ends get: a result, NotFoundError or raise_for_status.
Conclude ==
    /\ resp.status # "tooMany"
    /\ Goto("dispatch", "idle")
    /\ outcome' = Ending(resp.status)
    /\ UNCHANGED <<vars, attempt, resp, gets, sent, serverVars>>

(* Mutant: an unreadable Retry-After means no wait. *)
RetryAfterOrNow(r) == IF r.retryAfter = NoHeader THEN 0 ELSE r.retryAfter

\* _retry_after.
RetryAfter(r) ==
    IF r.retryAfter = NoHeader THEN DefaultRetryAfter ELSE r.retryAfter

(* Mutant: a rejected attempt is not counted, so the loop never ends. *)
BackOffUncounted ==
    /\ Goto("backoff", "acquire")
    /\ now' = now + RetryAfter(resp)
    /\ attempt' = attempt - 1
    /\ UNCHANGED <<limiterVars, resp, outcome, gets, sent, serverVars>>

\* self._sleep(_retry_after(response)); continue.
BackOff ==
    /\ Goto("backoff", "acquire")
    /\ now' = now + RetryAfter(resp)
    /\ UNCHANGED <<limiterVars, attempt, resp, outcome, gets, sent, serverVars>>

GetStep ==
    \/ TakeSlot \/ GiveUp \/ Pace \/ Send \/ Receive
    \/ SyncLimiter \/ Rejected \/ Conclude \/ BackOff

ClientNext == Call \/ GetStep

\* The client is one thread and session.get has a timeout, so a call that has
\* begun is carried on; nothing obliges the caller to call again.
ClientSpec == ClientInit /\ [][ClientNext]_allVars /\ WF_allVars(GetStep)

-----------------------------------------------------------------------------
ClientTypeOK ==
    /\ TypeOK
    /\ pc \in {"idle", "acquire", "pace", "send", "receive", "sync", "dispatch",
               "backoff"}
    /\ attempt \in 0 .. MaxRetries
    /\ resp \in [status : Statuses, available : Nat \cup {NoHeader},
                 retryAfter : Nat \cup {NoHeader}, window : Nat]
    /\ outcome \in Outcomes
    /\ gets \in 0 .. MaxGets
    /\ sent \in Seq(Nat)
    /\ phase \in 0 .. Window - 1 /\ window \in Nat /\ used \in 0 .. Quota
    /\ shared \in BOOLEAN

(* Every request has a slot of its own and goes out no earlier than that    *)
(* slot, whatever mixture of answers, rejections and faults came before it  *)
(* (client.py:55-60), so the limiter's promises hold of real requests.      *)
SlotPerRequest ==
    /\ Len(sent) <= Len(starts) /\ Len(starts) <= Len(sent) + 1
    /\ \A k \in DOMAIN sent : sent[k] >= starts[k]

(* The client never sleeps longer than one refill before a request: it has  *)
(* waited out its earlier slots, so its debt is at most one token, even     *)
(* after the server has emptied the bucket.                                 *)
PacedWithinOneInterval ==
    pc = "pace" => starts[Len(starts)] <= now + Interval

(* After a 429 no request, of this get or of the next, is sent in the       *)
(* window the server has called spent (client.py:14, 63-67: the back-off    *)
(* outlasts the window, with or without a Retry-After header).              *)
NeverRetriesSpentWindow ==
    [][ pc = "send" /\ pc' = "receive" /\ resp.status = "tooMany"
          => window' > resp.window ]_allVars

(* With the token to itself, a client never runs out of retries, although   *)
(* its bucket and the server's windows are out of step and earlier runs may *)
(* have used the window: RateLimitExceeded means somebody else uses it.     *)
AloneNeverExceeds == ~ shared => outcome # "RateLimitExceeded"

(* Every get ends: with a result or with an exception.                      *)
GetEnds == pc = "acquire" ~> pc = "idle"

=============================================================================
