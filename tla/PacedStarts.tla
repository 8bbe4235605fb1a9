---------------------------- MODULE PacedStarts ----------------------------
(***************************************************************************)
(* What a caller of the rate limiter may rely on, with no bucket in sight:  *)
(* request slots are handed out one after another, each with the time from  *)
(* which it may be used.  A slot is never in the past, never overtakes the  *)
(* one handed out before it, and lies far enough behind each earlier slot:  *)
(* the j-th start comes at least (j - i - Capacity + 1) intervals after the *)
(* i-th.  (A bucket of Capacity tokens that starts full allows a burst of   *)
(* Capacity starts at once and one more per Interval after that.)           *)
(***************************************************************************)
EXTENDS Integers, Sequences

CONSTANTS Capacity, Interval

VARIABLES
    now,     \* the caller's clock
    starts   \* starts[k]: the time from which the k-th slot may be used

vars == <<now, starts>>

Init == now = 0 /\ starts = <<>>

Tick == now' > now /\ UNCHANGED starts

\* The start s may be handed out as slot number Len(starts) + 1.
MayHandOut(s) ==
    /\ s >= now
    /\ \A i \in 1 .. Len(starts) :
          /\ s >= starts[i]
          /\ s - starts[i] >= (Len(starts) + 2 - i - Capacity) * Interval

HandOut ==
    /\ Len(starts') > 0
    /\ LET s == starts'[Len(starts')] IN
          /\ starts' = Append(starts, s)
          /\ MayHandOut(s)
    /\ UNCHANGED now

Next == Tick \/ HandOut

Spec == Init /\ [][Next]_vars

=============================================================================
