------------------------------- MODULE Backoff -------------------------------
(***************************************************************************)
(* The rate-limit window of a Reconciler: the Retry-After header of a 429  *)
(* (internal/ebookdb/client.go, parseRetryAfter) and the backoffUntil it   *)
(* leads to (internal/reconciler/reconciler.go).  In RequestPipeline the   *)
(* window is the Boolean parked; here it is an instant.                    *)
(*                                                                         *)
(* Instants and durations are integers, Second of them to a second.  A     *)
(* time.Duration wraps around at Half = 2^(w - 1), as int64 nanoseconds do *)
(* at w = 64.  The zero instant is "no window".                            *)
(***************************************************************************)
EXTENDS Integers

CONSTANTS
    Second,          \* units in a second
    Half,            \* a time.Duration and an int reach from -Half to Half - 1
    Headers,         \* Retry-After headers the upstream may send
    Steps,           \* how far the clock may advance at once, in seconds
    Horizon          \* bound on the clock, in units

ASSUME SecondAssumption  == Second \in Nat \ {0}
ASSUME HalfAssumption    == Half \in Nat /\ 600 * Second < Half
ASSUME HorizonAssumption == Horizon \in Nat \ {0}
ASSUME StepsAssumption   == Steps \subseteq Nat \ {0}

HeaderKinds == {"none",       \* no header, or text parseRetryAfter gives up on
                "seconds",    \* n seconds
                "date"}       \* the HTTP date n seconds after the start
ASSUME HeadersAssumption == Headers \subseteq [kind : HeaderKinds, n : Nat]

VARIABLES
    now,            \* the clock
    backoffUntil,   \* 0 for the zero time
    parking,        \* the 429 being handled: its duration, or NotParking
    asked           \* the instant until which the upstream asked for quiet

vars == <<now, backoffUntil, parking, asked>>

DefaultBackoff == 60 * Second
MaxBackoff     == 600 * Second
NotParking     == [on |-> FALSE, d |-> 0]

\* Two's complement
Wrap(i) == LET m == i % (2 * Half) IN IF m < Half THEN m ELSE m - 2 * Half

AtMost(a, b) == IF a < b THEN a ELSE b

TypeOK ==
    /\ now \in 1..Horizon
    /\ backoffUntil \in Nat
    /\ parking \in [on : BOOLEAN, d : Int]
    /\ asked \in Nat

Init == now = 1 /\ backoffUntil = 0 /\ parking = NotParking /\ asked = 0

-----------------------------------------------------------------------------
\* Mutant of ParseRetryAfter: dates are not understood.
ParseSecondsOnly(h) ==
    IF h.kind = "seconds" /\ h.n < Half THEN Wrap(h.n * Second) ELSE 0

\* A number that does not fit in an int is not a number to Atoi, nor a date.
ParseRetryAfter(h) ==
    CASE h.kind = "seconds" /\ h.n < Half -> Wrap(h.n * Second)
      [] h.kind = "date" /\ h.n * Second > now     -> h.n * Second - now
      [] OTHER                                     -> 0

\* Mutants of ClampedBackoff: without the default, without the cap.
CappedBackoff(d)    == AtMost(d, MaxBackoff)
DefaultedBackoff(d) == IF d <= 0 THEN DefaultBackoff ELSE d

\* The duration setBackoff parks for
ClampedBackoff(d) == IF d <= 0 THEN DefaultBackoff ELSE AtMost(d, MaxBackoff)

BackoffRemaining == IF backoffUntil > now THEN backoffUntil - now ELSE 0

\* What the header asks for, in exact arithmetic, no more than the ten minutes
\* that are granted: 0 when no duration can hold it.
AskedFor(h) ==
    CASE h.kind = "seconds" /\ h.n * Second < Half ->
             now + AtMost(h.n * Second, MaxBackoff)
      [] h.kind = "date" -> AtMost(h.n * Second, now + MaxBackoff)
      [] OTHER           -> 0

-----------------------------------------------------------------------------
\* A tick looks at the window, which also forgets one that has passed, and
\* the poll of a row is answered with 429.
RateLimited(h) ==
    /\ ~parking.on
    /\ BackoffRemaining = 0
    /\ parking' = [on |-> TRUE, d |-> ParseRetryAfter(h)]
    /\ asked' = AskedFor(h)
    /\ backoffUntil' = 0
    /\ UNCHANGED now

\* setBackoff, some time after the answer was read
SetBackoff ==
    /\ parking.on
    /\ backoffUntil' = now + ClampedBackoff(parking.d)
    /\ parking' = NotParking
    /\ UNCHANGED <<now, asked>>

Advance(s) ==
    /\ now + s * Second <= Horizon
    /\ now' = now + s * Second
    /\ UNCHANGED <<backoffUntil, parking, asked>>

Next ==
    \/ \E h \in Headers : RateLimited(h)
    \/ SetBackoff
    \/ \E s \in Steps : Advance(s)

Spec == Init /\ [][Next]_vars

-----------------------------------------------------------------------------
\* Whatever the header says, overflowing or far in the future, the window is
\* open again after ten minutes at most (reconciler.go:136-138).
NeverPinned == BackoffRemaining <= MaxBackoff

\* The upstream is not called again before the time it asked for, cut to ten
\* minutes, whether it asked with a delay or with a date, and however late the
\* answer is acted upon (client.go:17-19, reconciler.go:59-64).
RetryAfterIsHonoured == [][\A h \in Headers : RateLimited(h) => now >= asked]_vars
=============================================================================
