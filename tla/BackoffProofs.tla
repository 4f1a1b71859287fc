---------------------------- MODULE BackoffProofs ----------------------------
(***************************************************************************)
(* Proofs about Backoff, for every unit, width, header and clock.          *)
(***************************************************************************)
EXTENDS Backoff, TLAPS

\* A duration that fits is not changed by the multiplication's wrap-around.
LEMMA WrapFits ==
    ASSUME NEW i \in Nat, i < Half
    PROVE  Wrap(i) = i
<1>1. Half \in Nat
  BY HalfAssumption
<1>2. i % (2 * Half) = i
  BY <1>1
<1>3. QED
  BY <1>2 DEF Wrap

LEMMA WrapType ==
    ASSUME NEW i \in Nat
    PROVE  Wrap(i) \in Int
<1>1. Half \in Nat /\ 2 * Half > 0
  BY HalfAssumption, SecondAssumption
<1>2. i % (2 * Half) \in Int
  BY <1>1
<1>3. QED
  BY <1>1, <1>2 DEF Wrap

LEMMA BackoffTypes ==
    /\ DefaultBackoff \in Nat /\ MaxBackoff \in Nat
    /\ 0 < DefaultBackoff /\ DefaultBackoff <= MaxBackoff
  BY SecondAssumption DEF DefaultBackoff, MaxBackoff

\* setBackoff parks for no more than ten minutes, and for as long as it is
\* told to if that is less.
LEMMA ClampedBackoffFacts ==
    ASSUME NEW d \in Int
    PROVE  /\ ClampedBackoff(d) \in Nat
           /\ ClampedBackoff(d) <= MaxBackoff
           /\ AtMost(d, MaxBackoff) <= ClampedBackoff(d)
  BY BackoffTypes DEF ClampedBackoff, AtMost

LEMMA HeaderType ==
    ASSUME NEW h \in Headers
    PROVE  h.n \in Nat /\ h.n * Second \in Nat
<1>1. h.n \in Nat
  BY HeadersAssumption
<1>2. QED
  BY <1>1, SecondAssumption

LEMMA ParsedType ==
    ASSUME TypeOK, NEW h \in Headers
    PROVE  ParseRetryAfter(h) \in Int /\ AskedFor(h) \in Nat
<1>1. h.n * Second \in Nat /\ Wrap(h.n * Second) \in Int
  BY HeaderType, WrapType
<1>2. now \in Nat
  BY HorizonAssumption DEF TypeOK
<1>3. QED
  BY <1>1, <1>2, BackoffTypes DEF ParseRetryAfter, AskedFor, AtMost

\* What the upstream asks for is no more than what its parsed answer leads to.
LEMMA AskedIsGranted ==
    ASSUME TypeOK, NEW h \in Headers
    PROVE  AskedFor(h) <= now + ClampedBackoff(ParseRetryAfter(h))
<1> DEFINE x == h.n * Second
<1>1. h.n \in Nat /\ x \in Nat
  BY HeaderType
<1>2. now \in Nat
  BY HorizonAssumption DEF TypeOK
<1>3. CASE h.kind = "seconds" /\ x < Half
  <2>1. h.n <= x
    BY <1>1, SecondAssumption
  <2>2. h.n < Half
    BY <1>1, <1>3, <2>1, HalfAssumption
  <2>3. ParseRetryAfter(h) = x
    BY <1>1, <1>3, <2>2, WrapFits DEF ParseRetryAfter
  <2>4. AskedFor(h) = now + AtMost(x, MaxBackoff)
    BY <1>3 DEF AskedFor
  <2>5. AtMost(x, MaxBackoff) <= ClampedBackoff(x)
    BY <1>1, ClampedBackoffFacts
  <2> HIDE DEF x
  <2>6. QED
    BY <1>1, <1>2, <2>3, <2>4, <2>5, BackoffTypes, ClampedBackoffFacts DEF AtMost
<1>4. CASE h.kind = "date"
  <2>1. AskedFor(h) = AtMost(x, now + MaxBackoff)
    BY <1>4 DEF AskedFor
  <2>2. ParseRetryAfter(h) = IF x > now THEN x - now ELSE 0
    BY <1>4 DEF ParseRetryAfter
  <2> HIDE DEF x
  <2>3. QED
    BY <1>1, <1>2, <2>1, <2>2, BackoffTypes DEF AtMost, ClampedBackoff
<1>5. CASE ~(h.kind = "seconds" /\ x < Half) /\ h.kind # "date"
  <2>1. AskedFor(h) = 0
    BY <1>5 DEF AskedFor
  <2>2. QED
    BY <1>2, <2>1, ParsedType, ClampedBackoffFacts
<1>6. QED
  BY <1>3, <1>4, <1>5

-----------------------------------------------------------------------------
\* The window is bounded, and covers what was asked for or will once it is set.
WindowInv ==
    /\ TypeOK
    /\ backoffUntil <= now + MaxBackoff
    /\ ~parking.on => asked <= now \/ asked <= backoffUntil
    /\ parking.on => asked <= now + ClampedBackoff(parking.d)

LEMMA WindowInit == Init => WindowInv
<1> SUFFICES ASSUME Init PROVE WindowInv
  OBVIOUS
<1>1. TypeOK
  BY HorizonAssumption DEF Init, TypeOK, NotParking
<1>2. QED
  BY <1>1, BackoffTypes DEF Init, WindowInv, NotParking

LEMMA WindowNext == WindowInv /\ [Next]_vars => WindowInv'
<1> SUFFICES ASSUME WindowInv, [Next]_vars PROVE WindowInv'
  OBVIOUS
<1>1. /\ TypeOK /\ now \in Nat /\ now \in 1..Horizon /\ backoffUntil \in Nat
      /\ asked \in Nat /\ parking \in [on : BOOLEAN, d : Int]
  BY HorizonAssumption DEF WindowInv, TypeOK
<1>2. ASSUME NEW h \in Headers, RateLimited(h) PROVE WindowInv'
  <2>1. /\ now' = now /\ backoffUntil' = 0 /\ asked' = AskedFor(h)
        /\ parking' = [on |-> TRUE, d |-> ParseRetryAfter(h)]
    BY <1>2 DEF RateLimited
  <2>2. TypeOK'
    BY <1>1, <2>1, ParsedType DEF TypeOK
  <2>3. asked' <= now' + ClampedBackoff(parking.d)'
    BY <1>1, <2>1, AskedIsGranted DEF ClampedBackoff
  <2>4. backoffUntil' <= now' + MaxBackoff
    BY <1>1, <2>1, BackoffTypes
  <2>5. QED
    BY <2>1, <2>2, <2>3, <2>4 DEF WindowInv, MaxBackoff
<1>3. CASE SetBackoff
  <2>1. /\ now' = now /\ asked' = asked /\ parking' = NotParking
        /\ backoffUntil' = now + ClampedBackoff(parking.d) /\ parking.on
    BY <1>3 DEF SetBackoff
  <2>2. ClampedBackoff(parking.d) \in Nat /\ ClampedBackoff(parking.d) <= MaxBackoff
    BY <1>1, ClampedBackoffFacts
  <2>3. TypeOK'
    BY <1>1, <2>1, <2>2 DEF TypeOK, NotParking
  <2>4. asked' <= backoffUntil'
    BY <2>1 DEF WindowInv
  <2>5. backoffUntil' <= now' + MaxBackoff
    BY <1>1, <2>1, <2>2, BackoffTypes
  <2>6. QED
    BY <2>1, <2>3, <2>4, <2>5 DEF WindowInv, NotParking, MaxBackoff
<1>4. ASSUME NEW s \in Steps, Advance(s) PROVE WindowInv'
  <2>1. s * Second \in Nat
    BY StepsAssumption, SecondAssumption
  <2>2. /\ now' = now + s * Second /\ now' <= Horizon
        /\ UNCHANGED <<backoffUntil, parking, asked>>
    BY <1>4 DEF Advance
  <2>3. now' \in Nat /\ now <= now' /\ now' \in 1..Horizon
    BY <1>1, <2>1, <2>2, HorizonAssumption
  <2>4. TypeOK'
    BY <1>1, <2>2, <2>3 DEF TypeOK
  <2>5. ClampedBackoff(parking.d) \in Nat /\ ClampedBackoff(parking.d)' = ClampedBackoff(parking.d)
    BY <1>1, <2>2, ClampedBackoffFacts DEF ClampedBackoff
  <2>6. backoffUntil' <= now' + MaxBackoff
    BY <1>1, <2>2, <2>3, BackoffTypes DEF WindowInv
  <2>7. ~parking'.on => asked' <= now' \/ asked' <= backoffUntil'
    BY <1>1, <2>2, <2>3 DEF WindowInv
  <2>8. parking'.on => asked' <= now' + ClampedBackoff(parking.d)'
    BY <1>1, <2>2, <2>3, <2>5 DEF WindowInv
  <2>9. QED
    BY <2>4, <2>6, <2>7, <2>8 DEF WindowInv, MaxBackoff
<1>5. CASE UNCHANGED vars
  BY <1>5 DEF vars, WindowInv, TypeOK, ClampedBackoff, MaxBackoff
<1>6. QED
  BY <1>2, <1>3, <1>4, <1>5 DEF Next

LEMMA WindowIsInvariant == Spec => []WindowInv
  BY WindowInit, WindowNext, PTL DEF Spec

-----------------------------------------------------------------------------
\* The variables of the window are well typed in every reachable state: no
\* header leads to an instant before the start (client.go:44-60).
THEOREM BackoffTypeCorrect == Spec => []TypeOK
<1>1. WindowInv => TypeOK
  BY DEF WindowInv
<1>2. QED
  BY <1>1, WindowIsInvariant, PTL

\* No header, however large or malformed, keeps the reconciler parked for more
\* than ten minutes (reconciler.go:136-138).
THEOREM NeverPinnedHolds == Spec => []NeverPinned
<1>1. WindowInv => NeverPinned
  <2> SUFFICES ASSUME WindowInv PROVE NeverPinned
    OBVIOUS
  <2>1. now \in Nat /\ backoffUntil \in Nat
    BY HorizonAssumption DEF WindowInv, TypeOK
  <2>2. QED
    BY <2>1, BackoffTypes DEF WindowInv, NeverPinned, BackoffRemaining
<1>2. QED
  BY <1>1, WindowIsInvariant, PTL

\* The upstream is not called before the time that it asked for, cut to ten
\* minutes (client.go:17-19, reconciler.go:59-64).
THEOREM RetryAfterHolds == Spec => RetryAfterIsHonoured
<1>1. WindowInv => [\A h \in Headers : RateLimited(h) => now >= asked]_vars
  <2> SUFFICES ASSUME WindowInv, NEW h \in Headers, RateLimited(h)
               PROVE  now >= asked
    OBVIOUS
  <2>1. now \in Nat /\ backoffUntil \in Nat /\ asked \in Nat
    BY HorizonAssumption DEF WindowInv, TypeOK
  <2>2. ~parking.on /\ BackoffRemaining = 0
    BY DEF RateLimited
  <2>3. backoffUntil <= now
    BY <2>1, <2>2 DEF BackoffRemaining
  <2>4. QED
    BY <2>1, <2>2, <2>3 DEF WindowInv
<1>2. QED
  BY <1>1, WindowIsInvariant, PTL DEF RetryAfterIsHonoured
=============================================================================
