---------------------------- MODULE RateLimiter -----------------------------
(***************************************************************************)
(* RateLimiter (ops/api_security.py): the sliding window of one bucket     *)
(* over a bounded map of callers.  A limiter is [order, hits]: its keys,   *)
(* coldest first, and the times admitted of each.                          *)
(***************************************************************************)
EXTENDS Integers, Sequences, SequencesExt

CONSTANTS Window, MaxKeys
ASSUME LimiterAssumption == Window \in Nat /\ MaxKeys \in Nat \ {0}

EmptyLimiter == [order |-> << >>, hits |-> [k \in {} |-> << >>]]

\* The first times are dropped as long as they are not after since.
Within(times, since) ==
    LET dropped == CHOOSE n \in 0 .. Len(times) :
                      /\ \A i \in 1 .. n : times[i] <= since
                      /\ n < Len(times) => times[n + 1] > since
    IN  SubSeq(times, dropped + 1, Len(times))

\* The hits of a key that have not left the window.
Recent(limiter, key, now) ==
    Within(IF key \in DOMAIN limiter.hits THEN limiter.hits[key] ELSE << >>, now - Window)

Allows(limiter, key, now, limit) == Len(Recent(limiter, key, now)) < limit

\* A bug: a refused request leaves its key where it was.
TouchedIfAdmitted(limiter, key, allowed) ==
    IF key \in DOMAIN limiter.hits /\ ~allowed THEN limiter.order
    ELSE Append(RemoveFirst(limiter.order, key), key)

\* move_to_end, or the end of the map for a new key.
Touched(limiter, key, allowed) == Append(RemoveFirst(limiter.order, key), key)

\* check: hits that left the window go, a caller at its limit is refused, an
\* admitted one is recorded, and then the coldest key is evicted.
Checked(limiter, key, now, limit) ==
    LET recent  == Recent(limiter, key, now)
        allowed == Allows(limiter, key, now, limit)
        keys    == Touched(limiter, key, allowed)
        kept    == IF allowed /\ Len(keys) > MaxKeys THEN Tail(keys) ELSE keys
    IN  [order |-> kept,
         hits  |-> [k \in ToSet(kept) |->
                      IF k # key THEN limiter.hits[k]
                      ELSE IF allowed THEN Append(recent, now) ELSE recent]]
=============================================================================
