----------------------------- MODULE RateLimiter -----------------------------
(****************************************************************************)
(* InProcessRateLimiter of http_security.py: token buckets in an LRU cache  *)
(* of bounded size, as operators on a cache                                 *)
(*     [order |-> the keys of the OrderedDict, least recently used first,   *)
(*      bucket |-> the bucket of each key, None for a key not cached].      *)
(*                                                                          *)
(* check reads the clock and then takes an asyncio lock whose holder never  *)
(* awaits, so the lock is always free and a call is one step.               *)
(*                                                                          *)
(* Time is counted in ticks and Window is a number of ticks.  Tokens are    *)
(* scaled by Window, which makes the refill an integer: a bucket is full at *)
(* Capacity * Window, a request costs Window, a tick refills Capacity.  The *)
(* code does the same sums on floats.                                       *)
(****************************************************************************)
EXTENDS Integers, SequencesExt

CONSTANTS
    Capacity,   \* rate_limit_capacity, in requests
    Window,     \* rate_limit_window_seconds, in ticks
    Second,     \* ticks in a second
    MaxKeys,    \* rate_limit_max_keys
    None

\* The bounds the constructor insists on.
ASSUME LimiterAssumption ==
    /\ Capacity \in Nat \ {0}
    /\ Window \in Nat \ {0}
    /\ Second \in Nat \ {0}
    /\ MaxKeys \in Nat \ {0}

Full == Capacity * Window

Buckets == [level : 0..Full, at : Nat]
ASSUME NoBucketAssumption == None \notin Buckets

EmptyCache(keys) == [order |-> <<>>, bucket |-> [k \in keys |-> None]]

Smaller(a, b) == IF a <= b THEN a ELSE b
Larger(a, b) == IF a >= b THEN a ELSE b

Known(cache, k) == cache.bucket[k] # None

\* Mutant: the bound is noticed one key too late.
EvictsLate(cache, k) == ~Known(cache, k) /\ Len(cache.order) > MaxKeys

\* A key that is not cached finds the cache at its bound.
Evicts(cache, k) == ~Known(cache, k) /\ Len(cache.order) >= MaxKeys

\* Mutant: a hit does not move the key to the end.
TouchedOnce(cache, k) ==
    IF Known(cache, k) THEN cache.order
    ELSE Append(IF Evicts(cache, k) THEN Tail(cache.order) ELSE cache.order, k)

\* popitem(last=False), insertion and move_to_end
Touched(cache, k) ==
    Append(IF Known(cache, k) THEN RemoveFirst(cache.order, k)
           ELSE IF Evicts(cache, k) THEN Tail(cache.order)
           ELSE cache.order, k)

\* Mutant: the refill is not capped by the capacity.
RefilledWithoutCap(b, now) == b.level + Larger(0, now - b.at) * Capacity

\* What a bucket holds at a time.
Refilled(b, now) ==
    Smaller(Full, b.level + Larger(0, now - b.at) * Capacity)

\* What a request for a key finds: a new bucket is full.
LevelOf(cache, k, now) ==
    IF Known(cache, k) THEN Refilled(cache.bucket[k], now) ELSE Full

Allows(cache, k, now) == LevelOf(cache, k, now) >= Window

\* Mutant: the wait is truncated to whole seconds.
RetryAfterTruncated(level) == (Window - level) \div (Capacity * Second)

\* max(1, int(wait + 0.999)) with wait = (Window - level) / (Capacity * Second)
RetryAfter(level) ==
    Larger(1, (1000 * (Window - level) + 999 * Capacity * Second)
                 \div (1000 * Capacity * Second))

\* The token that an allowed request takes.
Charge(cache, k, now) == IF Allows(cache, k, now) THEN Window ELSE 0

\* InProcessRateLimiter.check
Checked(cache, k, now) ==
    [order |-> Touched(cache, k),
     bucket |->
        [j \in DOMAIN cache.bucket |->
            IF j = k
            THEN [level |-> LevelOf(cache, k, now) - Charge(cache, k, now),
                  at |-> now]
            ELSE IF Evicts(cache, k) /\ j = Head(cache.order) THEN None
            ELSE cache.bucket[j]]]
=============================================================================
