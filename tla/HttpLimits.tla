----------------------------- MODULE HttpLimits ------------------------------
(****************************************************************************)
(* The middleware request_context of app.py: the checks a request passes    *)
(* before a route sees it, with two rate limiters of the same bounds.  One  *)
(* counts by address; the other by address, session and path, which is what *)
(* a client stands for here.  Both are always asked, so a request that one  *)
(* refuses may still take a token of the other.                             *)
(*                                                                          *)
(* Rate limiting is enabled, as the settings demand in production.  Nothing *)
(* in the middleware awaits between the first check and the last, so a      *)
(* request is one step.                                                     *)
(****************************************************************************)
EXTENDS RateLimiter

CONSTANTS
    Clients,
    Addresses,
    AddressOf,   \* client_address of each client
    MaxTime      \* bound of the model

ASSUME LimitsAssumption ==
    /\ AddressOf \in [Clients -> Addresses]
    /\ MaxTime \in Nat

VARIABLES
    clock,
    ip,       \* ip_rate_limiter
    user,     \* user_rate_limiter
    turned,   \* per client: the last 429, while nobody else spends from its
              \* buckets, as [at, wait]; else None
    past      \* for the properties only: of each limiter, the keys by their
              \* last use and the times of the tokens of each cached bucket

vars == <<clock, ip, user, turned, past>>

Refusals == [at : Nat, wait : Nat \ {0}]

NoPast(keys) == [recent |-> <<>>, taken |-> [k \in keys |-> <<>>]]

Init ==
    /\ clock = 0
    /\ ip = EmptyCache(Addresses)
    /\ user = EmptyCache(Clients)
    /\ turned = [c \in Clients |-> None]
    /\ past = [ip |-> NoPast(Addresses), user |-> NoPast(Clients)]

\* Taking notes of one check.
Noted(p, cache, k) ==
    [recent |-> Append(RemoveFirst(p.recent, k), k),
     taken |-> [j \in DOMAIN cache.bucket |->
                   IF j = k
                   THEN IF Allows(cache, k, clock)
                        THEN Append(p.taken[k], clock) ELSE p.taken[k]
                   ELSE IF Evicts(cache, k) /\ j = Head(cache.order) THEN <<>>
                   ELSE p.taken[j]]]

Admits(c) == Allows(ip, AddressOf[c], clock) /\ Allows(user, c, clock)

\* The first of the two decisions that refuses gives the Retry-After.
Wait(c) ==
    IF ~Allows(ip, AddressOf[c], clock)
    THEN RetryAfter(LevelOf(ip, AddressOf[c], clock))
    ELSE RetryAfter(LevelOf(user, c, clock))

\* A request of the address of c spends from the buckets of all its clients.
Disturbed(c) == {d \in Clients : AddressOf[d] = AddressOf[c]}

\* A request that reaches the limiters.  A malformed or excessive
\* Content-Length (400, 413), a foreign Origin on an unsafe method (403) and
\* the method OPTIONS end or pass before; what follows (the route's answer, or
\* 413 once the streamed body exceeds its bound) takes nothing back.
Limited(c) ==
    /\ ip' = Checked(ip, AddressOf[c], clock)
    /\ user' = Checked(user, c, clock)
    /\ turned' = [d \in Clients |->
                     IF d = c /\ ~Admits(c)
                     THEN [at |-> clock, wait |-> Wait(c)]
                     ELSE IF d \in Disturbed(c) THEN None
                     ELSE turned[d]]
    /\ past' = [ip |-> Noted(past.ip, ip, AddressOf[c]),
                user |-> Noted(past.user, user, c)]
    /\ UNCHANGED clock

Tick ==
    /\ clock < MaxTime
    /\ clock' = clock + 1
    /\ UNCHANGED <<ip, user, turned, past>>

Next ==
    \/ \E c \in Clients : Limited(c)
    \/ Tick

Spec == Init /\ [][Next]_vars

-----------------------------------------------------------------------------
CacheOK(cache, keys) ==
    /\ cache.bucket \in [keys -> Buckets \cup {None}]
    /\ \A k \in keys : Known(cache, k) => cache.bucket[k].at <= clock
    /\ IsInjective(cache.order)
    /\ ToSet(cache.order) = {k \in keys : Known(cache, k)}
    /\ Len(cache.order) <= MaxKeys

\* The caches stay within their bound, hold the keys their order lists, each
\* once, and no bucket holds less than nothing or more than its capacity.
TypeOK ==
    /\ clock \in 0..MaxTime
    /\ CacheOK(ip, Addresses)
    /\ CacheOK(user, Clients)
    /\ turned \in [Clients -> Refusals \cup {None}]

MostRecent(s) == SubSeq(s, Larger(1, Len(s) - MaxKeys + 1), Len(s))

\* However keys come and go, a cache holds exactly the keys used last, the
\* least recent first: an eviction never costs a busier key its bucket, and a
\* refused request counts as a use.
CacheKeepsTheMostRecent ==
    /\ ip.order = MostRecent(past.ip.recent)
    /\ user.order = MostRecent(past.user.recent)

\* Of the tokens taken from one bucket, those from the i-th to the j-th fit in
\* its capacity and the refill of the time between them.
Bounded(taken) ==
    \A j \in 1..Len(taken) : \A i \in 1..j :
        (j - i + 1) * Window <= Full + (taken[j] - taken[i]) * Capacity

\* In any interval of the life of a bucket, from its creation to its eviction,
\* its key is admitted at most the capacity plus the rate times the interval.
\* The refill is computed lazily, from the time of the last request, refused
\* ones included, and no sequence of requests may gain tokens by it.
AdmissionsAreBounded ==
    /\ \A a \in Addresses : Bounded(past.ip.taken[a])
    /\ \A c \in Clients : Bounded(past.user.taken[c])

\* A client that waits for as long as the 429 told it is admitted, unless its
\* address is used meanwhile, whichever limiter refused it and whatever was
\* evicted meanwhile: provided a token comes every second, as with the
\* defaults.  At lower rates the answer names the wait of the first limiter
\* only, and the other one may refuse next.
PoliteRetrySucceeds ==
    Capacity * Second >= Window =>
        \A c \in Clients :
            /\ turned[c] # None
            /\ clock >= turned[c].at + Second * turned[c].wait
            => Admits(c)
=============================================================================
