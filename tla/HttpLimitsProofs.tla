-------------------------- MODULE HttpLimitsProofs ---------------------------
(* What the token buckets promise, for every capacity, window and bound on  *)
(* the keys, and any number of clients and addresses.                       *)
EXTENDS HttpLimits, SequenceTheorems, TLAPS

\* The tokens taken from a bucket since the i-th, and what it still holds, fit
\* in its capacity and the refill since then.
Accounted(taken, b) ==
    \A i \in 1..Len(taken) :
        /\ taken[i] <= b.at
        /\ (Len(taken) - i + 1) * Window + b.level
              <= Full + (b.at - taken[i]) * Capacity

LimiterInv(cache, notes, keys) ==
    /\ cache.bucket \in [keys -> Buckets \cup {None}]
    /\ notes.taken \in [keys -> Seq(Nat)]
    /\ \A k \in keys :
          /\ Bounded(notes.taken[k])
          /\ Known(cache, k) => /\ cache.bucket[k].at <= clock
                                /\ Accounted(notes.taken[k], cache.bucket[k])
          /\ ~Known(cache, k) => notes.taken[k] = <<>>

\* The buckets of a client that was turned away have not been asked since.
Rested(cache, k, r) ==
    Known(cache, k) => cache.bucket[k].at = r.at

TurnedInv ==
    /\ turned \in [Clients -> Refusals \cup {None}]
    /\ \A c \in Clients : turned[c] # None =>
          /\ turned[c].at <= clock
          /\ Rested(ip, AddressOf[c], turned[c])
          /\ Rested(user, c, turned[c])

IInv ==
    /\ clock \in Nat
    /\ LimiterInv(ip, past.ip, Addresses)
    /\ LimiterInv(user, past.user, Clients)
    /\ TurnedInv

\* The constants as numbers.
LEMMA Sizes ==
    /\ Capacity \in Nat /\ Capacity >= 1
    /\ Window \in Nat /\ Window >= 1
    /\ Second \in Nat /\ Second >= 1
    /\ Full \in Nat /\ Full >= Window
<1>1. ASSUME NEW a \in Nat, NEW b \in Nat, a >= 1
      PROVE  a * b \in Nat /\ a * b >= b
  BY <1>1
<1> QED BY <1>1, LimiterAssumption DEF Full

\* What a bucket holds between two requests: no more than its capacity, no less
\* than it held, and what the time has added otherwise.
LEMMA RefilledIsSound ==
    ASSUME NEW b \in Buckets, NEW now \in Nat, b.at <= now
    PROVE  /\ Refilled(b, now) \in 0..Full
           /\ Refilled(b, now) <= b.level + (now - b.at) * Capacity
           /\ Refilled(b, now) = Full
                 \/ Refilled(b, now) = b.level + (now - b.at) * Capacity
<1>1. b.level \in 0..Full /\ b.at \in Nat
  BY DEF Buckets
<1>2. (now - b.at) \in Nat /\ Larger(0, now - b.at) = now - b.at
  BY <1>1 DEF Larger
<1>3. ASSUME NEW n \in Nat, NEW m \in Nat PROVE n * m \in Nat
  OBVIOUS
<1>4. (now - b.at) * Capacity \in Nat
  BY <1>2, <1>3, Sizes
<1> QED BY <1>1, <1>2, <1>4, Sizes DEF Refilled, Smaller

\* One more token, a time later: the arithmetic of Accounted.
LEMMA OneMore ==
    ASSUME NEW n \in Nat, NEW i \in Nat, NEW w \in Nat, NEW cap \in Nat,
           NEW full \in Nat, NEW level \in Nat, NEW level2 \in Int,
           NEW t \in Nat, NEW at \in Nat, NEW now \in Nat, NEW cost \in Int,
           level2 <= level + (now - at) * cap - cost,
           (n - i + 1) * w + level <= full + (at - t) * cap
    PROVE  (n - i + 1) * w + cost + level2 <= full + (now - t) * cap
<1>1. (now - t) * cap = (now - at) * cap + (at - t) * cap
  OBVIOUS
<1> DEFINE x == (now - at) * cap
           y == (at - t) * cap
           z == (n - i + 1) * w
<1>2. x \in Int /\ y \in Int /\ z \in Int
  OBVIOUS
<1>3. (now - t) * cap = x + y
  BY <1>1
<1> HIDE DEF x, y, z
<1>4. level2 <= level + x - cost /\ z + level <= full + y
  BY DEF x, y, z
<1>5. z + cost + level2 <= full + (x + y)
  BY <1>2, <1>4
<1> QED BY <1>3, <1>5 DEF z

\* What a check leaves in the bucket it asks.
LEMMA CheckedBucket ==
    ASSUME NEW keys, NEW cache, NEW k \in keys, clock \in Nat,
           cache.bucket \in [keys -> Buckets \cup {None}],
           Known(cache, k) => cache.bucket[k].at <= clock
    PROVE  LET new == Checked(cache, k, clock).bucket[k]
           IN  /\ LevelOf(cache, k, clock) \in 0..Full
               /\ new \in Buckets
               /\ new # None
               /\ new.at = clock
               /\ new.level = LevelOf(cache, k, clock) - Charge(cache, k, clock)
<1> DEFINE level == LevelOf(cache, k, clock)
           b == [level |-> level - Charge(cache, k, clock), at |-> clock]
<1>1. level \in 0..Full
  BY RefilledIsSound, Sizes DEF LevelOf, Known
<1>2. level - Charge(cache, k, clock) \in 0..Full
  BY <1>1, Sizes DEF Charge, Allows
<1>3. Checked(cache, k, clock).bucket[k] = b
  BY DEF Checked
<1> HIDE DEF level
<1>4. b \in Buckets
  BY <1>2 DEF Buckets
<1>5. b # None
  BY <1>4, NoBucketAssumption
<1> QED BY <1>1, <1>3, <1>4, <1>5 DEF level

LEMMA CheckIsSound ==
    ASSUME NEW keys, NEW cache, NEW notes, NEW k \in keys, clock \in Nat,
           LimiterInv(cache, notes, keys)
    PROVE  LimiterInv(Checked(cache, k, clock), Noted(notes, cache, k), keys)
<1> DEFINE after == Checked(cache, k, clock)
           noted == Noted(notes, cache, k)
           old == cache.bucket[k]
           new == after.bucket[k]
           t == notes.taken[k]
           level == LevelOf(cache, k, clock)
<1>1. /\ cache.bucket \in [keys -> Buckets \cup {None}]
      /\ notes.taken \in [keys -> Seq(Nat)]
      /\ Bounded(t)
      /\ Known(cache, k) => old.at <= clock /\ Accounted(t, old)
      /\ ~Known(cache, k) => t = <<>>
      /\ Known(cache, k) => old \in Buckets
  BY DEF LimiterInv, Known
<1>2. /\ level \in 0..Full
      /\ new \in Buckets
      /\ new # None
      /\ new.at = clock
      /\ new.level = level - Charge(cache, k, clock)
  BY <1>1, CheckedBucket
<1>3. /\ noted.taken[k] = IF Allows(cache, k, clock) THEN Append(t, clock) ELSE t
      /\ DOMAIN noted.taken = keys
      /\ DOMAIN after.bucket = keys
      /\ \A j \in keys : j # k =>
            \/ after.bucket[j] = cache.bucket[j] /\ noted.taken[j] = notes.taken[j]
            \/ after.bucket[j] = None /\ noted.taken[j] = <<>>
  BY <1>1 DEF Checked, Noted
<1>4. /\ t \in Seq(Nat)
      /\ Append(t, clock) \in Seq(Nat)
      /\ Len(Append(t, clock)) = Len(t) + 1
      /\ \A i \in 1..Len(t) : Append(t, clock)[i] = t[i]
      /\ Append(t, clock)[Len(t) + 1] = clock
      /\ Len(t) \in Nat
      /\ \A i \in 1..Len(t) : t[i] \in Nat
  BY <1>1, AppendProperties
<1>5. ASSUME NEW i \in 1..Len(t)
      PROVE  /\ t[i] <= clock
             /\ (Len(t) - i + 1) * Window + Charge(cache, k, clock) + new.level
                   <= Full + (clock - t[i]) * Capacity
  <2>1. Known(cache, k)
    BY <1>1, <1>5
  <2>2. /\ old \in Buckets
        /\ old.level \in Nat /\ old.at \in Nat
        /\ old.at <= clock
        /\ t[i] <= old.at
        /\ (Len(t) - i + 1) * Window + old.level
              <= Full + (old.at - t[i]) * Capacity
    BY <1>1, <2>1, <1>5 DEF Accounted, Buckets
  <2>3. level <= old.level + (clock - old.at) * Capacity
    BY <2>1, <2>2, RefilledIsSound DEF LevelOf
  <2>4. Charge(cache, k, clock) \in Int /\ new.level \in Int
    BY <1>2, Sizes DEF Charge, Buckets
  <2>5. new.level <= old.level + (clock - old.at) * Capacity - Charge(cache, k, clock)
    <3> DEFINE gain == (clock - old.at) * Capacity
    <3>1. gain \in Int
      BY <2>2, Sizes
    <3>2. level <= old.level + gain
      BY <2>3
    <3> HIDE DEF gain, level, new, old
    <3>3. new.level <= old.level + gain - Charge(cache, k, clock)
      BY <1>2, <2>2, <2>4, <3>1, <3>2
    <3> QED BY <3>3 DEF gain
  <2>6. t[i] \in Nat /\ i \in Nat /\ Len(t) \in Nat
    BY <1>4, <1>5
  <2>7. t[i] <= clock
    BY <2>2, <2>6
  <2> HIDE DEF old, new, t
  <2> QED BY <2>2, <2>4, <2>5, <2>6, <2>7, Sizes, OneMore
<1>6. Accounted(noted.taken[k], new)
  <2>1. CASE Allows(cache, k, clock)
    <3> DEFINE u == Append(t, clock)
    <3>1. Charge(cache, k, clock) = Window
      BY <2>1 DEF Charge
    <3>2. ASSUME NEW i \in 1..Len(u)
          PROVE  /\ u[i] <= clock
                 /\ (Len(u) - i + 1) * Window + new.level
                       <= Full + (clock - u[i]) * Capacity
      <4>1. CASE i \in 1..Len(t)
        <5>1. u[i] = t[i] /\ Len(u) = Len(t) + 1
          BY <1>4, <4>1
        <5>2. (Len(t) + 1 - i + 1) * Window = (Len(t) - i + 1) * Window + Window
          BY <1>4, <4>1, Sizes
        <5> HIDE DEF t, new, u
        <5> QED BY <1>5, <3>1, <4>1, <5>1, <5>2
      <4>2. CASE i = Len(t) + 1
        <5>1. u[i] = clock /\ Len(u) - i + 1 = 1
          BY <1>4, <4>2
        <5>2. new.level + Window <= Full
          BY <1>2, <3>1, Sizes DEF Buckets
        <5>3. new.level \in Int
          BY <1>2 DEF Buckets
        <5> HIDE DEF t, new, u
        <5> QED BY <5>1, <5>2, <5>3, Sizes
      <4> QED BY <1>4, <4>1, <4>2
    <3> QED BY <1>2, <1>3, <2>1, <3>2 DEF Accounted
  <2>2. CASE ~Allows(cache, k, clock)
    <3>1. Charge(cache, k, clock) = 0
      BY <2>2 DEF Charge
    <3>2. ASSUME NEW i \in 1..Len(t)
          PROVE  /\ t[i] <= clock
                 /\ (Len(t) - i + 1) * Window + new.level
                       <= Full + (clock - t[i]) * Capacity
      <4>1. (Len(t) - i + 1) * Window \in Int
        BY <1>4, Sizes
      <4> HIDE DEF t, new
      <4> QED BY <1>5, <3>1, <4>1
    <3> QED BY <1>2, <1>3, <2>2, <3>2 DEF Accounted
  <2> QED BY <2>1, <2>2
<1>7. Bounded(noted.taken[k])
  <2>1. CASE Allows(cache, k, clock)
    <3> DEFINE u == Append(t, clock)
    <3>1. noted.taken[k] = u
      BY <1>3, <2>1
    <3>2. ASSUME NEW j \in 1..Len(u), NEW i \in 1..j
          PROVE  (j - i + 1) * Window <= Full + (u[j] - u[i]) * Capacity
      <4>1. CASE j \in 1..Len(t)
        <5>1. u[j] = t[j] /\ u[i] = t[i]
          BY <1>4, <4>1
        <5> QED BY <1>1, <4>1, <5>1 DEF Bounded
      <4>2. CASE j = Len(t) + 1
        <5>1. u[j] = clock /\ j = Len(u)
          BY <1>4, <4>2
        <5>2. (Len(u) - i + 1) * Window + new.level
                  <= Full + (clock - u[i]) * Capacity
          BY <1>2, <1>6, <3>1, <5>1 DEF Accounted
        <5>3. new.level \in Nat
          BY <1>2 DEF Buckets
        <5>4. u[i] \in Nat /\ Len(u) \in Nat
          BY <1>4
        <5>5. /\ (Len(u) - i + 1) * Window \in Int
              /\ (clock - u[i]) * Capacity \in Int
          BY <5>4, Sizes
        <5>6. /\ (j - i + 1) * Window = (Len(u) - i + 1) * Window
              /\ (u[j] - u[i]) * Capacity = (clock - u[i]) * Capacity
          BY <5>1
        <5> HIDE DEF u, new
        <5>7. (Len(u) - i + 1) * Window <= Full + (clock - u[i]) * Capacity
          BY <5>2, <5>3, <5>5, Sizes
        <5> QED BY <5>6, <5>7
      <4>3. j \in 1..Len(t) \/ j = Len(t) + 1
        BY <1>4
      <4> QED BY <4>1, <4>2, <4>3
    <3> QED BY <3>1, <3>2 DEF Bounded
  <2>2. CASE ~Allows(cache, k, clock)
    BY <1>1, <1>3, <2>2
  <2> QED BY <2>1, <2>2
<1>8. noted.taken[k] \in Seq(Nat)
  BY <1>3, <1>4
<1>9. ASSUME NEW j \in keys, j # k
      PROVE  /\ after.bucket[j] \in Buckets \cup {None}
             /\ noted.taken[j] \in Seq(Nat)
             /\ Bounded(noted.taken[j])
             /\ Known(after, j) => /\ after.bucket[j].at <= clock
                                   /\ Accounted(noted.taken[j], after.bucket[j])
             /\ ~Known(after, j) => noted.taken[j] = <<>>
  <2>1. CASE after.bucket[j] = cache.bucket[j] /\ noted.taken[j] = notes.taken[j]
    BY <2>1, <1>9 DEF LimiterInv, Known
  <2>2. CASE after.bucket[j] = None /\ noted.taken[j] = <<>>
    BY <2>2 DEF Bounded, Known
  <2> QED BY <1>3, <1>9, <2>1, <2>2
<1>10. /\ after.bucket = [j \in keys |-> after.bucket[j]]
       /\ noted.taken = [j \in keys |-> noted.taken[j]]
  BY <1>1 DEF Checked, Noted
<1>11. Known(after, k)
  BY <1>2 DEF Known
<1> HIDE DEF after, noted
<1>12. /\ after.bucket \in [keys -> Buckets \cup {None}]
       /\ noted.taken \in [keys -> Seq(Nat)]
  BY <1>2, <1>8, <1>9, <1>10
<1>13. new.at <= clock
  BY <1>2
<1>14. LimiterInv(after, noted, keys)
  BY <1>6, <1>7, <1>9, <1>11, <1>12, <1>13 DEF LimiterInv
<1> QED BY <1>14 DEF after, noted

\* A bucket that is asked of its key is asked now; another keeps its time or is
\* evicted.
LEMMA CheckRests ==
    ASSUME NEW keys, NEW cache, NEW notes, NEW k \in keys, NEW j \in keys, j # k,
           NEW r, LimiterInv(cache, notes, keys), Rested(cache, j, r)
    PROVE  Rested(Checked(cache, k, clock), j, r)
<1>1. Checked(cache, k, clock).bucket[j] \in {None, cache.bucket[j]}
  BY DEF Checked, LimiterInv
<1> QED BY <1>1 DEF Rested, Known

LEMMA WaitIsPositive ==
    ASSUME NEW c \in Clients, clock \in Nat,
           LimiterInv(ip, past.ip, Addresses), LimiterInv(user, past.user, Clients)
    PROVE  Wait(c) \in Nat \ {0}
<1>1. ASSUME NEW level \in 0..Full PROVE RetryAfter(level) \in Nat \ {0}
  <2> DEFINE a == 1000 * (Window - level) + 999 * Capacity * Second
             b == 1000 * Capacity * Second
  <2>1. a \in Int /\ b \in Int
    BY Sizes
  <2>2. b > 0
    <3>1. Capacity * Second \in Nat /\ Capacity * Second >= 1
      BY Sizes
    <3> QED BY <3>1, Sizes
  <2> HIDE DEF a, b
  <2>3. (a \div b) \in Int
    BY <2>1, <2>2
  <2>4. Larger(1, a \div b) \in Nat \ {0}
    BY <2>3 DEF Larger
  <2> QED BY <2>4 DEF RetryAfter, a, b
<1>2. AddressOf[c] \in Addresses
  BY LimitsAssumption
<1>3. /\ LevelOf(ip, AddressOf[c], clock) \in 0..Full
      /\ LevelOf(user, c, clock) \in 0..Full
  BY <1>2, CheckedBucket DEF LimiterInv
<1> QED BY <1>1, <1>3 DEF Wait

LEMMA LimitedIsSound ==
    ASSUME IInv, NEW c \in Clients, Limited(c)
    PROVE  IInv'
<1> DEFINE a == AddressOf[c]
<1>1. /\ a \in Addresses
      /\ \A d \in Clients : AddressOf[d] \in Addresses
  BY LimitsAssumption
<1>2. /\ clock' = clock
      /\ clock \in Nat
      /\ ip' = Checked(ip, a, clock)
      /\ user' = Checked(user, c, clock)
      /\ past'.ip = Noted(past.ip, ip, a)
      /\ past'.user = Noted(past.user, user, c)
  BY DEF Limited, IInv
<1>3. LimiterInv(ip, past.ip, Addresses) /\ LimiterInv(user, past.user, Clients)
  BY DEF IInv
<1>4. /\ LimiterInv(Checked(ip, a, clock), Noted(past.ip, ip, a), Addresses)
      /\ LimiterInv(Checked(user, c, clock), Noted(past.user, user, c), Clients)
  BY <1>1, <1>2, <1>3, CheckIsSound
<1>5. LimiterInv(ip, past.ip, Addresses)'
  BY <1>2, <1>4 DEF LimiterInv
<1>6. LimiterInv(user, past.user, Clients)'
  BY <1>2, <1>4 DEF LimiterInv
<1>7. turned' \in [Clients -> Refusals \cup {None}]
  <2>1. Wait(c) \in Nat \ {0}
    BY <1>2, <1>3, WaitIsPositive
  <2>2. [at |-> clock, wait |-> Wait(c)] \in Refusals
    BY <1>2, <2>1 DEF Refusals
  <2> QED BY <2>2 DEF IInv, TurnedInv, Limited
<1>8. ASSUME NEW d \in Clients, turned'[d] # None
      PROVE  /\ turned'[d].at <= clock'
             /\ Rested(ip', AddressOf[d], turned'[d])
             /\ Rested(user', d, turned'[d])
  <2>1. CASE d = c
    <3>1. turned'[d].at = clock
      BY <1>8, <2>1 DEF Limited, Disturbed
    <3>2. DOMAIN ip.bucket = Addresses /\ DOMAIN user.bucket = Clients
      BY <1>3 DEF LimiterInv
    <3>3. Checked(ip, a, clock).bucket[a].at = clock
      BY <1>1, <3>2 DEF Checked
    <3>4. Checked(user, c, clock).bucket[c].at = clock
      BY <3>2 DEF Checked
    <3> QED BY <1>2, <2>1, <3>1, <3>3, <3>4 DEF Rested
  <2>2. CASE d # c
    <3>1. AddressOf[d] # a /\ turned'[d] = turned[d]
      BY <1>8, <2>2 DEF Limited, Disturbed
    <3>2. /\ turned[d].at <= clock
          /\ Rested(ip, AddressOf[d], turned[d])
          /\ Rested(user, d, turned[d])
      BY <1>8, <3>1 DEF IInv, TurnedInv
    <3>3. Rested(Checked(ip, a, clock), AddressOf[d], turned[d])
      BY <1>1, <1>3, <3>1, <3>2, CheckRests
    <3>4. Rested(Checked(user, c, clock), d, turned[d])
      BY <1>3, <2>2, <3>2, CheckRests
    <3> QED BY <1>2, <3>1, <3>2, <3>3, <3>4
  <2> QED BY <2>1, <2>2
<1>9. TurnedInv'
  BY <1>7, <1>8 DEF TurnedInv
<1> QED BY <1>2, <1>5, <1>6, <1>9 DEF IInv

LEMMA TickIsSound ==
    ASSUME IInv, Tick
    PROVE  IInv'
<1>1. /\ clock' = clock + 1
      /\ clock \in Nat
      /\ UNCHANGED <<ip, user, turned, past>>
  BY DEF Tick, IInv
<1>2. ASSUME NEW keys, NEW cache, NEW notes, LimiterInv(cache, notes, keys),
             NEW k \in keys, Known(cache, k)
      PROVE  cache.bucket[k].at <= clock'
  BY <1>1, <1>2 DEF LimiterInv, Known, Buckets
<1>3. LimiterInv(ip, past.ip, Addresses)'
  BY <1>1, <1>2 DEF IInv, LimiterInv, Known
<1>4. LimiterInv(user, past.user, Clients)'
  BY <1>1, <1>2 DEF IInv, LimiterInv, Known
<1>5. TurnedInv'
  BY <1>1 DEF IInv, TurnedInv, Rested, Known, Refusals
<1> QED BY <1>1, <1>3, <1>4, <1>5 DEF IInv

LEMMA InitIsSound == Init => IInv
<1> SUFFICES ASSUME Init PROVE IInv
  OBVIOUS
<1>1. ASSUME NEW keys
      PROVE  LimiterInv(EmptyCache(keys), NoPast(keys), keys)
  BY DEF LimiterInv, EmptyCache, NoPast, Known, Bounded
<1>2. LimiterInv(ip, past.ip, Addresses)
  BY <1>1 DEF Init
<1>3. LimiterInv(user, past.user, Clients)
  BY <1>1 DEF Init
<1> QED BY <1>2, <1>3 DEF Init, IInv, TurnedInv

LEMMA SpecIsSound == Spec => []IInv
<1>1. IInv /\ [Next]_vars => IInv'
  <2> SUFFICES ASSUME IInv, [Next]_vars PROVE IInv'
    OBVIOUS
  <2>1. CASE Next
    BY <2>1, LimitedIsSound, TickIsSound DEF Next
  <2>2. CASE UNCHANGED vars
    BY <2>2 DEF vars, IInv, LimiterInv, TurnedInv, Rested, Known
  <2> QED BY <2>1, <2>2
<1> QED BY InitIsSound, <1>1, PTL DEF Spec

\* No sequence of requests of any client gets more out of a bucket, in any
\* interval of its life, than its capacity and the refill of that interval.
THEOREM BucketsBoundAdmissions == Spec => []AdmissionsAreBounded
<1>1. IInv => AdmissionsAreBounded
  BY DEF IInv, LimiterInv, AdmissionsAreBounded
<1> QED BY <1>1, SpecIsSound, PTL

\* A bucket that has rested for a second admits when a token comes every second.
LEMMA RestedAdmits ==
    ASSUME NEW keys, NEW cache, NEW notes, NEW k \in keys, clock \in Nat,
           LimiterInv(cache, notes, keys), NEW r \in Refusals,
           Rested(cache, k, r), clock >= r.at + Second * r.wait,
           Capacity * Second >= Window
    PROVE  Allows(cache, k, clock)
<1>1. CASE ~Known(cache, k)
  BY <1>1, Sizes DEF Allows, LevelOf
<1>2. CASE Known(cache, k)
  <2> DEFINE b == cache.bucket[k]
  <2>1. /\ b \in Buckets
        /\ b.level \in Nat /\ b.at \in Nat
        /\ b.at <= clock
        /\ b.at = r.at
    BY <1>2 DEF LimiterInv, Known, Buckets, Rested
  <2>2. clock - b.at >= Second
    <3>1. ASSUME NEW m \in Nat, NEW n \in Nat, n >= 1 PROVE m * n >= m
      BY <3>1
    <3>2. r.wait \in Nat /\ r.wait >= 1
      BY DEF Refusals
    <3>3. Second * r.wait >= Second /\ Second * r.wait \in Nat
      BY <3>1, <3>2, Sizes
    <3> QED BY <2>1, <3>3, Sizes
  <2>3. (clock - b.at) * Capacity >= Capacity * Second
    <3>1. ASSUME NEW m \in Nat, NEW n \in Nat, NEW w \in Nat, m >= n
          PROVE  m * w >= w * n
      BY <3>1
    <3>2. (clock - b.at) \in Nat
      BY <2>1
    <3> QED BY <2>2, <3>1, <3>2, Sizes
  <2>4. /\ Capacity * Second \in Int
        /\ (clock - b.at) * Capacity \in Int
    BY <2>1, Sizes
  <2>5. Refilled(b, clock) >= Window
    <3> HIDE DEF b
    <3>1. b.level + (clock - b.at) * Capacity >= Window
      BY <2>1, <2>3, <2>4, Sizes
    <3> QED BY <2>1, <3>1, RefilledIsSound, Sizes
  <2> QED BY <1>2, <2>5 DEF Allows, LevelOf
<1> QED BY <1>1, <1>2

\* With a token every second, waiting as told is always enough, for any number
\* of clients and any eviction.
THEOREM WaitingAsToldIsEnough == Spec => []PoliteRetrySucceeds
<1>1. ASSUME IInv, Capacity * Second >= Window, NEW c \in Clients,
             turned[c] # None, clock >= turned[c].at + Second * turned[c].wait
      PROVE  Admits(c)
  <2>1. /\ clock \in Nat
        /\ turned[c] \in Refusals
        /\ AddressOf[c] \in Addresses
        /\ LimiterInv(ip, past.ip, Addresses)
        /\ LimiterInv(user, past.user, Clients)
        /\ Rested(ip, AddressOf[c], turned[c])
        /\ Rested(user, c, turned[c])
    BY <1>1, LimitsAssumption DEF IInv, TurnedInv
  <2>2. Allows(ip, AddressOf[c], clock)
    BY <1>1, <2>1, RestedAdmits
  <2>3. Allows(user, c, clock)
    BY <1>1, <2>1, RestedAdmits
  <2> QED BY <2>2, <2>3 DEF Admits
<1>2. IInv => PoliteRetrySucceeds
  BY <1>1 DEF PoliteRetrySucceeds
<1> QED BY <1>2, SpecIsSound, PTL

\* The wait in the answer is that of the bucket that refused, up to the
\* millisecond that is lost in rounding: at any rate it will hold a token then.
THEOREM RetryAfterIsEnough ==
    ASSUME NEW level \in 0..Full
    PROVE  1000 * (level + RetryAfter(level) * (Capacity * Second))
               > 1000 * Window - Capacity * Second
<1> DEFINE d == Capacity * Second
           a == 1000 * (Window - level) + 999 * d
           b == 1000 * d
           r == RetryAfter(level)
<1>1. d \in Nat /\ d >= 1
  BY Sizes
<1>2. a \in Int /\ b \in Int /\ b > 0
  BY <1>1, Sizes
<1>3. r >= a \div b /\ r \in Int
  <2>1. (1000 * (Window - level) + 999 * Capacity * Second) = a
    BY Sizes
  <2>2. 1000 * Capacity * Second = b
    BY Sizes
  <2> HIDE DEF a, b
  <2>3. (a \div b) \in Int
    BY <1>2
  <2> QED BY <2>1, <2>2, <2>3 DEF RetryAfter, Larger
<1> HIDE DEF a, b, r, d
<1>4. a < (a \div b) * b + b
  BY <1>2
<1>5. (a \div b) * b <= r * b
  <2>1. ASSUME NEW m \in Int, NEW n \in Int, NEW k \in Int, m <= n, k > 0
        PROVE  m * k <= n * k
    BY <2>1
  <2> QED BY <1>2, <1>3, <2>1
<1>6. r * b = 1000 * (r * d)
  BY <1>1, <1>3 DEF b
<1>7. a < 1000 * (r * d) + 1000 * d
  <2>1. (a \div b) * b \in Int /\ r * b \in Int
    BY <1>2, <1>3
  <2> HIDE DEF b
  <2>2. a < r * b + b
    BY <1>2, <1>4, <1>5, <2>1
  <2> QED BY <1>6, <2>2 DEF b
<1>8. r * d \in Int
  BY <1>1, <1>3
<1> QED BY <1>1, <1>7, <1>8, Sizes DEF a, r, d
-----------------------------------------------------------------------------
\* What ties the order of a cache to the keys by their last use.
OrderInv(cache, notes, keys) ==
    /\ notes.recent \in Seq(keys)
    /\ IsInjective(notes.recent)
    /\ cache.order = MostRecent(notes.recent)
    /\ ToSet(cache.order) = {k \in keys : Known(cache, k)}

OrdersInv ==
    /\ clock <= MaxTime
    /\ OrderInv(ip, past.ip, Addresses)
    /\ OrderInv(user, past.user, Clients)

\* A sequence without the one occurrence of an element.
LEMMA RemoveFirstProperties ==
    ASSUME NEW S, NEW s \in Seq(S), IsInjective(s), NEW p \in 1..Len(s)
    PROVE  /\ RemoveFirst(s, s[p]) \in Seq(S)
           /\ Len(RemoveFirst(s, s[p])) = Len(s) - 1
           /\ \A i \in 1..Len(s) - 1 :
                 RemoveFirst(s, s[p])[i] = IF i < p THEN s[i] ELSE s[i + 1]
<1> DEFINE I == {i \in 1..Len(s) : s[i] = s[p]}
           before == SubSeq(s, 1, p - 1)
           after == SubSeq(s, p + 1, Len(s))
<1>1. /\ Len(s) \in Nat
      /\ DOMAIN s = 1..Len(s)
      /\ p \in Nat
      /\ \A i \in 1..Len(s) : s[i] \in S
  OBVIOUS
<1>2. I = {p}
  BY <1>1 DEF IsInjective
<1>3. Min({p}) = p
  BY <1>1 DEF Min
<1>4. SelectInSeq(s, LAMBDA v : v = s[p]) = p
  BY <1>2, <1>3 DEF SelectInSeq
<1>5. RemoveFirst(s, s[p]) = before \o after
  BY <1>4 DEF RemoveFirst, RemoveAt
<1>6. /\ before \in Seq(S)
      /\ Len(before) = p - 1
      /\ \A i \in 1..p - 1 : before[i] = s[i]
  <2>1. \A i \in 1..p - 1 : s[i] \in S
    BY <1>1
  <2>2. /\ before \in Seq(S)
        /\ Len(before) = IF 1 <= p - 1 THEN p - 1 - 1 + 1 ELSE 0
        /\ \A i \in 1..p - 1 - 1 + 1 : before[i] = s[1 + i - 1]
    BY <1>1, <2>1, SubSeqProperties
  <2> HIDE DEF before
  <2> QED BY <1>1, <2>2
<1>7. /\ after \in Seq(S)
      /\ Len(after) = Len(s) - p
      /\ \A i \in 1..Len(s) - p : after[i] = s[p + i]
  <2>1. \A i \in p + 1..Len(s) : s[i] \in S
    BY <1>1
  <2>2. /\ after \in Seq(S)
        /\ Len(after) = IF p + 1 <= Len(s) THEN Len(s) - (p + 1) + 1 ELSE 0
        /\ \A i \in 1..Len(s) - (p + 1) + 1 : after[i] = s[p + 1 + i - 1]
    BY <1>1, <2>1, SubSeqProperties
  <2> HIDE DEF after
  <2>3. ASSUME NEW i \in 1..Len(s) - p PROVE after[i] = s[p + i]
    <3>1. i \in 1..Len(s) - (p + 1) + 1 /\ p + 1 + i - 1 = p + i
      BY <1>1
    <3> QED BY <2>2, <3>1
  <2>4. Len(after) = Len(s) - p
    <3>1. CASE p + 1 <= Len(s)
      BY <1>1, <2>2, <3>1
    <3>2. CASE p = Len(s)
      BY <1>1, <2>2, <3>2
    <3>3. p + 1 <= Len(s) \/ p = Len(s)
      BY Len(s) \in Nat
    <3> QED BY <3>1, <3>2, <3>3
  <2> QED BY <2>2, <2>3, <2>4
<1> HIDE DEF before, after
<1>8. /\ before \o after \in Seq(S)
      /\ Len(before \o after) = Len(before) + Len(after)
      /\ \A i \in 1..Len(before) + Len(after) :
            (before \o after)[i] = IF i <= Len(before) THEN before[i]
                                   ELSE after[i - Len(before)]
  BY <1>6, <1>7, ConcatProperties
<1> QED BY <1>1, <1>5, <1>6, <1>7, <1>8

LEMMA RemoveFirstOfNone ==
    ASSUME NEW s, NEW e, \A i \in 1..Len(s) : s[i] # e
    PROVE  RemoveFirst(s, e) = s
BY DEF RemoveFirst

\* Moved(s, t, n, p): t is s, of length n, with its p-th element moved to the
\* end.  Sequences are functions here.
Moved(s, t, n, p) ==
    /\ \A i \in 1..n - 1 : t[i] = IF i < p THEN s[i] ELSE s[i + 1]
    /\ t[n] = s[p]

Extends(r, r2, n, k) == (\A i \in 1..n : r2[i] = r[i]) /\ r2[n + 1] = k

In(e, s, n) == \E i \in 1..n : s[i] = e

Distinct(s, n) == \A i \in 1..n : \A j \in 1..n : s[i] = s[j] => i = j

LEMMA MovedIsDistinct ==
    ASSUME NEW n \in Nat, NEW s, NEW t, NEW p \in 1..n,
           Distinct(s, n), Moved(s, t, n, p)
    PROVE  Distinct(t, n)
<1>1. ASSUME NEW i \in 1..n
      PROVE  \E m \in 1..n : /\ t[i] = s[m]
                             /\ i = n => m = p
                             /\ i < p /\ i # n => m = i
                             /\ ~(i < p) /\ i # n => m = i + 1
  <2>1. CASE i = n
    BY <2>1 DEF Moved
  <2>2. CASE i # n /\ i < p
    <3>1. i \in 1..n - 1
      BY <2>2
    <3> QED BY <2>2, <3>1 DEF Moved
  <2>3. CASE i # n /\ ~(i < p)
    <3>1. i \in 1..n - 1 /\ i + 1 \in 1..n
      BY <2>3
    <3> QED BY <2>3, <3>1 DEF Moved
  <2> QED BY <2>1, <2>2, <2>3
<1> SUFFICES ASSUME NEW i \in 1..n, NEW j \in 1..n, t[i] = t[j]
             PROVE  i = j
  BY DEF Distinct
<1>2. PICK a \in 1..n : /\ t[i] = s[a]
                        /\ i = n => a = p
                        /\ i < p /\ i # n => a = i
                        /\ ~(i < p) /\ i # n => a = i + 1
  BY <1>1
<1>3. PICK b \in 1..n : /\ t[j] = s[b]
                        /\ j = n => b = p
                        /\ j < p /\ j # n => b = j
                        /\ ~(j < p) /\ j # n => b = j + 1
  BY <1>1
<1>4. a = b
  BY <1>2, <1>3 DEF Distinct
<1> QED BY <1>2, <1>3, <1>4

LEMMA MovedKeepsTheElements ==
    ASSUME NEW n \in Nat, NEW s, NEW t, NEW p \in 1..n, Moved(s, t, n, p)
    PROVE  \A e : In(e, t, n) <=> In(e, s, n)
<1>1. ASSUME NEW i \in 1..n PROVE \E m \in 1..n : t[i] = s[m]
  <2>1. CASE i = n
    BY <2>1 DEF Moved
  <2>2. CASE i # n
    <3>1. i \in 1..n - 1 /\ i + 1 \in 1..n
      BY <2>2
    <3>2. t[i] = s[i] \/ t[i] = s[i + 1]
      BY <3>1 DEF Moved
    <3> QED BY <3>1, <3>2
  <2> QED BY <2>1, <2>2
<1>2. ASSUME NEW m \in 1..n PROVE \E i \in 1..n : t[i] = s[m]
  <2>1. CASE m = p
    <3>1. n \in 1..n
      OBVIOUS
    <3> QED BY <2>1, <3>1 DEF Moved
  <2>2. CASE m < p
    <3>1. m \in 1..n - 1
      BY <2>2
    <3> QED BY <2>2, <3>1 DEF Moved
  <2>3. CASE m > p
    <3>1. m - 1 \in 1..n - 1 /\ ~(m - 1 < p) /\ (m - 1) + 1 = m
      BY <2>3
    <3>2. t[m - 1] = s[m]
      BY <3>1 DEF Moved
    <3>3. m - 1 \in 1..n
      BY <3>1
    <3> QED BY <3>2, <3>3
  <2>4. m = p \/ m < p \/ m > p
    OBVIOUS
  <2> QED BY <2>1, <2>2, <2>3, <2>4
<1> QED BY <1>1, <1>2 DEF In

\* A sequence with the element used last moved to its end.
LEMMA UsedAgain ==
    ASSUME NEW S, NEW s \in Seq(S), Distinct(s, Len(s)),
           NEW p \in 1..Len(s), NEW t, t = Append(RemoveFirst(s, s[p]), s[p])
    PROVE  /\ t \in Seq(S)
           /\ Len(t) = Len(s)
           /\ Moved(s, t, Len(s), p)
<1> DEFINE e == s[p]
<1>0. PICK n \in Nat : n = Len(s)
  OBVIOUS
<1>1. PICK u : u = RemoveFirst(s, e)
  OBVIOUS
<1>2. DOMAIN s = 1..n
  BY <1>0
<1>3. IsInjective(s)
  BY <1>0, <1>2 DEF IsInjective, Distinct
<1>4. /\ u \in Seq(S)
      /\ Len(u) = n - 1
      /\ \A i \in 1..n - 1 : u[i] = IF i < p THEN s[i] ELSE s[i + 1]
  BY <1>0, <1>1, <1>3, RemoveFirstProperties
<1>5. e \in S
  BY ElementOfSeq
<1>6. /\ t \in Seq(S)
      /\ Len(t) = Len(u) + 1
      /\ \A i \in 1..Len(u) : t[i] = u[i]
      /\ t[Len(u) + 1] = e
  BY <1>1, <1>4, <1>5, AppendProperties
<1> p \in 1..n
  BY <1>0
<1>7. /\ Len(t) = n
      /\ \A i \in 1..n - 1 : t[i] = u[i]
      /\ t[n] = e
  <2>1. Len(u) + 1 = n
    BY <1>4
  <2> QED BY <1>4, <1>6, <2>1
<1>8. Moved(s, t, n, p)
  BY <1>4, <1>7 DEF Moved
<1> QED BY <1>0, <1>6, <1>7, <1>8

LEMMA UsedFirst ==
    ASSUME NEW S, NEW s \in Seq(S), Distinct(s, Len(s)),
           NEW e \in S, ~In(e, s, Len(s)),
           NEW t, t = Append(RemoveFirst(s, e), e)
    PROVE  /\ t \in Seq(S)
           /\ Len(t) = Len(s) + 1
           /\ Extends(s, t, Len(s), e)
           /\ Distinct(t, Len(s) + 1)
<1>0. PICK n \in Nat : n = Len(s)
  OBVIOUS
<1>1. t = Append(s, e)
  BY RemoveFirstOfNone DEF In
<1>2. /\ t \in Seq(S)
      /\ Len(t) = n + 1
      /\ \A i \in 1..n : t[i] = s[i]
      /\ t[n + 1] = e
  BY <1>0, <1>1, AppendProperties
<1>3. ASSUME NEW i \in 1..n + 1, NEW j \in 1..n + 1, t[i] = t[j] PROVE i = j
  <2>1. (i \in 1..n \/ i = n + 1) /\ (j \in 1..n \/ j = n + 1)
    OBVIOUS
  <2> QED BY <1>0, <1>2, <1>3, <2>1 DEF Distinct, In
<1> QED BY <1>0, <1>2, <1>3 DEF Distinct, Extends

LEMMA MostRecentProperties ==
    ASSUME NEW S, NEW s \in Seq(S)
    PROVE  /\ MostRecent(s) \in Seq(S)
           /\ Len(MostRecent(s)) = Smaller(Len(s), MaxKeys)
           /\ \A i \in 1..Smaller(Len(s), MaxKeys) :
                 MostRecent(s)[i] = s[Len(s) - Smaller(Len(s), MaxKeys) + i]
<1>1. /\ Len(s) \in Nat
      /\ MaxKeys \in Nat /\ MaxKeys >= 1
      /\ \A i \in 1..Len(s) : s[i] \in S
  BY LimiterAssumption
<1> DEFINE m == Larger(1, Len(s) - MaxKeys + 1)
<1>2. /\ m \in Int /\ m >= 1
      /\ Len(s) - m + 1 = Smaller(Len(s), MaxKeys)
      /\ Smaller(Len(s), MaxKeys) \in Nat
  BY <1>1 DEF Larger, Smaller
<1> HIDE DEF m
<1>3. \A i \in m..Len(s) : s[i] \in S
  BY <1>1, <1>2
<1>4. /\ SubSeq(s, m, Len(s)) \in Seq(S)
      /\ Len(SubSeq(s, m, Len(s))) = IF m <= Len(s) THEN Len(s) - m + 1 ELSE 0
      /\ \A i \in 1..Len(s) - m + 1 : SubSeq(s, m, Len(s))[i] = s[m + i - 1]
  BY <1>1, <1>2, <1>3, SubSeqProperties
<1>5. MostRecent(s) = SubSeq(s, m, Len(s))
  BY DEF MostRecent, m
<1> HIDE DEF MostRecent
<1>6. Len(MostRecent(s)) = Smaller(Len(s), MaxKeys)
  BY <1>1, <1>2, <1>4, <1>5
<1>7. ASSUME NEW i \in 1..Smaller(Len(s), MaxKeys)
      PROVE  MostRecent(s)[i] = s[Len(s) - Smaller(Len(s), MaxKeys) + i]
  <2>1. m + i - 1 = Len(s) - Smaller(Len(s), MaxKeys) + i
    BY <1>1, <1>2
  <2> QED BY <1>2, <1>4, <1>5, <2>1
<1> QED BY <1>4, <1>5, <1>6, <1>7

\* o, of length m, is what r holds after its first d elements.
Suffix(o, r, m, d) == \A i \in 1..m : o[i] = r[d + i]

\* The order of a cache whose key is used: the suffix moves like the whole.
LEMMA HitKeepsTheSuffix ==
    ASSUME NEW n \in Nat, NEW m \in Nat, NEW d \in Nat, n = d + m,
           NEW r, NEW o, Suffix(o, r, m, d),
           NEW r2, NEW o2, NEW q \in 1..m, NEW p, p = d + q,
           Moved(o, o2, m, q), Moved(r, r2, n, p)
    PROVE  Suffix(o2, r2, m, d)
<1> SUFFICES ASSUME NEW i \in 1..m PROVE o2[i] = r2[d + i]
  BY DEF Suffix
<1>1. CASE i = m
  <2>1. d + i = n
    BY <1>1
  <2> QED BY <1>1, <2>1 DEF Moved, Suffix
<1>2. CASE i # m
  <2>1. /\ i \in 1..m - 1 /\ i + 1 \in 1..m
        /\ d + i \in 1..n - 1
        /\ d + (i + 1) = d + i + 1
        /\ (i < q) <=> (d + i < p)
    BY <1>2
  <2>2. o2[i] = IF i < q THEN o[i] ELSE o[i + 1]
    BY <2>1 DEF Moved
  <2>3. r2[d + i] = IF d + i < p THEN r[d + i] ELSE r[d + i + 1]
    BY <2>1 DEF Moved
  <2>4. o[i] = r[d + i] /\ o[i + 1] = r[d + (i + 1)]
    BY <2>1 DEF Suffix
  <2>5. o[i + 1] = r[d + i + 1]
    BY <2>1, <2>4
  <2>6. CASE i < q
    BY <2>1, <2>2, <2>3, <2>4, <2>6
  <2>7. CASE ~(i < q)
    BY <2>1, <2>2, <2>3, <2>5, <2>7
  <2> QED BY <2>6, <2>7
<1> QED BY <1>1, <1>2

\* Dropped(o, o2, m, g): o2 is o without its g first elements, and one more.
Dropped(o, o2, m, g) == \A i \in 1..m - g : o2[i] = o[i + g]

\* A key that was never used goes to the end of both.
LEMMA NewKeepsTheSuffix ==
    ASSUME NEW n \in Nat, NEW m \in Nat, NEW d \in Nat, n = d + m,
           NEW r, NEW o, Suffix(o, r, m, d),
           NEW g \in {0, 1}, g <= m, NEW r2, NEW o2, NEW k,
           Dropped(o, o2, m, g), o2[m - g + 1] = k,
           Extends(r, r2, n, k)
    PROVE  Suffix(o2, r2, m - g + 1, d + g)
<1> SUFFICES ASSUME NEW i \in 1..m - g + 1 PROVE o2[i] = r2[d + g + i]
  BY DEF Suffix
<1>1. CASE i = m - g + 1
  <2>1. d + g + i = n + 1
    BY <1>1
  <2> QED BY <1>1, <2>1 DEF Extends
<1>2. CASE i # m - g + 1
  <2>1. /\ i \in 1..m - g /\ i + g \in 1..m
        /\ d + g + i \in 1..n
        /\ d + (i + g) = d + g + i
    BY <1>2
  <2>2. o2[i] = o[i + g]
    BY <2>1 DEF Dropped
  <2>3. o[i + g] = r[d + (i + g)] /\ r2[d + g + i] = r[d + g + i]
    BY <2>1 DEF Suffix, Extends
  <2> QED BY <2>1, <2>2, <2>3
<1> QED BY <1>1, <1>2

\* A key that was used before the ones the cache holds comes back to both ends.
LEMMA ForgottenKeepsTheSuffix ==
    ASSUME NEW n \in Nat, NEW m \in Nat, NEW d \in Nat, n = d + m, m >= 1,
           NEW r, NEW o, Suffix(o, r, m, d),
           NEW r2, NEW o2, NEW p \in 1..d,
           Dropped(o, o2, m, 1), o2[m] = r[p], Moved(r, r2, n, p)
    PROVE  Suffix(o2, r2, m, d)
<1> SUFFICES ASSUME NEW i \in 1..m PROVE o2[i] = r2[d + i]
  BY DEF Suffix
<1>1. CASE i = m
  <2>1. d + i = n
    BY <1>1
  <2> QED BY <1>1, <2>1 DEF Moved
<1>2. CASE i # m
  <2>1. /\ i \in 1..m - 1 /\ i + 1 \in 1..m
        /\ d + i \in 1..n - 1 /\ ~(d + i < p)
        /\ d + (i + 1) = d + i + 1
    BY <1>2
  <2>2. o2[i] = o[i + 1]
    BY <2>1 DEF Dropped
  <2>3. r2[d + i] = r[d + i + 1] /\ o[i + 1] = r[d + (i + 1)]
    BY <2>1 DEF Moved, Suffix
  <2> QED BY <2>1, <2>2, <2>3
<1> QED BY <1>1, <1>2

\* The elements of an order that loses its first g and gains k.
LEMMA DroppedElements ==
    ASSUME NEW m \in Nat, NEW g \in {0, 1}, g <= m, NEW o, NEW o2, NEW k,
           Distinct(o, m), Dropped(o, o2, m, g), o2[m - g + 1] = k,
           ~In(k, o, m), NEW j
    PROVE  In(j, o2, m - g + 1)
               <=> j = k \/ (In(j, o, m) /\ ~(g = 1 /\ j = o[1]))
<1>1. ASSUME NEW i \in 1..m - g + 1, o2[i] = j, j # k
      PROVE  \E h \in 1..m : o[h] = j /\ ~(g = 1 /\ j = o[1])
  <2>1. i # m - g + 1
    BY <1>1
  <2>2. i \in 1..m - g /\ i + g \in 1..m /\ (g = 1 => i + g # 1 /\ 1 \in 1..m)
    BY <2>1
  <2>3. o[i + g] = j
    BY <1>1, <2>2 DEF Dropped
  <2>4. g = 1 => o[1] # o[i + g]
    BY <2>2 DEF Distinct
  <2> QED BY <2>2, <2>3, <2>4
<1>2. ASSUME NEW h \in 1..m, o[h] = j, ~(g = 1 /\ j = o[1])
      PROVE  \E i \in 1..m - g + 1 : o2[i] = j
  <2>1. g = 1 => h # 1
    BY <1>2
  <2>2. h - g \in 1..m - g /\ (h - g) + g = h /\ h - g \in 1..m - g + 1
    BY <2>1
  <2>3. o2[h - g] = j
    BY <1>2, <2>2 DEF Dropped
  <2> QED BY <2>2, <2>3
<1>3. m - g + 1 \in 1..m - g + 1
  OBVIOUS
<1> QED BY <1>1, <1>2, <1>3 DEF In

\* A check keeps the order: whether the key is cached, new or was forgotten.
LEMMA CheckKeepsTheOrder ==
    ASSUME NEW keys, NEW cache, NEW notes, NEW k \in keys, clock \in Nat,
           LimiterInv(cache, notes, keys), OrderInv(cache, notes, keys)
    PROVE  OrderInv(Checked(cache, k, clock), Noted(notes, cache, k), keys)
<1>1. PICK r : r = notes.recent
  OBVIOUS
<1>2. PICK o : o = cache.order
  OBVIOUS
<1>3. PICK r2 : r2 = Append(RemoveFirst(r, k), k)
  OBVIOUS
<1>4. PICK o2 : o2 = Touched(cache, k)
  OBVIOUS
<1>5. PICK after : after = Checked(cache, k, clock)
  OBVIOUS
<1>6. PICK M : M = MaxKeys
  OBVIOUS
<1>7. M \in Nat /\ M >= 1
  BY <1>6, LimiterAssumption
<1>8. r \in Seq(keys) /\ IsInjective(r) /\ o = MostRecent(r)
  BY <1>1, <1>2 DEF OrderInv
<1>9. PICK n \in Nat : n = Len(r)
  BY <1>8
<1>10. PICK m \in Nat : m = Smaller(n, M)
  BY <1>7 DEF Smaller
<1>11. PICK d \in Nat : d = n - m
  BY <1>7, <1>10 DEF Smaller
<1>12. Distinct(r, n)
  <2>1. DOMAIN r = 1..n
    BY <1>8, <1>9
  <2> QED BY <1>8, <2>1 DEF IsInjective, Distinct
<1>13. o \in Seq(keys) /\ Len(o) = m /\ Suffix(o, r, m, d)
  BY <1>6, <1>8, <1>9, <1>10, <1>11, MostRecentProperties DEF Suffix
<1>14. n = d + m /\ m <= M /\ (m < M => d = 0)
  BY <1>7, <1>10, <1>11 DEF Smaller
<1>15. Distinct(o, m)
  <2> SUFFICES ASSUME NEW i \in 1..m, NEW j \in 1..m, o[i] = o[j] PROVE i = j
    BY DEF Distinct
  <2>1. d + i \in 1..n /\ d + j \in 1..n
    BY <1>14
  <2>2. r[d + i] = r[d + j]
    BY <1>13 DEF Suffix
  <2>3. d + i = d + j
    BY <1>12, <2>1, <2>2 DEF Distinct
  <2> QED BY <2>3
<1>16. \A j \in keys : Known(cache, j) <=> In(j, o, m)
  <2>1. DOMAIN o = 1..m
    BY <1>13
  <2> QED BY <1>2, <2>1 DEF OrderInv, ToSet, In
<1>17. Evicts(cache, k) <=> ~Known(cache, k) /\ m = M
  <2>1. Evicts(cache, k) <=> ~Known(cache, k) /\ m >= M
    BY <1>2, <1>6, <1>13 DEF Evicts
  <2>2. m >= M <=> m = M
    BY <1>7, <1>14
  <2> QED BY <2>1, <2>2
<1>18. /\ after.order = o2
       /\ Known(after, k)
       /\ \A j \in keys : j # k =>
             (Known(after, j) <=> /\ Known(cache, j)
                                  /\ ~(Evicts(cache, k) /\ j = Head(o)))
  <2>1. DOMAIN cache.bucket = keys
    BY DEF LimiterInv
  <2>2. after.bucket[k] # None
    BY <1>5, CheckedBucket DEF LimiterInv
  <2> QED BY <1>2, <1>4, <1>5, <2>1, <2>2 DEF Checked, Known
<1>19. PICK n2 \in Nat :
          /\ r2 \in Seq(keys)
          /\ Len(r2) = n2
          /\ Distinct(r2, n2)
          /\ \/ ~In(k, r, n) /\ n2 = n + 1 /\ Extends(r, r2, n, k)
             \/ \E p \in 1..n : r[p] = k /\ n2 = n /\ Moved(r, r2, n, p)
  <2>1. CASE ~In(k, r, n)
    <3>1. n + 1 \in Nat
      OBVIOUS
    <3>2. /\ r2 \in Seq(keys)
          /\ Len(r2) = n + 1
          /\ Extends(r, r2, n, k)
          /\ Distinct(r2, n + 1)
      BY <1>3, <1>8, <1>9, <1>12, <2>1, UsedFirst
    <3> QED BY <2>1, <3>1, <3>2
  <2>2. CASE In(k, r, n)
    <3>1. PICK p \in 1..n : r[p] = k
      BY <2>2 DEF In
    <3>2. r2 \in Seq(keys) /\ Len(r2) = n /\ Moved(r, r2, n, p)
      <4>1. r2 = Append(RemoveFirst(r, r[p]), r[p]) /\ p \in 1..Len(r)
        BY <1>3, <1>9, <3>1
      <4> QED BY <1>8, <1>9, <1>12, <4>1, UsedAgain
    <3>3. Distinct(r2, n)
      BY <1>12, <3>2, MovedIsDistinct
    <3> QED BY <3>1, <3>2, <3>3
  <2> QED BY <2>1, <2>2
<1>20. ASSUME Known(cache, k)
       PROVE  /\ o2 \in Seq(keys)
              /\ Len(o2) = Smaller(n2, M)
              /\ Suffix(o2, r2, Len(o2), n2 - Len(o2))
              /\ \A j \in keys : Known(after, j) <=> In(j, o2, Len(o2))
  <2>1. PICK q \in 1..m : o[q] = k
    BY <1>16, <1>20 DEF In
  <2>2. o2 = Append(RemoveFirst(o, k), k)
    BY <1>2, <1>4, <1>20 DEF Touched
  <2>3. o2 \in Seq(keys) /\ Len(o2) = m /\ Moved(o, o2, m, q)
    <3>1. o2 = Append(RemoveFirst(o, o[q]), o[q]) /\ q \in 1..Len(o)
      BY <1>13, <2>1, <2>2
    <3> QED BY <1>13, <1>15, <3>1, UsedAgain
  <2>4. d + q \in 1..n /\ r[d + q] = k
    BY <1>13, <1>14, <2>1 DEF Suffix
  <2>5. n2 = n /\ Moved(r, r2, n, d + q)
    <3>1. PICK p \in 1..n : r[p] = k /\ n2 = n /\ Moved(r, r2, n, p)
      BY <1>19, <2>4 DEF In
    <3>2. p = d + q
      BY <1>12, <2>4, <3>1 DEF Distinct
    <3> QED BY <3>1, <3>2
  <2>6. Suffix(o2, r2, m, d)
    BY <1>13, <1>14, <2>3, <2>5, HitKeepsTheSuffix
  <2>7. n2 - m = d /\ Smaller(n2, M) = m
    BY <1>10, <1>11, <1>14, <2>5
  <2>8. \A j : In(j, o2, m) <=> In(j, o, m)
    BY <2>3, MovedKeepsTheElements
  <2>9. \A j \in keys : Known(after, j) <=> Known(cache, j)
    BY <1>17, <1>18, <1>20
  <2>10. \A j \in keys : Known(after, j) <=> In(j, o2, m)
    BY <1>16, <2>8, <2>9
  <2> QED BY <2>3, <2>6, <2>7, <2>10
<1>21. ASSUME ~Known(cache, k)
       PROVE  /\ o2 \in Seq(keys)
              /\ Len(o2) = Smaller(n2, M)
              /\ Suffix(o2, r2, Len(o2), n2 - Len(o2))
              /\ \A j \in keys : Known(after, j) <=> In(j, o2, Len(o2))
  <2>1. PICK g \in {0, 1} : (g = 1 <=> Evicts(cache, k)) /\ (g = 1 <=> m = M)
    BY <1>17, <1>21
  <2>2. g <= m
    BY <1>7, <2>1
  <2>3. PICK kept : kept = IF Evicts(cache, k) THEN Tail(o) ELSE o
    OBVIOUS
  <2>4. /\ kept \in Seq(keys)
        /\ Len(kept) = m - g
        /\ \A i \in 1..m - g : kept[i] = o[i + g]
        /\ g = 1 => Head(o) = o[1]
    <3>1. CASE g = 1
      <4>1. o # <<>>
        BY <1>13, <2>2, <3>1
      <4> QED BY <1>13, <2>1, <2>3, <3>1, <4>1, HeadTailProperties
    <3>2. CASE g = 0
      <4>1. kept = o /\ m - g = m /\ \A i \in 1..m : i + g = i
        BY <2>1, <2>3, <3>2
      <4> QED BY <1>13, <3>2, <4>1
    <3> QED BY <3>1, <3>2
  <2>5. o2 = Append(kept, k)
    BY <1>2, <1>4, <1>21, <2>3 DEF Touched
  <2>6. /\ o2 \in Seq(keys)
        /\ Len(o2) = m - g + 1
        /\ \A i \in 1..m - g : o2[i] = kept[i]
        /\ o2[m - g + 1] = k
    BY <2>4, <2>5, AppendProperties
  <2>7. Dropped(o, o2, m, g)
    BY <2>4, <2>6 DEF Dropped
  <2>8. ~In(k, o, m)
    BY <1>16, <1>21
  <2>9. /\ m - g + 1 = Smaller(n2, M)
        /\ Suffix(o2, r2, m - g + 1, n2 - (m - g + 1))
    <3>1. CASE n2 = n + 1 /\ Extends(r, r2, n, k)
      <4>1. m - g + 1 = Smaller(n2, M) /\ n2 - (m - g + 1) = d + g
        BY <1>7, <1>10, <1>14, <2>1, <3>1 DEF Smaller
      <4>2. Suffix(o2, r2, m - g + 1, d + g)
        BY <1>13, <1>14, <2>2, <2>6, <2>7, <3>1, NewKeepsTheSuffix
      <4> QED BY <4>1, <4>2
    <3>2. ASSUME NEW p \in 1..n, r[p] = k, n2 = n, Moved(r, r2, n, p)
          PROVE  /\ m - g + 1 = Smaller(n2, M)
                 /\ Suffix(o2, r2, m - g + 1, n2 - (m - g + 1))
      <4>1. p \in 1..d
        <5>1. SUFFICES ASSUME p > d PROVE FALSE
          OBVIOUS
        <5>2. p - d \in 1..m /\ d + (p - d) = p
          BY <1>14, <5>1
        <5>3. o[p - d] = r[d + (p - d)]
          BY <1>13, <5>2 DEF Suffix
        <5> QED BY <2>8, <3>2, <5>2, <5>3 DEF In
      <4>2. m = M
        <5>1. d >= 1
          BY <4>1
        <5> QED BY <1>7, <1>14, <5>1
      <4>3. g = 1 /\ m >= 1 /\ m - g + 1 = m /\ n2 - (m - g + 1) = d
        BY <1>7, <1>14, <2>1, <3>2, <4>2
      <4>4. m = Smaller(n2, M)
        BY <1>10, <3>2
      <4>5. o2[m] = r[p] /\ Dropped(o, o2, m, 1)
        BY <2>6, <2>7, <3>2, <4>3
      <4>6. Suffix(o2, r2, m, d)
        BY <1>13, <1>14, <3>2, <4>1, <4>3, <4>5, ForgottenKeepsTheSuffix
      <4> QED BY <4>3, <4>4, <4>6
    <3> QED BY <1>19, <3>1, <3>2
  <2>10. ASSUME NEW j \in keys
         PROVE  Known(after, j) <=> In(j, o2, m - g + 1)
    <3>1. In(j, o2, m - g + 1)
              <=> j = k \/ (In(j, o, m) /\ ~(g = 1 /\ j = o[1]))
      BY <1>15, <2>2, <2>6, <2>7, <2>8, DroppedElements
    <3>2. g = 1 /\ j = o[1] <=> Evicts(cache, k) /\ j = Head(o)
      BY <2>1, <2>4
    <3>3. In(j, o, m) <=> Known(cache, j)
      BY <1>16
    <3> QED BY <1>18, <3>1, <3>2, <3>3
  <2> QED BY <2>6, <2>9, <2>10
<1>22. /\ o2 \in Seq(keys)
       /\ Len(o2) = Smaller(n2, M)
       /\ Suffix(o2, r2, Len(o2), n2 - Len(o2))
       /\ \A j \in keys : Known(after, j) <=> In(j, o2, Len(o2))
  BY <1>20, <1>21
<1>23. o2 = MostRecent(r2)
  <2>1. /\ MostRecent(r2) \in Seq(keys)
        /\ Len(MostRecent(r2)) = Len(o2)
        /\ \A i \in 1..Len(o2) : MostRecent(r2)[i] = r2[n2 - Len(o2) + i]
    BY <1>6, <1>19, <1>22, MostRecentProperties
  <2>2. \A i \in 1..Len(o2) : o2[i] = MostRecent(r2)[i]
    BY <1>22, <2>1 DEF Suffix
  <2> QED BY <1>22, <2>1, <2>2, SeqEqual
<1>24. ToSet(o2) = {j \in keys : Known(after, j)}
  <2>1. DOMAIN o2 = 1..Len(o2) /\ \A i \in 1..Len(o2) : o2[i] \in keys
    BY <1>22
  <2> QED BY <1>22, <2>1 DEF ToSet, In
<1>25. IsInjective(r2)
  <2>1. DOMAIN r2 = 1..n2
    BY <1>19
  <2> QED BY <1>19, <2>1 DEF IsInjective, Distinct
<1>26. Noted(notes, cache, k).recent = r2
  BY <1>1, <1>3 DEF Noted
<1> QED BY <1>5, <1>18, <1>19, <1>23, <1>24, <1>25, <1>26 DEF OrderInv


LEMMA OrdersAreSound ==
    ASSUME IInv, OrdersInv, [Next]_vars
    PROVE  OrdersInv'
<1>1. CASE UNCHANGED vars
  BY <1>1 DEF vars, OrdersInv, OrderInv, Known
<1>2. CASE Tick
  <2>1. clock' <= MaxTime
    BY <1>2, LimitsAssumption DEF Tick, IInv
  <2> QED BY <1>2, <2>1 DEF Tick, OrdersInv, OrderInv, Known
<1>3. ASSUME NEW c \in Clients, Limited(c) PROVE OrdersInv'
  <2>1. AddressOf[c] \in Addresses
    BY LimitsAssumption
  <2>2. /\ clock' = clock
        /\ clock \in Nat
        /\ ip' = Checked(ip, AddressOf[c], clock)
        /\ user' = Checked(user, c, clock)
        /\ past'.ip = Noted(past.ip, ip, AddressOf[c])
        /\ past'.user = Noted(past.user, user, c)
    BY <1>3 DEF Limited, IInv
  <2>3. OrderInv(ip', past'.ip, Addresses)
    BY <2>1, <2>2, CheckKeepsTheOrder DEF IInv, OrdersInv
  <2>4. OrderInv(user', past'.user, Clients)
    BY <2>2, CheckKeepsTheOrder DEF IInv, OrdersInv
  <2> QED BY <2>2, <2>3, <2>4 DEF OrdersInv, OrderInv, Known
<1> QED BY <1>1, <1>2, <1>3 DEF Next

LEMMA SpecKeepsTheOrders == Spec => []OrdersInv
<1>1. Init => OrdersInv
  <2> SUFFICES ASSUME Init PROVE OrdersInv
    OBVIOUS
  <2>1. ASSUME NEW keys
        PROVE  OrderInv(EmptyCache(keys), NoPast(keys), keys)
    <3>1. MostRecent(<<>>) = <<>>
      <4>1. Len(MostRecent(<<>>)) = 0 /\ MostRecent(<<>>) \in Seq(keys)
        <5>1. <<>> \in Seq(keys) /\ Len(<<>>) = 0
          OBVIOUS
        <5>2. Smaller(0, MaxKeys) = 0
          BY LimiterAssumption DEF Smaller
        <5> QED BY <5>1, <5>2, MostRecentProperties
      <4> QED BY <4>1, EmptySeq
    <3> QED BY <3>1 DEF OrderInv, EmptyCache, NoPast, IsInjective, ToSet, Known
  <2>2. clock <= MaxTime
    BY LimitsAssumption DEF Init
  <2> QED BY <2>1, <2>2 DEF Init, OrdersInv
<1> QED BY <1>1, OrdersAreSound, SpecIsSound, PTL DEF Spec

\* A cache holds the keys used last, in the order of their use, whatever comes
\* and goes: each client keeps its bucket until MaxKeys others are used.
THEOREM CacheIsLRU == Spec => []CacheKeepsTheMostRecent
<1>1. OrdersInv => CacheKeepsTheMostRecent
  BY DEF OrdersInv, OrderInv, CacheKeepsTheMostRecent
<1> QED BY <1>1, SpecKeepsTheOrders, PTL

\* The caches never outgrow their bound, and list each key they hold once.
THEOREM TypeCorrect == Spec => []TypeOK
<1>1. ASSUME NEW keys, NEW cache, NEW notes, LimiterInv(cache, notes, keys),
             OrderInv(cache, notes, keys)
      PROVE  CacheOK(cache, keys)
  <2>1. PICK r : r = notes.recent
    OBVIOUS
  <2>2. r \in Seq(keys) /\ IsInjective(r) /\ cache.order = MostRecent(r)
    BY <1>1, <2>1 DEF OrderInv
  <2>3. PICK o : o = cache.order
    OBVIOUS
  <2>4. PICK n \in Nat : n = Len(r) /\ DOMAIN r = 1..n
    BY <2>2
  <2>5. PICK m \in Nat : m = Smaller(n, MaxKeys) /\ m <= MaxKeys /\ m <= n
    BY LimiterAssumption DEF Smaller
  <2>6. o \in Seq(keys) /\ Len(o) = m /\ \A i \in 1..m : o[i] = r[n - m + i]
    BY <2>2, <2>3, <2>4, <2>5, MostRecentProperties
  <2>7. IsInjective(o)
    <3> SUFFICES ASSUME NEW i \in 1..m, NEW j \in 1..m, o[i] = o[j] PROVE i = j
      BY <2>6 DEF IsInjective
    <3>1. n - m + i \in 1..n /\ n - m + j \in 1..n
      BY <2>5
    <3>2. r[n - m + i] = r[n - m + j]
      BY <2>6
    <3>3. n - m + i = n - m + j
      BY <2>2, <2>4, <3>1, <3>2 DEF IsInjective
    <3> QED BY <3>3
  <2> QED BY <1>1, <2>3, <2>5, <2>6, <2>7 DEF CacheOK, LimiterInv, OrderInv
<1>2. IInv /\ OrdersInv => TypeOK
  <2> SUFFICES ASSUME IInv, OrdersInv PROVE TypeOK
    OBVIOUS
  <2>1. CacheOK(ip, Addresses) /\ CacheOK(user, Clients)
    BY <1>1 DEF IInv, OrdersInv
  <2> QED BY <2>1, LimitsAssumption DEF TypeOK, IInv, OrdersInv, TurnedInv
<1> QED BY <1>2, SpecIsSound, SpecKeepsTheOrders, PTL
=============================================================================
