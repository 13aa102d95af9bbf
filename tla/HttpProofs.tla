----------------------------- MODULE HttpProofs -----------------------------
(***************************************************************************)
(* Theorems about HttpApi, for every set of requests and addresses, every    *)
(* burst and rate, every size of the queue and number of workers.           *)
(*                                                                         *)
(* The layers: the limiter (LimiterInv), the queue (Ordered), the types,     *)
(* and what is true of each request at each phase of its goroutine           *)
(* (Traced).  The last says which responses exist at all, so that a property *)
(* of the first code written becomes one of the whole response.             *)
(***************************************************************************)
EXTENDS HttpApi, SequenceTheorems, FiniteSetTheorems, TLAPS

-----------------------------------------------------------------------------
(***************************************************************************)
(* The token bucket: it never allows more than the bound of RateBound, and  *)
(* never less.                                                              *)
(*                                                                          *)
(* Both follow from one equation.  The level of a bucket is what is left of *)
(* the bound in the tightest stretch of time: at most what every stretch    *)
(* leaves (Sound), and exactly what some stretch leaves, unless the bucket  *)
(* is full (Tight).                                                         *)
(***************************************************************************)

\* What the stretch that begins with the i-th grant still leaves, when the limiter was used.
Left(a, i) ==
    Capacity + (limiters[a].last - grants[a][i]) - (Len(grants[a]) - i + 1) * Cost

BucketIsSound ==
    \A a \in DOMAIN limiters :
        /\ limiters[a].last <= now
        /\ \A i \in DOMAIN grants[a] :
              grants[a][i] <= limiters[a].last /\ limiters[a].level <= Left(a, i)

BucketIsTight ==
    \A a \in DOMAIN limiters :
        \/ limiters[a].level = Capacity
        \/ \E i \in DOMAIN grants[a] : limiters[a].level = Left(a, i)

NoLimiterNoGrant == \A a \in Address \ DOMAIN limiters : grants[a] = <<>>

LimiterInv ==
    LimiterTypeOK /\ BucketIsSound /\ BucketIsTight /\ NoLimiterNoGrant /\ RateBound

LEMMA CapacityFits == Capacity \in Nat /\ Cost \in Nat /\ 0 < Cost /\ Cost <= Capacity
<1>1. Burst \in Nat /\ 1 <= Burst /\ Cost \in Nat /\ 0 < Cost
  BY LimiterAssumption
<1>2. Burst * Cost \in Nat /\ 1 * Cost <= Burst * Cost
  BY <1>1
<1> QED
  BY <1>1, <1>2 DEF Capacity

\* Multiplication by Cost of the numbers that occur: the provers then see only atoms.
LEMMA TimesCost ==
  ASSUME NEW m \in Int
  PROVE  m * Cost \in Int /\ (m + 1) * Cost = m * Cost + Cost
BY CapacityFits

LEMMA LimiterInitially == LimiterInit => LimiterInv
<1> SUFFICES ASSUME LimiterInit PROVE LimiterInv
  OBVIOUS
<1>1. DOMAIN limiters = {} /\ now = 0 /\ \A a \in Address : grants[a] = <<>>
  BY DEF LimiterInit
<1>2. grants \in [Address -> Seq(0 .. MaxTime)] /\ now \in 0 .. MaxTime
  BY LimiterAssumption DEF LimiterInit
<1> QED
  BY <1>1, <1>2
     DEF LimiterInv, LimiterTypeOK, BucketIsSound, BucketIsTight, NoLimiterNoGrant, RateBound

\* A limiter that has just been looked up is within its capacity, and so is its level.
LEMMA LevelFits ==
  ASSUME LimiterTypeOK, BucketIsSound, NEW a \in Address
  PROVE  /\ GetLimiter(a).level \in 0 .. Capacity
         /\ GetLimiter(a).last \in 0 .. now
         /\ Level(GetLimiter(a)) \in 0 .. Capacity
<1>1. GetLimiter(a).level \in 0 .. Capacity /\ GetLimiter(a).last \in 0 .. now
  BY CapacityFits DEF LimiterTypeOK, BucketIsSound, GetLimiter, Limiter
<1> QED
  BY <1>1, CapacityFits DEF Level, LimiterTypeOK

\* A refused request leaves everything as it was: the limiter existed.
LEMMA DenyChangesNothing ==
  ASSUME LimiterInv, NEW a \in Address, Deny(a)
  PROVE  /\ a \in DOMAIN limiters
         /\ limiters' = limiters /\ grants' = grants /\ now' = now
<1>1. a \in DOMAIN limiters
  BY CapacityFits DEF Deny, HasToken, GetLimiter, Level, LimiterInv, LimiterTypeOK
<1>2. GetLimiter(a) = limiters[a] /\ DOMAIN limiters \cup {a} = DOMAIN limiters
  BY <1>1 DEF GetLimiter
<1>3. limiters' = [b \in DOMAIN limiters |-> limiters[b]]
  BY <1>2 DEF Deny, Put
<1>4. limiters = [b \in DOMAIN limiters |-> limiters[b]]
  BY DEF LimiterInv, LimiterTypeOK
<1> QED
  BY <1>1, <1>3, <1>4 DEF Deny

\* What Allow does to the limiter and the grants of its address, with the terms of the
\* invariant in the form in which it is stated.
LEMMA AllowEffect ==
  ASSUME LimiterInv, NEW a \in Address, Allow(a)
  PROVE  /\ LimiterTypeOK'
         /\ now' = now
         /\ a \in DOMAIN limiters'
         /\ limiters'[a].last = now
         /\ limiters'[a].level = Level(GetLimiter(a)) - Cost
         /\ limiters'[a].level \in 0 .. Capacity
         /\ Len(grants'[a]) = Len(grants[a]) + 1
         /\ grants'[a][Len(grants[a]) + 1] = now
         /\ \A i \in DOMAIN grants[a] : grants'[a][i] = grants[a][i]
         /\ \A b \in Address \ {a} :
               /\ grants'[b] = grants[b]
               /\ b \in DOMAIN limiters' <=> b \in DOMAIN limiters
               /\ b \in DOMAIN limiters => limiters'[b] = limiters[b]
<1> DEFINE l == [level |-> Level(GetLimiter(a)) - Cost, last |-> now]
<1>1. LimiterTypeOK /\ BucketIsSound
  BY DEF LimiterInv
<1>2. Level(GetLimiter(a)) \in 0 .. Capacity /\ Cost <= Level(GetLimiter(a))
  BY <1>1, LevelFits, CapacityFits DEF Allow, HasToken
<1>3. l \in Limiter /\ l.level \in 0 .. Capacity
  BY <1>1, <1>2, CapacityFits DEF LimiterTypeOK, Limiter
<1>4. limiters' = [b \in DOMAIN limiters \cup {a} |-> IF b = a THEN l ELSE limiters[b]]
  BY DEF Allow, Put
<1>5. grants[a] \in Seq(0 .. MaxTime) /\ now \in 0 .. MaxTime
  BY <1>1 DEF LimiterTypeOK
<1>6. grants' = [grants EXCEPT ![a] = Append(@, now)] /\ now' = now
  BY DEF Allow
<1>7. grants'[a] = Append(grants[a], now)
  BY <1>1, <1>6 DEF LimiterTypeOK
<1>8. Append(grants[a], now) \in Seq(0 .. MaxTime)
  BY <1>5
<1>9. grants' \in [Address -> Seq(0 .. MaxTime)]
  BY <1>1, <1>6, <1>8 DEF LimiterTypeOK
<1>10. LimiterTypeOK'
  <2>1. DOMAIN limiters' = DOMAIN limiters \cup {a}
    BY <1>4
  <2>2. limiters' \in [DOMAIN limiters' -> Limiter]
    BY <1>1, <1>3, <1>4, <2>1 DEF LimiterTypeOK
  <2>3. (Limiter = Limiter')
    BY DEF Limiter, Capacity
  <2> QED
    BY <1>1, <1>5, <1>6, <1>9, <2>1, <2>2, <2>3 DEF LimiterTypeOK, Limiter, Capacity
<1>11. \A b \in Address \ {a} : grants'[b] = grants[b]
  BY <1>1, <1>6 DEF LimiterTypeOK
<1>12. limiters'[a] = l /\ a \in DOMAIN limiters'
  BY <1>4
<1>13. \A b \in Address \ {a} :
          /\ b \in DOMAIN limiters' <=> b \in DOMAIN limiters
          /\ b \in DOMAIN limiters => limiters'[b] = limiters[b]
  BY <1>4
<1>14. /\ Len(grants'[a]) = Len(grants[a]) + 1
       /\ grants'[a][Len(grants[a]) + 1] = now
       /\ \A i \in DOMAIN grants[a] : grants'[a][i] = grants[a][i]
  BY <1>5, <1>7
<1>15. /\ limiters'[a].last = now
       /\ limiters'[a].level = Level(GetLimiter(a)) - Cost
       /\ limiters'[a].level \in 0 .. Capacity
  BY <1>3, <1>12
<1>16. \A b \in Address \ {a} :
          /\ grants'[b] = grants[b]
          /\ b \in DOMAIN limiters' <=> b \in DOMAIN limiters
          /\ b \in DOMAIN limiters => limiters'[b] = limiters[b]
  BY <1>11, <1>13
<1>17. now' = now /\ a \in DOMAIN limiters'
  BY <1>6, <1>12
<1> HIDE DEF l
<1> QED
  BY <1>10, <1>14, <1>15, <1>16, <1>17

\* Before the grant: what the stretches leave when the bucket has been refilled.
LEMMA RefilledIsSound ==
  ASSUME LimiterInv, NEW a \in Address, NEW i \in DOMAIN grants[a]
  PROVE  /\ i \in Nat /\ 1 <= i /\ i <= Len(grants[a])
         /\ grants[a][i] \in Nat /\ grants[a][i] <= now
         /\ Level(GetLimiter(a)) + (Len(grants[a]) - i + 1) * Cost
               <= Capacity + (now - grants[a][i])
<1>1. grants[a] \in Seq(0 .. MaxTime) /\ now \in Nat
  BY DEF LimiterInv, LimiterTypeOK
<1>2. i \in Nat /\ 1 <= i /\ i <= Len(grants[a]) /\ Len(grants[a]) \in Nat
  BY <1>1
<1>9. grants[a][i] \in Nat
  BY <1>1, <1>2, LimiterAssumption
<1>3. a \in DOMAIN limiters
  BY <1>2 DEF LimiterInv, NoLimiterNoGrant
<1>4. GetLimiter(a) = limiters[a]
  BY <1>3 DEF GetLimiter
<1>5. /\ limiters[a].last \in Nat /\ limiters[a].level \in Nat /\ limiters[a].last <= now
      /\ grants[a][i] <= limiters[a].last /\ limiters[a].level <= Left(a, i)
  BY <1>1, <1>3, CapacityFits DEF LimiterInv, LimiterTypeOK, BucketIsSound, Limiter
<1>6. (Len(grants[a]) - i + 1) * Cost \in Int
  <2>1. Len(grants[a]) - i + 1 \in Int
    BY <1>2
  <2> QED
    BY <2>1, TimesCost
<1>7. Level(limiters[a]) <= limiters[a].level + (now - limiters[a].last)
  BY <1>1, <1>5, CapacityFits DEF Level
<1>8. Level(limiters[a]) \in Int
  BY <1>1, <1>5, CapacityFits DEF Level
<1> DEFINE p == (Len(grants[a]) - i + 1) * Cost
<1>10. limiters[a].level <= Capacity + (limiters[a].last - grants[a][i]) - p
  BY <1>5 DEF Left
<1>11. p \in Int
  BY <1>6
<1> HIDE DEF p
<1>12. Level(limiters[a]) + p <= Capacity + (now - grants[a][i])
  <2> DEFINE g == grants[a][i]
             v == Level(limiters[a])
             w == limiters[a].level
             t == limiters[a].last
  <2>1. v \in Int /\ w \in Int /\ t \in Int /\ g \in Int /\ now \in Int /\ Capacity \in Int
    BY <1>1, <1>5, <1>8, <1>9, CapacityFits
  <2>2. v <= w + (now - t) /\ w <= Capacity + (t - g) - p
    BY <1>7, <1>10
  <2> HIDE DEF g, v, w, t
  <2>3. v + p <= Capacity + (now - g)
    BY <1>11, <2>1, <2>2
  <2> QED
    BY <2>3 DEF g, v
<1>13. grants[a][i] <= now
  BY <1>1, <1>5, <1>9
<1> QED
  BY <1>2, <1>4, <1>9, <1>12, <1>13 DEF p
-----------------------------------------------------------------------------

\* And what the tightest of them leaves, unless the bucket is full.
LEMMA RefilledIsTight ==
  ASSUME LimiterInv, NEW a \in Address
  PROVE  \/ Level(GetLimiter(a)) = Capacity
         \/ \E i \in DOMAIN grants[a] :
               Level(GetLimiter(a)) = Capacity + (now - grants[a][i])
                                         - (Len(grants[a]) - i + 1) * Cost
<1>1. CASE a \notin DOMAIN limiters
  BY <1>1, CapacityFits DEF GetLimiter, Level, LimiterInv, LimiterTypeOK
<1>2. CASE a \in DOMAIN limiters
  <2>1. GetLimiter(a) = limiters[a]
    BY <1>2 DEF GetLimiter
  <2>2. /\ grants[a] \in Seq(0 .. MaxTime) /\ now \in Nat
        /\ limiters[a].last \in Nat /\ limiters[a].level \in 0 .. Capacity
        /\ limiters[a].last <= now
    BY <1>2, LimiterAssumption DEF LimiterInv, LimiterTypeOK, BucketIsSound, Limiter
  <2>3. CASE limiters[a].level = Capacity
    BY <2>1, <2>2, <2>3, CapacityFits DEF Level
  <2>4. CASE \E i \in DOMAIN grants[a] : limiters[a].level = Left(a, i)
    <3>1. PICK i \in DOMAIN grants[a] : limiters[a].level = Left(a, i)
      BY <2>4
    <3>2. i \in Nat /\ Len(grants[a]) \in Nat /\ grants[a][i] \in Nat
      BY <2>2, LimiterAssumption
    <3> DEFINE p == (Len(grants[a]) - i + 1) * Cost
    <3>3. p \in Int
      BY <3>2, TimesCost
    <3>4. limiters[a].level = Capacity + (limiters[a].last - grants[a][i]) - p
      BY <3>1 DEF Left
    <3> HIDE DEF p
    <3>5. \/ Level(limiters[a]) = Capacity
          \/ Level(limiters[a]) = limiters[a].level + (now - limiters[a].last)
      BY DEF Level
    <3> DEFINE t == limiters[a].last
               g == grants[a][i]
    <3>6. t \in Nat /\ g \in Nat /\ now \in Nat /\ Capacity \in Nat
      BY <2>2, <3>2, CapacityFits
    <3> HIDE DEF t, g
    <3>7. Capacity + (t - g) - p + (now - t) = Capacity + (now - g) - p
      BY <3>3, <3>6
    <3>8. \/ Level(limiters[a]) = Capacity
          \/ Level(limiters[a]) = Capacity + (now - grants[a][i]) - p
      BY <3>4, <3>5, <3>7 DEF t, g
    <3> QED
      BY <2>1, <3>8 DEF p
  <2> QED
    BY <1>2, <2>3, <2>4 DEF LimiterInv, BucketIsTight
<1> QED
  BY <1>1, <1>2

\* The limiter of another address keeps its part of the invariant.
LEMMA OthersKeep ==
  ASSUME LimiterInv, NEW b \in Address, now' = now, grants'[b] = grants[b],
         b \in DOMAIN limiters' <=> b \in DOMAIN limiters,
         b \in DOMAIN limiters => limiters'[b] = limiters[b]
  PROVE  /\ b \in DOMAIN limiters' =>
              /\ limiters'[b].last <= now'
              /\ \A i \in DOMAIN grants'[b] :
                    grants'[b][i] <= limiters'[b].last /\ limiters'[b].level <= Left(b, i)'
              /\ \/ limiters'[b].level = Capacity
                 \/ \E i \in DOMAIN grants'[b] : limiters'[b].level = Left(b, i)'
         /\ b \notin DOMAIN limiters' => grants'[b] = <<>>
         /\ \A i, k \in DOMAIN grants'[b] :
               i <= k => (k - i + 1) * Cost <= Capacity + (grants'[b][k] - grants'[b][i])
<1>1. b \in DOMAIN limiters => \A i \in DOMAIN grants[b] : Left(b, i)' = Left(b, i)
  BY DEF Left, Capacity
<1> QED
  BY <1>1 DEF LimiterInv, BucketIsSound, BucketIsTight, NoLimiterNoGrant, RateBound

\* A grant keeps the invariant of its own address ...
LEMMA GrantKeeps ==
  ASSUME LimiterInv, NEW a \in Address, Allow(a)
  PROVE  /\ limiters'[a].last <= now'
         /\ \A i \in DOMAIN grants'[a] :
               grants'[a][i] <= limiters'[a].last /\ limiters'[a].level <= Left(a, i)'
         /\ \/ limiters'[a].level = Capacity
            \/ \E i \in DOMAIN grants'[a] : limiters'[a].level = Left(a, i)'
         /\ \A i, k \in DOMAIN grants'[a] :
               i <= k => (k - i + 1) * Cost <= Capacity + (grants'[a][k] - grants'[a][i])
<1>0. /\ Len(grants[a]) \in Nat /\ Level(GetLimiter(a)) \in 0 .. Capacity
      /\ now \in Nat /\ grants[a] \in Seq(0 .. MaxTime)
  BY LevelFits, LimiterAssumption DEF LimiterInv, LimiterTypeOK
<1> PICK n \in Nat : n = Len(grants[a])
  BY <1>0
<1> PICK v \in 0 .. Capacity : v = Level(GetLimiter(a))
  BY <1>0
<1> DEFINE P(i) == (n - i + 1) * Cost
<1>1. /\ n \in Nat /\ v \in 0 .. Capacity /\ now \in Nat /\ grants[a] \in Seq(0 .. MaxTime)
      /\ DOMAIN grants[a] = 1 .. n
  BY <1>0
<1>2. /\ now' = now /\ limiters'[a].last = now /\ limiters'[a].level = v - Cost
      /\ limiters'[a].level \in 0 .. Capacity
      /\ Len(grants'[a]) = n + 1 /\ grants'[a][n + 1] = now
      /\ \A i \in 1 .. n : grants'[a][i] = grants[a][i]
      /\ grants'[a] \in Seq(0 .. MaxTime)
  BY <1>1, AllowEffect DEF LimiterTypeOK
<1>3. DOMAIN grants'[a] = 1 .. (n + 1)
  BY <1>1, <1>2
<1>4. ASSUME NEW i \in 1 .. n
      PROVE  P(i) \in Int /\ ((n + 1) - i + 1) * Cost = P(i) + Cost
  <2> DEFINE m == n - i + 1
  <2>1. m \in Int /\ (n + 1) - i + 1 = m + 1
    BY <1>1
  <2> HIDE DEF m
  <2>2. m * Cost \in Int /\ (m + 1) * Cost = m * Cost + Cost
    BY <2>1, TimesCost
  <2>3. P(i) = m * Cost
    BY DEF m
  <2> HIDE DEF P
  <2> QED
    BY <2>1, <2>2, <2>3
<1>5. (n + 1) - (n + 1) + 1 = 1 /\ 1 * Cost = Cost
  BY <1>1, CapacityFits
<1>6. \A i \in 1 .. n :
         /\ grants[a][i] \in Nat /\ grants[a][i] <= now
         /\ v + P(i) <= Capacity + (now - grants[a][i])
  BY <1>1, RefilledIsSound
<1>9. v = Capacity \/ \E i \in 1 .. n : v = Capacity + (now - grants[a][i]) - P(i)
  BY <1>1, RefilledIsTight
<1>13. Cost <= v
  BY DEF Allow, HasToken
<1> HIDE DEF P
<1>7. ASSUME NEW i \in 1 .. n
      PROVE  Left(a, i)' = Capacity + (now - grants[a][i]) - (P(i) + Cost)
  <2>1. limiters'[a].last = now /\ grants'[a][i] = grants[a][i] /\ Len(grants'[a]) = n + 1
    BY <1>2
  <2>2. (Len(grants'[a]) - i + 1) * Cost = P(i) + Cost
    BY <1>4, <2>1, Zenon
  <2> QED
    BY <2>1, <2>2, Zenon DEF Left, Capacity
<1>8. Left(a, n + 1)' = Capacity - Cost
  <2>1. limiters'[a].last = now /\ grants'[a][n + 1] = now /\ Len(grants'[a]) = n + 1
    BY <1>2
  <2>2. (Len(grants'[a]) - (n + 1) + 1) * Cost = Cost
    BY <1>5, <2>1, Zenon
  <2>3. Left(a, n + 1)' = Capacity + (now - now) - Cost
    BY <2>1, <2>2, Zenon DEF Left, Capacity
  <2>4. Capacity + (now - now) - Cost = Capacity - Cost
    BY <1>1, CapacityFits
  <2> QED
    BY <2>3, <2>4, Zenon
<1>10. ASSUME NEW i \in 1 .. (n + 1)
       PROVE  grants'[a][i] <= limiters'[a].last /\ limiters'[a].level <= Left(a, i)'
  <2>1. CASE i = n + 1
    <3>1. v - Cost <= Capacity - Cost /\ now <= now
      BY <1>1, CapacityFits
    <3>2. limiters'[a].level = v - Cost /\ Left(a, i)' = Capacity - Cost
      BY <1>2, <1>8, <2>1
    <3>3. limiters'[a].last = now /\ grants'[a][i] = now
      BY <1>2, <2>1
    <3> QED
      BY <3>1, <3>2, <3>3
  <2>2. CASE i \in 1 .. n
    <3> DEFINE g == grants[a][i]
               q == P(i)
    <3>1. /\ g \in Nat /\ g <= now /\ v + q <= Capacity + (now - g) /\ q \in Int
          /\ Left(a, i)' = Capacity + (now - g) - (q + Cost)
          /\ v \in Nat /\ now \in Nat /\ Capacity \in Nat /\ Cost \in Nat
      BY <1>1, <1>4, <1>6, <1>7, <2>2, CapacityFits
    <3> HIDE DEF g, q
    <3>2. v - Cost <= Capacity + (now - g) - (q + Cost)
      BY <3>1
    <3>3. grants'[a][i] = g
      BY <1>2, <2>2 DEF g
    <3> QED
      BY <1>2, <3>1, <3>2, <3>3
  <2> QED
    BY <1>1, <2>1, <2>2
<1>11. \/ limiters'[a].level = Capacity
       \/ \E i \in 1 .. (n + 1) : limiters'[a].level = Left(a, i)'
  <2>1. CASE v = Capacity
    <3>1. n + 1 \in 1 .. (n + 1)
      BY <1>1
    <3>2. limiters'[a].level = Left(a, n + 1)'
      BY <1>2, <1>8, <2>1
    <3> QED
      BY <3>1, <3>2
  <2>2. CASE \E i \in 1 .. n : v = Capacity + (now - grants[a][i]) - P(i)
    <3>1. PICK i \in 1 .. n : v = Capacity + (now - grants[a][i]) - P(i)
      BY <2>2
    <3> DEFINE g == grants[a][i]
               q == P(i)
    <3>2. /\ g \in Nat /\ v = Capacity + (now - g) - q /\ q \in Int
          /\ Left(a, i)' = Capacity + (now - g) - (q + Cost)
          /\ now \in Nat /\ Capacity \in Nat /\ Cost \in Nat
      BY <1>1, <1>4, <1>6, <1>7, <3>1, CapacityFits
    <3> HIDE DEF g, q
    <3>3. v - Cost = Capacity + (now - g) - (q + Cost)
      BY <3>2
    <3>4. i \in 1 .. (n + 1)
      BY <1>1
    <3> QED
      BY <1>2, <3>2, <3>3, <3>4
  <2> QED
    BY <1>9, <2>1, <2>2
<1>12. ASSUME NEW i \in 1 .. (n + 1), NEW k \in 1 .. (n + 1), i <= k
       PROVE  (k - i + 1) * Cost <= Capacity + (grants'[a][k] - grants'[a][i])
  <2>1. CASE k \in 1 .. n
    <3>1. i \in 1 .. n /\ grants'[a][i] = grants[a][i] /\ grants'[a][k] = grants[a][k]
      BY <1>1, <1>2, <1>12, <2>1
    <3> QED
      BY <1>1, <1>12, <2>1, <3>1 DEF LimiterInv, RateBound
  <2>2. CASE k = n + 1 /\ i \in 1 .. n
    <3> DEFINE g == grants[a][i]
               q == P(i)
    <3>0. i \in 1 .. n
      BY <2>2
    <3>1. /\ g \in Nat /\ v + q <= Capacity + (now - g) /\ q \in Int /\ Cost <= v
          /\ v \in Nat /\ now \in Nat /\ Capacity \in Nat /\ Cost \in Nat
      BY <1>1, <1>4, <1>6, <1>13, <3>0, CapacityFits
    <3>2. ((n + 1) - i + 1) * Cost = q + Cost
      BY <1>4, <2>2
    <3>3. grants'[a][i] = g /\ grants'[a][k] = now
      BY <1>2, <2>2 DEF g
    <3> HIDE DEF g, q
    <3>4. q + Cost <= Capacity + (now - g)
      BY <3>1
    <3> QED
      BY <2>2, <3>2, <3>3, <3>4
  <2>3. CASE k = n + 1 /\ i = n + 1
    <3>1. now - now = 0 /\ Capacity + 0 = Capacity /\ Cost <= Capacity
      BY <1>1, CapacityFits
    <3>2. k - i + 1 = 1
      BY <1>5, <2>3
    <3>3. grants'[a][k] = now /\ grants'[a][i] = now
      BY <1>2, <2>3
    <3>4. (k - i + 1) * Cost = Cost
      BY <1>5, <3>2
    <3> QED
      BY <3>1, <3>3, <3>4
  <2> QED
    BY <1>1, <2>1, <2>2, <2>3
<1> QED
  BY <1>1, <1>2, <1>3, <1>10, <1>11, <1>12
-----------------------------------------------------------------------------

\* ... and so the whole of it, which time alone, or a refusal, leaves as it is.
LEMMA AllowKeeps ==
  ASSUME LimiterInv, NEW a \in Address, Allow(a)
  PROVE  LimiterInv'
<1>1. LimiterTypeOK' /\ now' = now /\ a \in DOMAIN limiters'
  BY AllowEffect
<1>2. DOMAIN limiters' \subseteq Address
  BY <1>1 DEF LimiterTypeOK
<1>3. \A b \in Address \ {a} :
         /\ grants'[b] = grants[b]
         /\ b \in DOMAIN limiters' <=> b \in DOMAIN limiters
         /\ b \in DOMAIN limiters => limiters'[b] = limiters[b]
  BY AllowEffect
<1>4. BucketIsSound'
  <2> SUFFICES ASSUME NEW b \in DOMAIN limiters'
               PROVE  /\ limiters'[b].last <= now'
                      /\ \A i \in DOMAIN grants'[b] :
                            /\ grants'[b][i] <= limiters'[b].last
                            /\ limiters'[b].level <= Left(b, i)'
    BY DEF BucketIsSound
  <2>1. CASE b = a
    BY <2>1, GrantKeeps
  <2>2. CASE b # a
    BY <1>1, <1>2, <1>3, <2>2, OthersKeep
  <2> QED
    BY <2>1, <2>2
<1>5. BucketIsTight'
  <2> SUFFICES ASSUME NEW b \in DOMAIN limiters'
               PROVE  \/ limiters'[b].level = Capacity
                      \/ \E i \in DOMAIN grants'[b] : limiters'[b].level = Left(b, i)'
    BY DEF BucketIsTight, Capacity
  <2>1. CASE b = a
    BY <2>1, GrantKeeps
  <2>2. CASE b # a
    BY <1>1, <1>2, <1>3, <2>2, OthersKeep
  <2> QED
    BY <2>1, <2>2
<1>6. NoLimiterNoGrant'
  BY <1>1, <1>3 DEF LimiterInv, NoLimiterNoGrant
<1>7. RateBound'
  <2> SUFFICES ASSUME NEW b \in Address, NEW i \in DOMAIN grants'[b], NEW k \in DOMAIN grants'[b],
                      i <= k
               PROVE  (k - i + 1) * Cost <= Capacity + (grants'[b][k] - grants'[b][i])
    BY DEF RateBound, Capacity
  <2>1. CASE b = a
    BY <2>1, GrantKeeps
  <2>2. CASE b # a
    BY <1>1, <1>3, <2>2, OthersKeep
  <2> QED
    BY <2>1, <2>2
<1> QED
  BY <1>1, <1>4, <1>5, <1>6, <1>7 DEF LimiterInv

LEMMA UnchangedKeeps ==
  ASSUME LimiterInv, now' \in 0 .. MaxTime, now <= now', UNCHANGED <<limiters, grants>>
  PROVE  LimiterInv'
<1>1. LimiterTypeOK'
  BY DEF LimiterInv, LimiterTypeOK, Limiter, Capacity
<1>2. \A a, i : Left(a, i)' = Left(a, i)
  BY DEF Left, Capacity
<1>3. \A a \in DOMAIN limiters : limiters[a].last \in Int
  BY LimiterAssumption DEF LimiterInv, LimiterTypeOK, Limiter
<1>4. now \in Int /\ now' \in Int
  BY DEF LimiterInv, LimiterTypeOK
<1>5. BucketIsSound'
  BY <1>2, <1>3, <1>4 DEF LimiterInv, BucketIsSound
<1>6. BucketIsTight'
  BY <1>2 DEF LimiterInv, BucketIsTight, Capacity
<1> QED
  BY <1>1, <1>5, <1>6 DEF LimiterInv, NoLimiterNoGrant, RateBound, Capacity

LEMMA LimiterKeeps ==
  ASSUME LimiterInv, Tick \/ (\E a \in Address : Allow(a) \/ Deny(a)) \/ UNCHANGED limiterVars
  PROVE  LimiterInv'
<1>0. now \in Nat /\ now \in 0 .. MaxTime /\ MaxTime \in Nat
  BY LimiterAssumption DEF LimiterInv, LimiterTypeOK
<1>1. CASE Tick
  BY <1>0, <1>1, UnchangedKeeps DEF Tick
<1>2. CASE \E a \in Address : Allow(a)
  BY <1>2, AllowKeeps
<1>3. CASE \E a \in Address : Deny(a)
  BY <1>0, <1>3, DenyChangesNothing, UnchangedKeeps
<1>4. CASE UNCHANGED limiterVars
  BY <1>0, <1>4, UnchangedKeeps DEF limiterVars
<1> QED
  BY <1>1, <1>2, <1>3, <1>4

\* A request is refused only when one more would break the bound.
LEMMA RefusedIsOneTooMany ==
  ASSUME LimiterInv, NEW a \in Address, Deny(a)
  PROVE  OneTooMany(a)
<1>1. /\ Level(GetLimiter(a)) \in 0 .. Capacity /\ Level(GetLimiter(a)) < Cost
      /\ now \in Nat /\ grants[a] \in Seq(0 .. MaxTime)
  BY LevelFits, LimiterAssumption, CapacityFits
     DEF LimiterInv, LimiterTypeOK, Deny, HasToken
<1>2. Level(GetLimiter(a)) # Capacity
  BY <1>1, CapacityFits
<1>3. PICK i \in DOMAIN grants[a] :
         Level(GetLimiter(a)) = Capacity + (now - grants[a][i])
                                   - (Len(grants[a]) - i + 1) * Cost
  BY <1>2, RefilledIsTight
<1>4. i \in Nat /\ Len(grants[a]) \in Nat /\ grants[a][i] \in Nat
  BY <1>1, LimiterAssumption
<1> DEFINE m == Len(grants[a]) - i + 1
<1>5. m \in Int /\ Len(grants[a]) - i + 2 = m + 1
  BY <1>4
<1>6. m * Cost \in Int /\ (m + 1) * Cost = m * Cost + Cost
  BY <1>5, TimesCost
<1>7. m * Cost = Capacity + (now - grants[a][i]) - Level(GetLimiter(a))
  BY <1>1, <1>3, <1>4, <1>6, CapacityFits
<1> HIDE DEF m
<1>8. (m + 1) * Cost > Capacity + (now - grants[a][i])
  BY <1>1, <1>4, <1>6, <1>7, CapacityFits
<1> QED
  BY <1>5, <1>8 DEF OneTooMany

-----------------------------------------------------------------------------
(***************************************************************************)
(* The queue                                                                *)
(***************************************************************************)

\* A job is in one place, and once in the queue.
Ordered ==
    /\ queue \in Seq(Job)
    /\ waiting \cap Queued = {} /\ waiting \cap running = {} /\ Queued \cap running = {}
    /\ \A i, k \in DOMAIN queue : queue[i] = queue[k] => i = k

LEMMA RequestEffect ==
  ASSUME Ordered, NEW j \in Job, Request(j)
  PROVE  /\ Ordered' /\ Queued' = Queued /\ running' = running
         /\ waiting' = waiting \cup {j} /\ JobsAsked' = JobsAsked \cup {j}
BY DEF Ordered, Request, Queued, JobsAsked

LEMMA EnqueueEffect ==
  ASSUME Ordered, NEW j \in Job, Enqueue(j)
  PROVE  /\ Ordered' /\ Queued' = Queued \cup {j} /\ running' = running
         /\ waiting' = waiting \ {j} /\ JobsAsked' = JobsAsked
<1>1. queue' = Append(queue, j) /\ queue \in Seq(Job) /\ j \notin Queued /\ j \in waiting
  BY DEF Ordered, Enqueue
<1>2. DOMAIN queue = 1 .. Len(queue) /\ Len(queue) \in Nat
  BY <1>1
<1>3. DOMAIN queue' = 1 .. (Len(queue) + 1) /\ queue' \in Seq(Job)
  BY <1>1
<1>4. \A i \in DOMAIN queue' : queue'[i] = IF i = Len(queue) + 1 THEN j ELSE queue[i]
  BY <1>1, <1>2, <1>3
<1>5. Queued' = Queued \cup {j}
  BY <1>2, <1>3, <1>4 DEF Queued
<1>6. \A i, k \in DOMAIN queue' : queue'[i] = queue'[k] => i = k
  BY <1>1, <1>2, <1>3, <1>4 DEF Ordered, Queued
<1> QED
  BY <1>1, <1>3, <1>5, <1>6 DEF Ordered, Enqueue, JobsAsked

LEMMA StartEffect ==
  ASSUME Ordered, Start
  PROVE  /\ Ordered' /\ Queued' \subseteq Queued /\ Head(queue) \in Queued
         /\ running' = running \cup {Head(queue)}
         /\ waiting' = waiting /\ JobsAsked' = JobsAsked
<1>1. /\ queue \in Seq(Job) /\ queue # <<>> /\ queue' = Tail(queue)
      /\ running' = running \cup {Head(queue)} /\ UNCHANGED <<waiting, completed>>
  BY DEF Ordered, Start
<1>2. DOMAIN queue = 1 .. Len(queue) /\ Len(queue) \in Nat \ {0} /\ Head(queue) = queue[1]
  BY <1>1
<1>3. DOMAIN queue' = 1 .. (Len(queue) - 1) /\ queue' \in Seq(Job)
  BY <1>1, <1>2
<1>4. \A i \in DOMAIN queue' : i + 1 \in DOMAIN queue /\ queue'[i] = queue[i + 1]
  BY <1>1, <1>2, <1>3
<1>5. \A i \in DOMAIN queue : i = 1 \/ (i - 1 \in DOMAIN queue' /\ queue'[i - 1] = queue[i])
  BY <1>2, <1>3, <1>4
<1>6. Queued' \subseteq Queued /\ Head(queue) \in Queued
  BY <1>2, <1>4 DEF Queued
<1>7. Head(queue) \notin Queued'
  <2>1. \A i \in DOMAIN queue' : queue'[i] # queue[1]
    BY <1>2, <1>3, <1>4 DEF Ordered
  <2> QED
    BY <1>2, <2>1 DEF Queued
<1>8. Queued \subseteq Queued' \cup {Head(queue)}
  BY <1>2, <1>5 DEF Queued
<1>9. \A i, k \in DOMAIN queue' : queue'[i] = queue'[k] => i = k
  BY <1>2, <1>3, <1>4 DEF Ordered
<1>10. Ordered'
  BY <1>1, <1>3, <1>6, <1>7, <1>9 DEF Ordered
<1> QED
  BY <1>1, <1>6, <1>8, <1>10 DEF JobsAsked

LEMMA CompleteEffect ==
  ASSUME Ordered, NEW j \in Job, Complete(j)
  PROVE  /\ Ordered' /\ Queued' = Queued /\ running' = running \ {j}
         /\ waiting' = waiting /\ JobsAsked' = JobsAsked
         /\ j \notin waiting \cup Queued
BY DEF Ordered, Complete, Queued, JobsAsked

LEMMA QueueUnchanged ==
  ASSUME Ordered, UNCHANGED queueVars
  PROVE  /\ Ordered' /\ Queued' = Queued /\ running' = running
         /\ waiting' = waiting /\ JobsAsked' = JobsAsked
BY DEF Ordered, queueVars, Queued, JobsAsked

-----------------------------------------------------------------------------
(***************************************************************************)
(* Responses                                                                *)
(***************************************************************************)

\* The responses by which a request is turned away.
Refusals == {<<401, 401, 401>>, <<429, 429>>, <<400>>}

\* Every other response, with what an ingestion wrote before.
Others == {<<>>, <<500>>, <<500, 400>>, <<500, 500>>, <<202>>, <<500, 202>>,
           <<200>>, <<404, 200>>, <<404>>}

LEMMA Concat ==
  /\ \A s \in Seq(Code) : <<>> \o s = s
  /\ \A x, y \in Code : <<x>> \o <<y>> = <<x, y>>
<1> SUFFICES ASSUME NEW x \in Code, NEW y \in Code PROVE <<x>> \o <<y>> = <<x, y>>
  OBVIOUS
<1>1. <<x>> \o <<y>> \in Seq(Code) /\ <<x, y>> \in Seq(Code)
  OBVIOUS
<1>2. Len(<<x>> \o <<y>>) = 2 /\ Len(<<x, y>>) = 2
  OBVIOUS
<1>3. (<<x>> \o <<y>>)[1] = x /\ (<<x>> \o <<y>>)[2] = y
  OBVIOUS
<1>4. \A i \in 1 .. 2 : i = 1 \/ i = 2
  OBVIOUS
<1>5. \A i \in 1 .. 2 : (<<x>> \o <<y>>)[i] = <<x, y>>[i]
  BY <1>3, <1>4
<1> QED
  BY <1>1, <1>2, <1>5, SeqEqual

LEMMA RefusalsByHead ==
  ASSUME NEW s \in Refusals \cup Others, s # <<>>, Head(s) \in {400, 401, 429}
  PROVE  s \in Refusals
BY DEF Refusals, Others

LEMMA OthersAreNoRefusals == Others \cap Refusals = {}
BY DEF Refusals, Others

LEMMA AcceptingResponses ==
  ASSUME NEW s \in Refusals \cup Others, 202 \in {s[i] : i \in DOMAIN s}
  PROVE  s \in {<<202>>, <<500, 202>>}
BY DEF Refusals, Others

LEMMA ResponsesTyped == Refusals \cup Others \subseteq Seq(Code)
BY DEF Refusals, Others, Code

\* What the handlers append.
LEMMA WrittenFirst ==
  /\ <<>> \o <<>> = <<>>
  /\ <<>> \o <<401, 401, 401>> = <<401, 401, 401>>
  /\ <<>> \o <<429, 429>> = <<429, 429>>
  /\ <<>> \o <<404, 200>> = <<404, 200>>
  /\ \A c \in Code : <<>> \o <<c>> = <<c>>
BY Concat DEF Code
-----------------------------------------------------------------------------
(***************************************************************************)
(* What is true of a request at each phase                                  *)
(***************************************************************************)

Has(r) == r \in Work \cup records

Trace(r) ==
    /\ phase[r] = "authenticate" => r \notin authentic
    /\ phase[r] \in {"limit", "handle", "form", "store", "push"} => r \in authentic
    /\ phase[r] \in {"authenticate", "limit", "handle"} => written[r] = <<>>
    /\ phase[r] \in {"form", "store", "push"} => written[r] \in {<<>>, <<500>>}
    /\ phase[r] \in {"form", "store"} => r \in IngestRequest
    /\ phase[r] = "push" => r \in JobsAsked
    /\ phase[r] = "done" =>
          /\ written[r] \in Refusals \cup Others
          /\ written[r] = <<>> => r \in gone
          /\ written[r] # <<401, 401, 401>> => r \in authentic
          /\ (r \in Job /\ written[r] \in {<<202>>, <<500, 202>>}) => r \in JobsAsked
    /\ r \in waiting => phase[r] = "push"
    /\ Has(r) =>
          /\ phase[r] \in {"push", "done"}
          /\ r \in authentic
          /\ written[r] \notin Refusals

Traced == \A r \in HttpRequest : Trace(r)

HttpInv ==
    HttpTypeOK /\ LimiterInv /\ Ordered /\ Traced /\ FileReady

\* A request on which nothing has changed keeps its trace.
LEMMA SameTrace ==
  ASSUME NEW r, Trace(r), phase'[r] = phase[r], written'[r] = written[r],
         r \in authentic' <=> r \in authentic, r \in gone => r \in gone',
         r \in waiting' => r \in waiting, r \in JobsAsked' <=> r \in JobsAsked,
         r \in files' => r \in files, r \in toolLoops' => r \in toolLoops,
         r \in records' => (r \in records \/ r \in JobsAsked)
  PROVE  Trace(r)'
BY DEF Trace, Has, Work

\* The jobs that were asked for are jobs.
LEMMA AskedAreJobs ==
  ASSUME HttpTypeOK
  PROVE  JobsAsked \subseteq Job /\ Queued \subseteq Job
<1>1. \A i \in DOMAIN queue : queue[i] \in Job
  BY DEF HttpTypeOK
<1> QED
  BY <1>1 DEF HttpTypeOK, JobsAsked, Queued

LEMMA HttpInitially == HttpInit => HttpInv
<1> SUFFICES ASSUME HttpInit PROVE HttpInv
  OBVIOUS
<1>1. LimiterInv
  BY LimiterInitially DEF HttpInit
<1>2. queue = <<>> /\ waiting = {} /\ running = {} /\ completed = {} /\ Queued = {}
  BY DEF HttpInit, Init, Queued
<1>3. /\ phase = [r \in HttpRequest |-> "authenticate"] /\ written = [r \in HttpRequest |-> <<>>]
      /\ authentic = {} /\ gone = {} /\ files = {} /\ extracted = {} /\ records = {}
      /\ toolLoops = {}
  BY DEF HttpInit
<1>4. Ordered
  BY <1>2 DEF Ordered
<1>5. HttpTypeOK
  <2>1. queue \in Seq(Job) /\ Len(queue) <= BufferLimit
    <3>1. <<>> \in Seq(Job) /\ Len(<<>>) = 0
      OBVIOUS
    <3> QED
      BY <1>2, <3>1, QueueAssumption
  <2>2. phase \in [HttpRequest -> Phase]
    BY <1>3 DEF Phase
  <2>3. written \in [HttpRequest -> Seq(Code)]
    BY <1>3
  <2> QED
    BY <1>1, <1>2, <1>3, <2>1, <2>2, <2>3 DEF HttpTypeOK, LimiterInv
<1>6. Traced
  BY <1>2, <1>3 DEF Traced, Trace, Has, Work, JobsAsked
<1>7. FileReady
  BY <1>2 DEF FileReady
<1> QED
  BY <1>1, <1>4, <1>5, <1>6, <1>7 DEF HttpInv

-----------------------------------------------------------------------------
(***************************************************************************)
(* Steps that move one request                                              *)
(***************************************************************************)

\* What the variables of the other requests do, in a step of r.
OnlyMoves(r) ==
    /\ phase' \in [HttpRequest -> Phase] /\ written' \in [HttpRequest -> Seq(Code)]
    /\ authentic' \subseteq HttpRequest /\ gone' \subseteq HttpRequest
    /\ \A q \in HttpRequest \ {r} :
          /\ phase'[q] = phase[q] /\ written'[q] = written[q]
          /\ q \in authentic' <=> q \in authentic
          /\ q \in gone => q \in gone'

LEMMA MoveEffect ==
  ASSUME HttpTypeOK, NEW r \in HttpRequest, NEW from, NEW to \in Phase, Move(r, from, to)
  PROVE  /\ phase[r] = from /\ phase'[r] = to /\ phase' \in [HttpRequest -> Phase]
         /\ \A q \in HttpRequest \ {r} : phase'[q] = phase[q]
BY DEF HttpTypeOK, Move

LEMMA WriteEffect ==
  ASSUME HttpTypeOK, NEW r \in HttpRequest, NEW codes \in Seq(Code), Write(r, codes)
  PROVE  /\ written'[r] = written[r] \o codes /\ written' \in [HttpRequest -> Seq(Code)]
         /\ \A q \in HttpRequest \ {r} : written'[q] = written[q]
<1>1. written[r] \o codes \in Seq(Code)
  BY DEF HttpTypeOK
<1> QED
  BY <1>1 DEF HttpTypeOK, Write

\* The others keep their trace.
LEMMA OthersTrace ==
  ASSUME HttpInv, NEW r \in HttpRequest, OnlyMoves(r),
         \A q \in HttpRequest \ {r} :
            /\ q \in waiting' => q \in waiting
            /\ q \in JobsAsked' <=> q \in JobsAsked
            /\ q \in files' => q \in files
            /\ q \in toolLoops' => q \in toolLoops
            /\ q \in records' => q \in records,
         Trace(r)'
  PROVE  Traced'
<1> SUFFICES ASSUME NEW q \in HttpRequest, q # r PROVE Trace(q)'
  BY DEF Traced
<1> QED
  BY SameTrace DEF HttpInv, Traced, OnlyMoves

\* A step that leaves the queue and what is on disk, in the store and in tool loops alone.
LEMMA PlainStep ==
  ASSUME HttpInv, NEW r \in HttpRequest, OnlyMoves(r), UNCHANGED <<queueVars, effectVars>>,
         LimiterInv', Trace(r)'
  PROVE  HttpInv'
<1>1. /\ Ordered' /\ Queued' = Queued /\ running' = running
      /\ waiting' = waiting /\ JobsAsked' = JobsAsked
  BY QueueUnchanged DEF HttpInv
<1>2. UNCHANGED <<files, extracted, records, toolLoops>>
  BY DEF effectVars
<1>3. Traced'
  BY <1>1, <1>2, OthersTrace
<1>4. FileReady'
  BY <1>1, <1>2 DEF HttpInv, FileReady
<1>5. HttpTypeOK'
  BY <1>1, <1>2 DEF HttpInv, HttpTypeOK, LimiterInv, OnlyMoves, queueVars
<1> QED
  BY <1>1, <1>3, <1>4, <1>5 DEF HttpInv
-----------------------------------------------------------------------------

\* A step of a handler has an effect on its own request only.
LEMMA AnswerEffect ==
  ASSUME HttpTypeOK, NEW r \in HttpRequest, NEW from, NEW codes \in Seq(Code),
         Answer(r, from, codes), UNCHANGED <<authentic, gone>>
  PROVE  /\ OnlyMoves(r) /\ phase[r] = from /\ phase'[r] = "done"
         /\ written'[r] = written[r] \o codes
BY MoveEffect, WriteEffect DEF Answer, OnlyMoves, Phase, HttpTypeOK

\* The first response of a request is all it has written ...
LEMMA AnswerFirst ==
  ASSUME HttpTypeOK, NEW r \in HttpRequest, Trace(r),
         NEW from \in {"authenticate", "limit", "handle"}, NEW codes \in Seq(Code),
         Answer(r, from, codes), UNCHANGED <<authentic, gone>>
  PROVE  /\ OnlyMoves(r) /\ phase[r] = from /\ phase'[r] = "done"
         /\ written'[r] = codes
<1>1. /\ OnlyMoves(r) /\ phase[r] = from /\ phase'[r] = "done"
      /\ written'[r] = written[r] \o codes
  BY AnswerEffect
<1>2. written[r] = <<>>
  BY <1>1 DEF Trace
<1> QED
  BY <1>1, <1>2, Concat

\* ... and an ingestion may have written a 500 before.
LEMMA AnswerSecond ==
  ASSUME HttpTypeOK, NEW r \in HttpRequest, Trace(r),
         NEW from \in {"form", "store", "push"}, NEW c \in {400, 500, 202},
         Answer(r, from, << c >>), UNCHANGED <<authentic, gone>>
  PROVE  /\ OnlyMoves(r) /\ phase[r] = from /\ phase'[r] = "done"
         /\ written'[r] \in {<<c>>, <<500, c>>}
<1>0. <<c>> \in Seq(Code)
  BY DEF Code
<1>1. /\ OnlyMoves(r) /\ phase[r] = from /\ phase'[r] = "done"
      /\ written'[r] = written[r] \o <<c>>
  <2>1. PICK codes \in Seq(Code) : codes = <<c>>
    BY <1>0
  <2>2. Answer(r, from, codes)
    BY <2>1
  <2>3. /\ OnlyMoves(r) /\ phase[r] = from /\ phase'[r] = "done"
        /\ written'[r] = written[r] \o codes
    BY <2>2, AnswerEffect
  <2> QED
    BY <2>1, <2>3
<1>2. written[r] \in {<<>>, <<500>>}
  BY <1>1 DEF Trace
<1>3. written[r] \o <<c>> \in {<<c>>, <<500, c>>}
  <2>1. <<>> \o <<c>> = <<c>>
    BY <1>0, Concat
  <2>2. << 500 >> \o <<c>> = <<500, c>>
    <3>1. 500 \in Code /\ c \in Code
      BY DEF Code
    <3> QED
      BY <3>1, Concat
  <2> QED
    BY <1>2, <2>1, <2>2
<1> QED
  BY <1>1, <1>3

LEMMA AdvanceEffect ==
  ASSUME HttpTypeOK, NEW r \in HttpRequest, NEW from, NEW to \in Phase,
         Move(r, from, to), UNCHANGED <<written, authentic, gone>>
  PROVE  /\ OnlyMoves(r) /\ phase[r] = from /\ phase'[r] = to /\ written'[r] = written[r]
BY MoveEffect DEF OnlyMoves, HttpTypeOK

\* The codes that are written are codes.
LEMMA CodesTyped ==
  /\ <<>> \in Seq(Code) /\ <<401, 401, 401>> \in Seq(Code) /\ <<429, 429>> \in Seq(Code)
  /\ <<404, 200>> \in Seq(Code) /\ <<200>> \in Seq(Code) /\ <<202>> \in Seq(Code)
  /\ <<400>> \in Seq(Code) /\ <<404>> \in Seq(Code) /\ <<500>> \in Seq(Code)
BY DEF Code

LEMMA LimiterRests ==
  ASSUME HttpInv, UNCHANGED limiterVars
  PROVE  LimiterInv'
BY LimiterKeeps DEF HttpInv

\* The trace of r when nothing that it could have left behind has changed.
LEMMA MemberSame ==
  ASSUME HttpInv, UNCHANGED <<queueVars, effectVars>>
  PROVE  /\ JobsAsked' = JobsAsked /\ waiting' = waiting
         /\ \A r : Has(r)' <=> Has(r)
BY QueueUnchanged DEF HttpInv, Has, Work, effectVars

LEMMA DisconnectKeeps ==
  ASSUME HttpInv, NEW r \in HttpRequest, Disconnect(r)
  PROVE  HttpInv'
<1>1. HttpTypeOK /\ Trace(r)
  BY DEF HttpInv, Traced
<1>2. UNCHANGED <<queueVars, effectVars>> /\ LimiterInv' /\ UNCHANGED <<phase, authentic, written>>
  BY LimiterRests DEF Disconnect
<1>3. OnlyMoves(r) /\ gone' = gone \cup {r}
  BY <1>1, <1>2 DEF Disconnect, OnlyMoves, HttpTypeOK
<1>4. Trace(r)'
  BY <1>1, <1>2, <1>3, MemberSame DEF Trace
<1> QED
  BY <1>2, <1>3, <1>4, PlainStep

LEMMA AuthenticateKeeps ==
  ASSUME HttpInv, NEW r \in HttpRequest, Authenticate(r)
  PROVE  HttpInv'
<1>1. HttpTypeOK /\ Trace(r)
  BY DEF HttpInv, Traced
<1>2. UNCHANGED <<queueVars, effectVars>> /\ LimiterInv' /\ UNCHANGED gone
  BY LimiterRests DEF Authenticate
<1>3. CASE RefuseToken(r) /\ UNCHANGED authentic
  <2>1. /\ OnlyMoves(r) /\ phase[r] = "authenticate" /\ phase'[r] = "done"
        /\ written'[r] = <<401, 401, 401>>
    <3>0. PICK codes \in Seq(Code) : codes = <<401, 401, 401>>
      BY CodesTyped
    <3>1. HttpTypeOK /\ Trace(r)
      BY <1>1
    <3>2. Answer(r, "authenticate", codes) /\ UNCHANGED <<authentic, gone>>
      BY <3>0, <1>2, <1>3 DEF RefuseToken
    <3>3. OnlyMoves(r) /\ phase[r] = "authenticate" /\ phase'[r] = "done" /\ written'[r] = codes
      BY <3>1, <3>2, AnswerFirst
    <3> QED
      BY <3>0, <3>3
  <2>2. written'[r] = <<401, 401, 401>>
    BY <2>1
  <2>3. written'[r] \in Refusals /\ written'[r] # <<>> /\ written'[r] \notin {<< 202 >>, <<500, 202>>}
    BY <2>2 DEF Refusals
  <2>4. ~Has(r)'
    BY <1>1, <1>2, <2>1, MemberSame DEF Trace
  <2>5. Trace(r)'
    BY <1>1, <1>2, <1>3, <2>1, <2>2, <2>3, <2>4, MemberSame DEF Trace
  <2> QED
    BY <1>2, <2>1, <2>5, PlainStep
<1>4. CASE Move(r, "authenticate", "limit") /\ authentic' = authentic \cup {r} /\ UNCHANGED written
  <2>1. /\ phase[r] = "authenticate" /\ phase'[r] = "limit"
        /\ phase' \in [HttpRequest -> Phase]
        /\ \A q \in HttpRequest \ {r} : phase'[q] = phase[q]
    BY <1>1, <1>4, MoveEffect DEF Phase
  <2>2. OnlyMoves(r)
    BY <1>1, <1>2, <1>4, <2>1 DEF OnlyMoves, HttpTypeOK
  <2>3. Trace(r)'
    BY <1>1, <1>2, <1>4, <2>1, MemberSame DEF Trace
  <2> QED
    BY <1>2, <2>2, <2>3, PlainStep
<1> QED
  BY <1>3, <1>4 DEF Authenticate

LEMMA LimitRateKeeps ==
  ASSUME HttpInv, NEW r \in HttpRequest, LimitRate(r)
  PROVE  HttpInv'
<1>1. HttpTypeOK /\ Trace(r) /\ LimiterInv /\ origin[r] \in Address
  BY RequestAssumption DEF HttpInv, Traced
<1>2. UNCHANGED <<queueVars, effectVars>> /\ LimiterInv' /\ UNCHANGED <<authentic, gone>>
  BY <1>1, LimiterKeeps DEF LimitRate
<1>3. CASE Move(r, "limit", "handle") /\ UNCHANGED written
  <2>1. /\ OnlyMoves(r) /\ phase[r] = "limit" /\ phase'[r] = "handle"
        /\ written'[r] = written[r]
    BY <1>1, <1>2, <1>3, AdvanceEffect DEF Phase
  <2>2. Trace(r)'
    BY <1>1, <1>2, <2>1, MemberSame DEF Trace
  <2> QED
    BY <1>2, <2>1, <2>2, PlainStep
<1>4. CASE RefuseLimited(r)
  <2>1. /\ OnlyMoves(r) /\ phase[r] = "limit" /\ phase'[r] = "done"
        /\ written'[r] = <<429, 429>>
    <3>0. PICK codes \in Seq(Code) : codes = <<429, 429>>
      BY CodesTyped
    <3>1. HttpTypeOK /\ Trace(r)
      BY <1>1
    <3>2. Answer(r, "limit", codes) /\ UNCHANGED <<authentic, gone>>
      BY <3>0, <1>2, <1>4 DEF RefuseLimited
    <3>3. OnlyMoves(r) /\ phase[r] = "limit" /\ phase'[r] = "done" /\ written'[r] = codes
      BY <3>1, <3>2, AnswerFirst
    <3> QED
      BY <3>0, <3>3
  <2>2. written'[r] = <<429, 429>>
    BY <2>1
  <2>3. written'[r] \in Refusals /\ written'[r] # <<>> /\ written'[r] \notin {<< 202 >>, <<500, 202>>}
    BY <2>2 DEF Refusals
  <2>4. ~Has(r)'
    BY <1>1, <1>2, <2>1, MemberSame DEF Trace
  <2>5. Trace(r)'
    BY <1>1, <1>2, <2>1, <2>3, <2>4, MemberSame DEF Trace
  <2> QED
    BY <1>2, <2>1, <2>5, PlainStep
<1> QED
  BY <1>3, <1>4 DEF LimitRate

\* A handler that ends with a response of its own, and has left nothing else.
LEMMA AnswerKeeps ==
  ASSUME HttpInv, NEW r \in HttpRequest, OnlyMoves(r), UNCHANGED <<queueVars, effectVars>>,
         UNCHANGED limiterVars, UNCHANGED <<authentic, gone>>,
         phase[r] \in {"handle", "form", "store"}, phase'[r] = "done",
         written'[r] \in Refusals \cup Others, written'[r] = <<>> => r \in gone,
         written'[r] \notin {<< 202 >>, <<500, 202>>}
  PROVE  HttpInv'
<1>1. Trace(r) /\ LimiterInv'
  BY LimiterRests DEF HttpInv, Traced
<1>2. ~Has(r)' /\ r \notin waiting' /\ r \in authentic'
  BY <1>1, MemberSame DEF Trace
<1>3. Trace(r)'
  BY <1>2 DEF Trace
<1> QED
  BY <1>1, <1>3, PlainStep
-----------------------------------------------------------------------------

LEMMA LeaveGoneKeeps ==
  ASSUME HttpInv, NEW r \in HttpRequest, LeaveGone(r)
  PROVE  HttpInv'
<1>1. HttpTypeOK /\ Trace(r)
  BY DEF HttpInv, Traced
<1>2. /\ OnlyMoves(r) /\ phase[r] = "handle" /\ phase'[r] = "done"
      /\ written'[r] = <<>>
  <2>0. PICK codes \in Seq(Code) : codes = <<>>
    BY CodesTyped
  <2>1. HttpTypeOK /\ Trace(r)
    BY <1>1
  <2>2. Answer(r, "handle", codes) /\ UNCHANGED <<authentic, gone>>
    BY <2>0 DEF LeaveGone
  <2>3. OnlyMoves(r) /\ phase[r] = "handle" /\ phase'[r] = "done" /\ written'[r] = codes
    BY <2>1, <2>2, AnswerFirst
  <2> QED
    BY <2>0, <2>3
<1>3. written'[r] = <<>>
  BY <1>2
<1>4. written'[r] \in Refusals \cup Others /\ written'[r] \notin {<< 202 >>, <<500, 202>>}
  BY <1>3 DEF Others
<1> QED
  BY <1>2, <1>3, <1>4, AnswerKeeps DEF LeaveGone, ContextLives

\* A handler enters CreateJob: the job is asked for, and its document, if any, is on disk.
LEMMA RequestKeeps ==
  ASSUME HttpInv, NEW r \in Job, Request(r), phase[r] \in {"handle", "store"},
         Move(r, phase[r], "push"), UNCHANGED limiterVars,
         UNCHANGED <<written, authentic, gone, extracted, records, toolLoops>>,
         files' = files \/ (files' = files \cup {r} /\ r \in IngestRequest),
         r \in IngestRequest => r \in files'
  PROVE  HttpInv'
<1>1. HttpTypeOK /\ Trace(r) /\ r \in HttpRequest /\ LimiterInv'
  BY LimiterRests DEF HttpInv, Traced, HttpRequest
<1>2. /\ OnlyMoves(r) /\ phase'[r] = "push"
  BY <1>1, AdvanceEffect DEF Phase
<1>3. /\ Ordered' /\ Queued' = Queued /\ running' = running
      /\ waiting' = waiting \cup {r} /\ JobsAsked' = JobsAsked \cup {r}
  BY RequestEffect DEF HttpInv
<1>4. Trace(r)'
  <2>1. r \in authentic' /\ r \in JobsAsked'
    BY <1>1, <1>3 DEF Trace
  <2>2. written'[r] \in {<<>>, <<500>>}
    BY <1>1 DEF Trace
  <2>3. written'[r] \notin Refusals
    BY <2>2, OthersAreNoRefusals DEF Others
  <2> QED
    BY <1>2, <2>1, <2>2, <2>3 DEF Trace
<1>5. Traced'
  BY <1>1, <1>2, <1>3, <1>4, OthersTrace
<1>6. FileReady'
  BY <1>3 DEF HttpInv, FileReady
<1>7. files' \subseteq IngestRequest \/ r \notin IngestRequest
  BY <1>1 DEF HttpTypeOK
<1>8. HttpTypeOK'
  <2>1. waiting' \subseteq Job /\ queue' = queue /\ running' = running /\ completed' = completed
    BY <1>1 DEF HttpTypeOK, Request
  <2>2. files' \subseteq IngestRequest
    BY <1>1 DEF HttpTypeOK
  <2> QED
    BY <1>1, <1>2, <2>1, <2>2 DEF HttpTypeOK, LimiterInv, OnlyMoves
<1> QED
  BY <1>1, <1>3, <1>5, <1>6, <1>8 DEF HttpInv

LEMMA ChatHandlerKeeps ==
  ASSUME HttpInv, NEW r \in HttpRequest, ChatHandler(r)
  PROVE  HttpInv'
<1>1. HttpTypeOK /\ Trace(r) /\ UNCHANGED <<limiterVars, authentic, gone, effectVars>>
  BY DEF HttpInv, Traced, ChatHandler
<1>2. CASE Answer(r, "handle", <<400>>) /\ UNCHANGED queueVars
  <2>1. /\ OnlyMoves(r) /\ phase[r] = "handle" /\ phase'[r] = "done"
        /\ written'[r] = <<400>>
    <3>1. HttpTypeOK /\ Trace(r) /\ <<400>> \in Seq(Code)
      BY <1>1, CodesTyped
    <3>2. Answer(r, "handle", <<400>>) /\ UNCHANGED <<authentic, gone>>
      BY <1>1, <1>2
    <3> QED
      BY <3>1, <3>2, AnswerFirst, Zenon
  <2>2. written'[r] = <<400>>
    BY <2>1
  <2>3. /\ written'[r] \in Refusals \cup Others /\ written'[r] # <<>>
        /\ written'[r] \notin {<< 202 >>, <<500, 202>>}
    BY <2>2 DEF Refusals
  <2> QED
    BY <1>1, <1>2, <2>1, <2>3, AnswerKeeps
<1>3. CASE Move(r, "handle", "push") /\ Request(r) /\ UNCHANGED written
  <2>1. r \in Job /\ r \notin IngestRequest /\ phase[r] = "handle"
    BY <1>3 DEF ChatHandler, Move
  <2>2. UNCHANGED <<files, extracted, records, toolLoops>>
    BY <1>1 DEF effectVars
  <2> QED
    BY <1>1, <1>3, <2>1, <2>2, RequestKeeps
<1> QED
  BY <1>2, <1>3 DEF ChatHandler

LEMMA PostIngestHandlerKeeps ==
  ASSUME HttpInv, NEW r \in HttpRequest, PostIngestHandler(r)
  PROVE  HttpInv'
<1>1. HttpTypeOK /\ Trace(r) /\ UNCHANGED <<queueVars, limiterVars, authentic, gone, effectVars>>
  BY DEF HttpInv, Traced, PostIngestHandler
<1>2. /\ phase[r] = "handle" /\ phase'[r] = "form" /\ phase' \in [HttpRequest -> Phase]
      /\ \A q \in HttpRequest \ {r} : phase'[q] = phase[q]
  BY <1>1, MoveEffect DEF PostIngestHandler, Phase
<1>3. /\ written' \in [HttpRequest -> Seq(Code)]
      /\ \A q \in HttpRequest \ {r} : written'[q] = written[q]
      /\ written'[r] \in {<<>>, <<500>>}
  <2>1. written[r] = <<>>
    BY <1>1, <1>2 DEF Trace
  <2>2. CASE UNCHANGED written
    BY <1>1, <2>1, <2>2 DEF HttpTypeOK
  <2>3. CASE Write(r, <<500>>)
    <3>1. HttpTypeOK /\ <<500>> \in Seq(Code) /\ <<>> \o <<500>> = <<500>>
      BY <1>1, CodesTyped, WrittenFirst DEF Code
    <3>2. /\ written'[r] = written[r] \o <<500>> /\ written' \in [HttpRequest -> Seq(Code)]
          /\ \A q \in HttpRequest \ {r} : written'[q] = written[q]
      BY <2>3, <3>1, WriteEffect, Zenon
    <3> QED
      BY <2>1, <3>1, <3>2
  <2> QED
    BY <2>2, <2>3 DEF PostIngestHandler
<1>4. OnlyMoves(r)
  BY <1>1, <1>2, <1>3 DEF OnlyMoves, HttpTypeOK
<1>5. ~Has(r)' /\ r \notin waiting' /\ r \in authentic'
  BY <1>1, <1>2, MemberSame DEF Trace
<1>6. Trace(r)'
  BY <1>2, <1>3, <1>5 DEF Trace, PostIngestHandler
<1> QED
  BY <1>1, <1>4, <1>6, PlainStep, LimiterRests

LEMMA ReadFormKeeps ==
  ASSUME HttpInv, NEW r \in HttpRequest, ReadForm(r)
  PROVE  HttpInv'
<1>1. HttpTypeOK /\ Trace(r) /\ UNCHANGED <<queueVars, limiterVars, authentic, gone, effectVars>>
  BY DEF HttpInv, Traced, ReadForm
<1>2. CASE RefuseForm(r)
  <2>1. /\ OnlyMoves(r) /\ phase[r] = "form" /\ phase'[r] = "done"
        /\ written'[r] \in {<<400>>, <<500, 400>>}
    <3>0. PICK c \in {400, 500, 202} : c = 400
      OBVIOUS
    <3>1. HttpTypeOK /\ Trace(r)
      BY <1>1
    <3>2. Answer(r, "form", << c >>) /\ UNCHANGED <<authentic, gone>>
      BY <3>0, <1>1, <1>2 DEF RefuseForm
    <3>3. /\ OnlyMoves(r) /\ phase[r] = "form" /\ phase'[r] = "done"
          /\ written'[r] \in {<<c>>, <<500, c>>}
      BY <3>1, <3>2, AnswerSecond
    <3> QED
      BY <3>0, <3>3
  <2>2. written'[r] \in {<<400>>, <<500, 400>>}
    BY <2>1
  <2>3. /\ written'[r] \in Refusals \cup Others /\ written'[r] # <<>>
        /\ written'[r] \notin {<< 202 >>, <<500, 202>>}
    BY <2>2 DEF Refusals, Others
  <2> QED
    BY <1>1, <2>1, <2>3, AnswerKeeps
<1>3. CASE Move(r, "form", "store") /\ UNCHANGED written
  <2>1. /\ OnlyMoves(r) /\ phase[r] = "form" /\ phase'[r] = "store" /\ written'[r] = written[r]
    BY <1>1, <1>3, AdvanceEffect DEF Phase
  <2>2. Trace(r)'
    BY <1>1, <2>1, MemberSame DEF Trace
  <2> QED
    BY <1>1, <2>1, <2>2, PlainStep, LimiterRests
<1> QED
  BY <1>2, <1>3 DEF ReadForm
-----------------------------------------------------------------------------

\* A handler ends and has left a file, or a record and a tool loop, of its own request.
LEMMA EffectKeeps ==
  ASSUME HttpInv, NEW r \in HttpRequest, OnlyMoves(r), UNCHANGED queueVars,
         UNCHANGED limiterVars, UNCHANGED <<authentic, gone>>,
         phase[r] \in {"handle", "store"}, phase'[r] = "done",
         written'[r] \in Others \ {<<>>},
         (r \in Job /\ written'[r] \in {<< 202 >>, <<500, 202>>}) => r \in JobsAsked,
         files' = files \/ (files' = files \cup {r} /\ r \in IngestRequest),
         UNCHANGED extracted,
         \/ UNCHANGED <<records, toolLoops>>
         \/ /\ records' = records \cup {r} /\ r \in McpRequest
            /\ toolLoops' \in {toolLoops, toolLoops \cup {r}}
  PROVE  HttpInv'
<1>1. Trace(r) /\ LimiterInv' /\ HttpTypeOK
  BY LimiterRests DEF HttpInv, Traced
<1>2. /\ Ordered' /\ Queued' = Queued /\ running' = running
      /\ waiting' = waiting /\ JobsAsked' = JobsAsked
  BY QueueUnchanged DEF HttpInv
<1>3. written'[r] \notin Refusals /\ written'[r] # <<>>
  BY OthersAreNoRefusals
<1>4. Trace(r)'
  BY <1>1, <1>2, <1>3 DEF Trace
<1>5. Traced'
  BY <1>2, <1>4, OthersTrace
<1>6. FileReady'
  BY <1>2 DEF HttpInv, FileReady
<1>7. HttpTypeOK'
  BY <1>1, <1>2 DEF HttpTypeOK, LimiterInv, OnlyMoves, queueVars
<1> QED
  BY <1>1, <1>2, <1>5, <1>6, <1>7 DEF HttpInv

LEMMA StoreFileKeeps ==
  ASSUME HttpInv, NEW r \in HttpRequest, StoreFile(r)
  PROVE  HttpInv'
<1>1. HttpTypeOK /\ Trace(r)
  BY DEF HttpInv, Traced
<1>2. /\ UNCHANGED limiterVars /\ UNCHANGED <<authentic, gone>>
      /\ UNCHANGED <<extracted, records, toolLoops>> /\ phase[r] = "store"
  BY DEF StoreFile, Answer, Move
<1>3. r \in IngestRequest /\ r \in Job
  BY <1>1, <1>2, RequestAssumption DEF Trace
<1>4. CASE Answer(r, "store", <<500>>) /\ files' \in {files, files \cup {r}} /\ UNCHANGED queueVars
  <2>1. /\ OnlyMoves(r) /\ phase'[r] = "done"
        /\ written'[r] \in {<<500>>, <<500, 500>>}
    <3>0. PICK c \in {400, 500, 202} : c = 500
      OBVIOUS
    <3>1. HttpTypeOK /\ Trace(r)
      BY <1>1
    <3>2. Answer(r, "store", << c >>) /\ UNCHANGED <<authentic, gone>>
      BY <3>0, <1>2, <1>4
    <3>3. /\ OnlyMoves(r) /\ phase[r] = "store" /\ phase'[r] = "done"
          /\ written'[r] \in {<<c>>, <<500, c>>}
      BY <3>1, <3>2, AnswerSecond
    <3> QED
      BY <3>0, <3>3
  <2>2. written'[r] \in {<<500>>, <<500, 500>>}
    BY <2>1
  <2>3. written'[r] \in Others \ {<<>>} /\ written'[r] \notin {<< 202 >>, <<500, 202>>}
    BY <2>2 DEF Others
  <2> QED
    BY <1>2, <1>3, <1>4, <2>1, <2>3, EffectKeeps
<1>5. CASE Move(r, "store", "push") /\ files' = files \cup {r} /\ Request(r) /\ UNCHANGED written
  BY <1>2, <1>3, <1>5, RequestKeeps
<1> QED
  BY <1>4, <1>5 DEF StoreFile

LEMMA PushKeeps ==
  ASSUME HttpInv, NEW r \in Job, Push(r)
  PROVE  HttpInv'
<1>1. HttpTypeOK /\ LimiterInv' /\ r \in HttpRequest /\ Enqueue(r)
  BY LimiterRests DEF HttpInv, Push, HttpRequest
<1>2. UNCHANGED <<phase, authentic, gone, written, files, extracted, records, toolLoops>>
  BY DEF Push, effectVars
<1>3. /\ Ordered' /\ Queued' = Queued \cup {r} /\ running' = running
      /\ waiting' = waiting \ {r} /\ JobsAsked' = JobsAsked /\ r \in waiting
  BY <1>1, EnqueueEffect DEF HttpInv, Enqueue
<1>4. Traced'
  BY <1>2, <1>3, SameTrace DEF HttpInv, Traced
<1>5. FileReady'
  BY <1>2, <1>3 DEF HttpInv, FileReady
<1>6. Len(queue') <= BufferLimit
  <2>1. queue \in Seq(Job) /\ Len(queue) < BufferLimit /\ queue' = Append(queue, r)
    BY <1>1 DEF Enqueue, HttpTypeOK
  <2>2. Len(queue') = Len(queue) + 1 /\ Len(queue) \in Nat
    BY <2>1
  <2> QED
    BY <2>1, <2>2, QueueAssumption
<1>7. HttpTypeOK'
  BY <1>1, <1>2, <1>3, <1>6 DEF HttpTypeOK, LimiterInv, Ordered, Enqueue
<1> QED
  BY <1>1, <1>3, <1>4, <1>5, <1>7 DEF HttpInv

LEMMA RespondKeeps ==
  ASSUME HttpInv, NEW r \in Job, Respond(r)
  PROVE  HttpInv'
<1>1. HttpTypeOK /\ Trace(r) /\ r \in HttpRequest
      /\ UNCHANGED <<queueVars, limiterVars, authentic, gone, effectVars>>
  BY DEF HttpInv, Traced, Respond, HttpRequest
<1>2. /\ OnlyMoves(r) /\ phase[r] = "push" /\ phase'[r] = "done"
      /\ written'[r] \in {<<202>>, <<500, 202>>}
  <2>0. PICK c \in {400, 500, 202} : c = 202
    OBVIOUS
  <2>1. HttpTypeOK /\ Trace(r) /\ r \in HttpRequest
    BY <1>1
  <2>2. Answer(r, "push", << c >>) /\ UNCHANGED <<authentic, gone>>
    BY <2>0, <1>1 DEF Respond
  <2>3. /\ OnlyMoves(r) /\ phase[r] = "push" /\ phase'[r] = "done"
        /\ written'[r] \in {<<c>>, <<500, c>>}
    BY <2>1, <2>2, AnswerSecond
  <2> QED
    BY <2>0, <2>3
<1>3. written'[r] \in {<<202>>, <<500, 202>>}
  BY <1>2
<1>4. written'[r] \in Others /\ written'[r] # <<>> /\ written'[r] \notin Refusals
  BY <1>3, OthersAreNoRefusals DEF Others
<1>5. r \in JobsAsked' /\ r \notin waiting' /\ r \in authentic'
  BY <1>1, <1>2, MemberSame DEF Trace, Respond
<1>6. Trace(r)'
  BY <1>2, <1>4, <1>5 DEF Trace
<1> QED
  BY <1>1, <1>2, <1>6, PlainStep, LimiterRests

LEMMA MCPHandlerKeeps ==
  ASSUME HttpInv, NEW r \in HttpRequest, MCPHandler(r)
  PROVE  HttpInv'
<1>1. /\ HttpTypeOK /\ Trace(r) /\ r \in McpRequest /\ r \notin Job
      /\ UNCHANGED <<queueVars, limiterVars, authentic, gone>>
  BY RequestAssumption DEF HttpInv, Traced, MCPHandler
<1>2. CASE Answer(r, "handle", <<400>>) /\ UNCHANGED effectVars
  <2>1. /\ OnlyMoves(r) /\ phase[r] = "handle" /\ phase'[r] = "done"
        /\ written'[r] = <<400>>
    <3>1. HttpTypeOK /\ Trace(r) /\ <<400>> \in Seq(Code)
      BY <1>1, CodesTyped
    <3>2. Answer(r, "handle", <<400>>) /\ UNCHANGED <<authentic, gone>>
      BY <1>1, <1>2
    <3> QED
      BY <3>1, <3>2, AnswerFirst, Zenon
  <2>2. written'[r] = <<400>>
    BY <2>1
  <2>3. /\ written'[r] \in Refusals \cup Others /\ written'[r] # <<>>
        /\ written'[r] \notin {<< 202 >>, <<500, 202>>}
    BY <2>2 DEF Refusals
  <2> QED
    BY <1>1, <1>2, <2>1, <2>3, AnswerKeeps
<1>3. CASE /\ Answer(r, "handle", <<202>>)
           /\ \/ UNCHANGED effectVars
              \/ /\ records' = records \cup {r}
                 /\ toolLoops' \in {toolLoops, toolLoops \cup {r}}
                 /\ UNCHANGED <<files, extracted>>
  <2>1. /\ OnlyMoves(r) /\ phase[r] = "handle" /\ phase'[r] = "done"
        /\ written'[r] = <<202>>
    <3>1. HttpTypeOK /\ Trace(r) /\ <<202>> \in Seq(Code)
      BY <1>1, CodesTyped
    <3>2. Answer(r, "handle", <<202>>) /\ UNCHANGED <<authentic, gone>>
      BY <1>1, <1>3
    <3> QED
      BY <3>1, <3>2, AnswerFirst, Zenon
  <2>2. written'[r] = <<202>>
    BY <2>1
  <2>3. written'[r] \in Others \ {<<>>}
    BY <2>2 DEF Others
  <2> QED
    BY <1>1, <1>3, <2>1, <2>3, EffectKeeps DEF effectVars
<1> QED
  BY <1>2, <1>3 DEF MCPHandler

LEMMA StatusHandlersKeep ==
  ASSUME HttpInv, NEW r \in HttpRequest, GetStatusHandler(r) \/ MCPStatusHandler(r)
  PROVE  HttpInv'
<1>1. /\ HttpTypeOK /\ Trace(r)
      /\ UNCHANGED <<queueVars, limiterVars, authentic, gone, effectVars>>
  BY DEF HttpInv, Traced, GetStatusHandler, MCPStatusHandler
<1>2. PICK codes \in {<<200>>, <<404>>, <<404, 200>>} : Answer(r, "handle", codes)
  BY DEF GetStatusHandler, MCPStatusHandler
<1>3. /\ OnlyMoves(r) /\ phase[r] = "handle" /\ phase'[r] = "done"
      /\ written'[r] = codes
  <2>1. HttpTypeOK /\ Trace(r)
    BY <1>1
  <2>3. codes \in Seq(Code)
    <3>1. CASE codes = <<200>>
      BY <3>1, CodesTyped
    <3>2. CASE codes = <<404>>
      BY <3>2, CodesTyped
    <3>3. CASE codes = <<404, 200>>
      BY <3>3, CodesTyped
    <3> QED
      BY <1>2, <3>1, <3>2, <3>3
  <2>2. Answer(r, "handle", codes) /\ UNCHANGED <<authentic, gone>>
    BY <1>1, <1>2
  <2> QED
    BY <2>1, <2>2, <2>3, AnswerFirst
<1>4. written'[r] = codes
  BY <1>3
<1>5. /\ written'[r] \in Refusals \cup Others /\ written'[r] # <<>>
      /\ written'[r] \notin {<< 202 >>, <<500, 202>>}
  BY <1>2, <1>4 DEF Others
<1> QED
  BY <1>1, <1>3, <1>5, AnswerKeeps

-----------------------------------------------------------------------------
(***************************************************************************)
(* The workers, and the whole                                               *)
(***************************************************************************)

LEMMA StartJobKeeps ==
  ASSUME HttpInv, StartJob
  PROVE  HttpInv'
<1>1. HttpTypeOK /\ LimiterInv'
      /\ UNCHANGED <<phase, authentic, gone, written, files, extracted, toolLoops>>
  BY LimiterRests DEF HttpInv, StartJob
<1>2. /\ Ordered' /\ Queued' \subseteq Queued /\ Head(queue) \in Queued
      /\ running' = running \cup {Head(queue)}
      /\ waiting' = waiting /\ JobsAsked' = JobsAsked
  BY StartEffect DEF HttpInv, StartJob
<1>3. Head(queue) \in Job /\ Head(queue) \in JobsAsked
  BY <1>1, <1>2, AskedAreJobs DEF JobsAsked
<1>4. records' \in {records, records \cup {Head(queue)}}
  BY DEF StartJob
<1>5. Traced'
  BY <1>1, <1>2, <1>3, <1>4, SameTrace DEF HttpInv, Traced
<1>6. FileReady'
  BY <1>1, <1>2 DEF HttpInv, FileReady
<1>7. Len(queue') <= BufferLimit /\ completed' = completed
  <2>1. /\ queue \in Seq(Job) /\ Len(queue) <= BufferLimit /\ queue # <<>>
        /\ queue' = Tail(queue) /\ completed' = completed
    BY <1>1 DEF StartJob, Start, HttpTypeOK
  <2>2. Len(queue') = Len(queue) - 1 /\ Len(queue) \in Nat
    BY <2>1
  <2> QED
    BY <2>1, <2>2, QueueAssumption
<1>8. HttpTypeOK'
  BY <1>1, <1>2, <1>3, <1>4, <1>7 DEF HttpTypeOK, LimiterInv, Ordered
<1> QED
  BY <1>1, <1>2, <1>5, <1>6, <1>8 DEF HttpInv

\* A document is removed when its job is running, and so neither waits nor is queued.
LEMMA DocumentKeeps ==
  ASSUME HttpInv, NEW j \in Job, ReadDocument(j) \/ RemoveDocument(j)
  PROVE  HttpInv'
<1>1. /\ HttpTypeOK /\ LimiterInv' /\ j \in running
      /\ UNCHANGED <<queueVars, phase, authentic, gone, written, records, toolLoops>>
  BY LimiterRests DEF HttpInv, ReadDocument, RemoveDocument
<1>2. /\ Ordered' /\ Queued' = Queued /\ running' = running /\ waiting' = waiting
      /\ JobsAsked' = JobsAsked /\ j \notin waiting \cup Queued
  BY <1>1, QueueUnchanged DEF HttpInv, Ordered
<1>3. \/ extracted' = extracted \cup {j} /\ files' = files /\ j \in IngestRequest
      \/ extracted' = extracted /\ files' = files \ {j} /\ j \in extracted
  BY DEF ReadDocument, RemoveDocument
<1>4. Traced'
  BY <1>1, <1>2, <1>3, SameTrace DEF HttpInv, Traced
<1>5. FileReady'
  BY <1>2, <1>3 DEF HttpInv, FileReady
<1>6. HttpTypeOK'
  BY <1>1, <1>3 DEF HttpTypeOK, LimiterInv, queueVars
<1> QED
  BY <1>1, <1>2, <1>4, <1>5, <1>6 DEF HttpInv

LEMMA EndJobKeeps ==
  ASSUME HttpInv, NEW j \in Job, EndJob(j)
  PROVE  HttpInv'
<1>1. HttpTypeOK /\ LimiterInv'
      /\ UNCHANGED <<phase, authentic, gone, written, files, toolLoops>>
      /\ extracted' = extracted \ {j}
  BY LimiterRests DEF HttpInv, EndJob
<1>2. /\ Ordered' /\ Queued' = Queued /\ running' = running \ {j}
      /\ waiting' = waiting /\ JobsAsked' = JobsAsked /\ j \notin waiting \cup Queued
      /\ j \in running
  BY CompleteEffect DEF HttpInv, EndJob, Complete
<1>3. j \in JobsAsked
  BY <1>2 DEF JobsAsked
<1>4. records' \in {records, records \cup {j}}
  BY DEF EndJob
<1>5. Traced'
  BY <1>1, <1>2, <1>3, <1>4, SameTrace DEF HttpInv, Traced
<1>6. FileReady'
  BY <1>1, <1>2 DEF HttpInv, FileReady
<1>7. queue' = queue /\ completed' = completed \cup {j}
  BY DEF EndJob, Complete
<1>8. HttpTypeOK'
  BY <1>1, <1>2, <1>4, <1>7 DEF HttpTypeOK, LimiterInv
<1> QED
  BY <1>1, <1>2, <1>5, <1>6, <1>8 DEF HttpInv
-----------------------------------------------------------------------------

LEMMA HttpStep == HttpInv /\ [HttpNext]_httpVars => HttpInv'
<1> SUFFICES ASSUME HttpInv, [HttpNext]_httpVars PROVE HttpInv'
  OBVIOUS
<1>1. CASE UNCHANGED httpVars
  <2>1. UNCHANGED <<queueVars, limiterVars, effectVars>> /\ UNCHANGED <<phase, authentic, gone, written>>
    BY <1>1 DEF httpVars
  <2>2. LimiterInv' /\ Ordered' /\ Queued' = Queued /\ JobsAsked' = JobsAsked
    BY <2>1, LimiterRests, QueueUnchanged DEF HttpInv
  <2>3. Traced'
    BY <2>1, <2>2, SameTrace DEF HttpInv, Traced, queueVars, effectVars
  <2>4. HttpTypeOK' /\ FileReady'
    BY <2>1, <2>2
       DEF HttpInv, HttpTypeOK, LimiterInv, FileReady, queueVars, effectVars
  <2> QED
    BY <2>2, <2>3, <2>4 DEF HttpInv
<1>2. ASSUME NEW r \in HttpRequest, Disconnect(r) \/ HandlerStep(r)
      PROVE  HttpInv'
  BY <1>2, DisconnectKeeps, AuthenticateKeeps, LimitRateKeeps, LeaveGoneKeeps,
     ChatHandlerKeeps, PostIngestHandlerKeeps, ReadFormKeeps, StoreFileKeeps, MCPHandlerKeeps,
     StatusHandlersKeep, PushKeeps, RespondKeeps
     DEF HandlerStep
<1>3. CASE StartJob
  BY <1>3, StartJobKeeps
<1>4. ASSUME NEW j \in Job, ReadDocument(j) \/ RemoveDocument(j) \/ EndJob(j)
      PROVE  HttpInv'
  BY <1>4, DocumentKeeps, EndJobKeeps
<1>5. CASE TimePasses
  <2>1. LimiterInv' /\ UNCHANGED queueVars
        /\ UNCHANGED <<phase, authentic, gone, written, files, extracted, records, toolLoops>>
    BY <1>5, LimiterKeeps DEF TimePasses, HttpInv, effectVars
  <2>2. Ordered' /\ Queued' = Queued /\ JobsAsked' = JobsAsked
    BY <2>1, QueueUnchanged DEF HttpInv
  <2>3. Traced'
    BY <2>1, <2>2, SameTrace DEF HttpInv, Traced, queueVars
  <2>4. HttpTypeOK' /\ FileReady'
    BY <2>1, <2>2 DEF HttpInv, HttpTypeOK, LimiterInv, FileReady, queueVars
  <2> QED
    BY <2>1, <2>2, <2>3, <2>4 DEF HttpInv
<1> QED
  BY <1>1, <1>2, <1>3, <1>4, <1>5 DEF HttpNext

LEMMA HttpInvHolds == HttpSpec => []HttpInv
BY HttpInitially, HttpStep, PTL DEF HttpSpec

\* The states of a request are those of the code, and so are the responses it is given.
THEOREM HttpTypesHold == HttpSpec => []HttpTypeOK
<1>1. HttpInv => HttpTypeOK
  BY DEF HttpInv
<1> QED
  BY <1>1, HttpInvHolds, PTL

\* No address is allowed more than its burst and its rate, in any stretch of time.
THEOREM RateIsBounded == HttpSpec => []RateBound
<1>1. HttpInv => RateBound
  BY DEF HttpInv, LimiterInv
<1> QED
  BY <1>1, HttpInvHolds, PTL

\* A document is on disk from before its job is in the queue until its ingestion has read
\* it, for every number of requests, size of the queue and number of workers: it is removed
\* by that ingestion alone, and after it was read.
THEOREM FilesAreReady == HttpSpec => []FileReady
<1>1. HttpInv => FileReady
  BY DEF HttpInv
<1> QED
  BY <1>1, HttpInvHolds, PTL

\* What is answered with 400, 401 or 429 leaves nothing behind.
THEOREM RefusalsLeaveNothing == HttpSpec => []RefusalLeavesNothing
<1>1. ASSUME HttpInv PROVE RefusalLeavesNothing
  <2> SUFFICES ASSUME NEW r \in HttpRequest, written[r] # <<>>,
                      Head(written[r]) \in {400, 401, 429}
               PROVE  ~Has(r)
    BY DEF RefusalLeavesNothing, Has
  <2>1. Trace(r) /\ phase[r] \in Phase
    BY <1>1 DEF HttpInv, Traced, HttpTypeOK
  <2>2. CASE phase[r] = "done"
    BY <2>1, <2>2, RefusalsByHead DEF Trace
  <2>3. CASE phase[r] # "done"
    <3>1. written[r] \in {<<>>, <<500>>}
      BY <2>1, <2>3 DEF Trace, Phase
    <3> QED
      BY <3>1
  <2> QED
    BY <2>2, <2>3
<1> QED
  BY <1>1, HttpInvHolds, PTL

\* A job whose request was answered with 202 is not with its caller any more.
THEOREM AcceptedAreQueued == HttpSpec => []AcceptedIsQueued
<1>1. ASSUME HttpInv PROVE AcceptedIsQueued
  <2> SUFFICES ASSUME NEW r \in Job, 202 \in {written[r][i] : i \in DOMAIN written[r]}
               PROVE  r \in Queued \cup running \cup completed
    BY DEF AcceptedIsQueued
  <2>1. Trace(r) /\ phase[r] \in Phase
    BY <1>1 DEF HttpInv, Traced, HttpTypeOK, HttpRequest
  <2>2. phase[r] = "done"
    <3>1. ASSUME phase[r] # "done" PROVE written[r] \in {<<>>, <<500>>}
      BY <2>1, <3>1 DEF Trace, Phase
    <3>2. written[r] \notin {<<>>, <<500>>}
      OBVIOUS
    <3> QED
      BY <3>1, <3>2
  <2>3. written[r] \in {<<202>>, <<500, 202>>}
    BY <2>1, <2>2, AcceptingResponses DEF Trace
  <2>4. r \in JobsAsked /\ r \notin waiting
    BY <2>1, <2>2, <2>3 DEF Trace
  <2> QED
    BY <2>4 DEF JobsAsked
<1> QED
  BY <1>1, HttpInvHolds, PTL

\* Only a request whose client left is not answered.
THEOREM EveryoneIsAnswered == HttpSpec => []NobodyIsIgnored
<1>1. HttpInv => NobodyIsIgnored
  BY DEF HttpInv, Traced, Trace, NobodyIsIgnored
<1> QED
  BY <1>1, HttpInvHolds, PTL

\* The limiter refuses a request only when one more would break the bound of its address.
THEOREM RefusalsAreDue == HttpSpec => RefusalIsDue
<1>1. ASSUME HttpInv, HttpNext, NEW r \in HttpRequest, phase[r] = "limit",
             written'[r] # written[r]
      PROVE  OneTooMany(origin[r])
  <2>1. LimitRate(r) => (Allow(origin[r]) /\ UNCHANGED written) \/ Deny(origin[r])
    BY DEF LimitRate
  <2>2. \A q \in HttpRequest : HandlerStep(q) => q = r \/ written'[r] = written[r]
    BY <1>1 DEF HandlerStep, Authenticate, RefuseToken, LimitRate, RefuseLimited, LeaveGone,
       ChatHandler, PostIngestHandler, ReadForm, RefuseForm, StoreFile, MCPHandler,
       GetStatusHandler, MCPStatusHandler, Push, Respond, Answer, Write, HttpInv, HttpTypeOK
  <2>3. HandlerStep(r) => LimitRate(r)
    BY <1>1 DEF HandlerStep, Authenticate, RefuseToken, LeaveGone,
       ChatHandler, PostIngestHandler, ReadForm, RefuseForm, StoreFile, MCPHandler,
       GetStatusHandler, MCPStatusHandler, Push, Respond, Answer, Move
  <2>4. HandlerStep(r)
    BY <1>1, <2>2 DEF HttpNext, Disconnect, StartJob, ReadDocument, RemoveDocument, EndJob,
       TimePasses
  <2>5. Deny(origin[r]) /\ origin[r] \in Address
    BY <1>1, <2>1, <2>3, <2>4, RequestAssumption
  <2> QED
    BY <1>1, <2>5, RefusedIsOneTooMany DEF HttpInv
<1>2. ASSUME HttpInv, [HttpNext]_httpVars
      PROVE  [\A r \in HttpRequest :
                 phase[r] = "limit" /\ written'[r] # written[r] => OneTooMany(origin[r])]_httpVars
  BY <1>1, <1>2
<1> QED
  BY <1>2, HttpInvHolds, PTL DEF HttpSpec, RefusalIsDue
-----------------------------------------------------------------------------
(***************************************************************************)
(* Admission: every request with consequences has been paid for.  The count  *)
(* of requests with consequences is not inductive: a grant comes before      *)
(* them.  The count of the requests that passed the limiter is.             *)
(***************************************************************************)

HasPassed(r) == r \in authentic /\ phase[r] # "limit" /\ written[r] # <<429, 429>>

PassedFrom(a) == {r \in HttpRequest : origin[r] = a /\ HasPassed(r)}

Paid == \A a \in Address : Cardinality(PassedFrom(a)) <= Len(grants[a])

\* No step but a grant lets a request pass.
LEMMA OnlyGrantsLetPass ==
  ASSUME HttpInv, [HttpNext]_httpVars, NEW q \in HttpRequest, HasPassed(q)', ~HasPassed(q)
  PROVE  LimitRate(q) /\ Allow(origin[q])
<1>0. HttpTypeOK /\ Trace(q) /\ phase[q] \in Phase
  BY DEF HttpInv, Traced, HttpTypeOK
<1>1. ~UNCHANGED <<phase, authentic, written>>
  BY DEF HasPassed
<1>2. PICK r \in HttpRequest : HandlerStep(r)
  BY <1>1 DEF HttpNext, httpVars, Disconnect, StartJob, ReadDocument, RemoveDocument, EndJob,
       TimePasses
<1>3. r = q
  <2> SUFFICES ASSUME r # q PROVE FALSE
    OBVIOUS
  <2>1. phase'[q] = phase[q] /\ written'[q] = written[q] /\ (q \in authentic' => q \in authentic)
    BY <1>0, <1>2 DEF HandlerStep, Authenticate, RefuseToken, LimitRate, RefuseLimited,
       LeaveGone, ChatHandler, PostIngestHandler, ReadForm, RefuseForm, StoreFile, MCPHandler,
       GetStatusHandler, MCPStatusHandler, Push, Respond, Answer, Move, Write, HttpTypeOK
  <2> QED
    BY <2>1 DEF HasPassed
<1>4. CASE phase[q] \in {"handle", "form", "store", "push"}
  <2>1. q \in authentic /\ written[q] \in {<<>>, <<500>>}
    BY <1>0, <1>4 DEF Trace
  <2>2. <<>> # <<429, 429>> /\ <<500>> # <<429, 429>>
    OBVIOUS
  <2> QED
    BY <1>4, <2>1, <2>2 DEF HasPassed
<1>5. CASE phase[q] = "done"
  BY <1>0, <1>2, <1>3, <1>5 DEF HandlerStep, Authenticate, RefuseToken, LimitRate,
     RefuseLimited, LeaveGone, ChatHandler, PostIngestHandler, ReadForm, RefuseForm, StoreFile,
     MCPHandler, GetStatusHandler, MCPStatusHandler, Push, Respond, Answer, Move
<1>6. CASE phase[q] = "authenticate"
  <2>1. q \notin authentic
    BY <1>0, <1>6 DEF Trace
  <2>2. q \in authentic'
    BY DEF HasPassed
  <2>3. Authenticate(q)
    BY <1>2, <1>3, <2>1, <2>2 DEF HandlerStep, LimitRate, LeaveGone, ChatHandler,
       PostIngestHandler, ReadForm, StoreFile, MCPHandler, GetStatusHandler, MCPStatusHandler,
       Push, Respond
  <2>4. phase'[q] = "limit"
    BY <1>0, <2>1, <2>2, <2>3 DEF Authenticate, Move, HttpTypeOK
  <2> QED
    BY <2>4 DEF HasPassed
<1>7. CASE phase[q] = "limit"
  <2>1. LimitRate(q)
    BY <1>2, <1>3, <1>7 DEF HandlerStep, Authenticate, RefuseToken, LeaveGone,
       ChatHandler, PostIngestHandler, ReadForm, RefuseForm, StoreFile, MCPHandler,
       GetStatusHandler, MCPStatusHandler, Push, Respond, Answer, Move
  <2>2. ASSUME RefuseLimited(q) PROVE FALSE
    <3>1. written'[q] = written[q] \o <<429, 429>> /\ written[q] = <<>>
      <4>0. PICK codes \in Seq(Code) : codes = <<429, 429>>
        BY CodesTyped
      <4>1. HttpTypeOK /\ written[q] = <<>>
        BY <1>0, <1>7 DEF Trace
      <4>2. Write(q, codes)
        BY <2>2, <4>0 DEF RefuseLimited, Answer
      <4>3. written'[q] = written[q] \o codes
        BY <4>1, <4>2, WriteEffect
      <4> QED
        BY <4>0, <4>1, <4>3
    <3>2. written'[q] = <<429, 429>>
      BY <3>1, WrittenFirst
    <3> QED
      BY <3>2 DEF HasPassed
  <2> QED
    BY <2>1, <2>2 DEF LimitRate
<1> QED
  BY <1>0, <1>4, <1>5, <1>6, <1>7 DEF Phase

LEMMA PassedFinite ==
  ASSUME NEW a
  PROVE  /\ IsFiniteSet(PassedFrom(a)) /\ Cardinality(PassedFrom(a)) \in Nat
         /\ IsFiniteSet(PassedFrom(a)') /\ Cardinality(PassedFrom(a)') \in Nat
<1>1. IsFiniteSet(HttpRequest)
  BY RequestAssumption
<1>2. PassedFrom(a) \subseteq HttpRequest /\ PassedFrom(a)' \subseteq HttpRequest
  BY DEF PassedFrom
<1> QED
  BY <1>1, <1>2, FS_Subset, FS_CardinalityType

LEMMA PaidInitially == HttpInit => Paid
<1> SUFFICES ASSUME HttpInit, NEW a \in Address PROVE Cardinality(PassedFrom(a)) <= Len(grants[a])
  BY DEF Paid
<1>1. PassedFrom(a) = {}
  BY DEF HttpInit, PassedFrom, HasPassed
<1>2. grants[a] = <<>>
  BY DEF HttpInit, LimiterInit
<1> QED
  BY <1>1, <1>2, FS_EmptySet

\* Grants are never taken back.
LEMMA GrantsGrow ==
  ASSUME HttpInv, [HttpNext]_httpVars, NEW a \in Address
  PROVE  /\ Len(grants[a]) \in Nat /\ Len(grants'[a]) \in Nat
         /\ Len(grants[a]) <= Len(grants'[a])
<1>1. grants[a] \in Seq(0 .. MaxTime) /\ grants'[a] \in Seq(0 .. MaxTime)
  <2>1. HttpTypeOK /\ HttpTypeOK'
    BY HttpStep DEF HttpInv
  <2> QED
    BY <2>1 DEF HttpTypeOK, LimiterTypeOK
<1>2. CASE grants' = grants
  BY <1>1, <1>2
<1>3. CASE grants' # grants
  <2>1. PICK r \in HttpRequest : LimitRate(r)
    BY <1>3 DEF HttpNext, httpVars, limiterVars, Disconnect, HandlerStep, Authenticate,
       LeaveGone, ChatHandler, PostIngestHandler, ReadForm, StoreFile, MCPHandler,
       GetStatusHandler, MCPStatusHandler, Push, Respond, StartJob, ReadDocument, RemoveDocument, EndJob,
       TimePasses, Tick
  <2>2. Allow(origin[r]) /\ origin[r] \in Address /\ LimiterInv
    BY <1>3, <2>1, RequestAssumption DEF LimitRate, Deny, HttpInv
  <2>3. /\ Len(grants'[origin[r]]) = Len(grants[origin[r]]) + 1
        /\ \A b \in Address \ {origin[r]} : grants'[b] = grants[b]
    BY <2>2, AllowEffect
  <2> QED
    BY <1>1, <2>3
<1> QED
  BY <1>2, <1>3

LEMMA PaidStep == HttpInv /\ Paid /\ [HttpNext]_httpVars => Paid'
<1> SUFFICES ASSUME HttpInv, Paid, [HttpNext]_httpVars, NEW a \in Address
             PROVE  Cardinality(PassedFrom(a)') <= Len(grants'[a])
  BY DEF Paid
<1>0. Cardinality(PassedFrom(a)) <= Len(grants[a])
  BY DEF Paid
<1>1. CASE PassedFrom(a)' \subseteq PassedFrom(a)
  <2>1. Cardinality(PassedFrom(a)') <= Cardinality(PassedFrom(a))
    BY <1>1, PassedFinite, FS_Subset
  <2> QED
    BY <1>0, <2>1, PassedFinite, GrantsGrow
<1>2. CASE ~(PassedFrom(a)' \subseteq PassedFrom(a))
  <2>1. PICK q \in HttpRequest : origin[q] = a /\ HasPassed(q)' /\ ~HasPassed(q)
    BY <1>2 DEF PassedFrom
  <2>2. LimitRate(q) /\ Allow(a) /\ LimiterInv
    BY <2>1, OnlyGrantsLetPass DEF HttpInv
  <2>3. Len(grants'[a]) = Len(grants[a]) + 1
    BY <2>2, AllowEffect
  <2>4. PassedFrom(a)' \subseteq PassedFrom(a) \cup {q}
    <3> SUFFICES ASSUME NEW r \in HttpRequest, r # q, HasPassed(r)' PROVE HasPassed(r)
      BY DEF PassedFrom
    <3>1. phase'[r] = phase[r] /\ written'[r] = written[r] /\ authentic' = authentic
      BY <2>2 DEF LimitRate, RefuseLimited, Answer, Move, Write, HttpInv, HttpTypeOK
    <3> QED
      BY <3>1 DEF HasPassed
  <2>5. /\ IsFiniteSet(PassedFrom(a) \cup {q})
        /\ Cardinality(PassedFrom(a) \cup {q}) <= Cardinality(PassedFrom(a)) + 1
    <3>1. IsFiniteSet(PassedFrom(a)) /\ Cardinality(PassedFrom(a)) \in Nat
      BY PassedFinite
    <3>2. /\ IsFiniteSet(PassedFrom(a) \cup {q})
          /\ \/ Cardinality(PassedFrom(a) \cup {q}) = Cardinality(PassedFrom(a))
             \/ Cardinality(PassedFrom(a) \cup {q}) = Cardinality(PassedFrom(a)) + 1
      BY <3>1, FS_AddElement, Zenon
    <3> QED
      BY <3>1, <3>2
  <2>6. Cardinality(PassedFrom(a)') <= Cardinality(PassedFrom(a) \cup {q})
    BY <2>4, <2>5, FS_Subset
  <2>7. Cardinality(PassedFrom(a) \cup {q}) \in Nat
    BY <2>5, FS_CardinalityType
  <2> QED
    BY <1>0, <2>3, <2>5, <2>6, <2>7, PassedFinite, GrantsGrow
<1> QED
  BY <1>1, <1>2

\* What requests leave behind is admitted: token first, then the limiter, then the handler.
THEOREM WorkAdmitted == HttpSpec => []WorkIsAdmitted
<1>1. ASSUME HttpInv, Paid PROVE WorkIsAdmitted
  <2>1. HttpTypeOK /\ Work \subseteq HttpRequest
    BY <1>1, AskedAreJobs, RequestAssumption DEF HttpInv, HttpTypeOK, Work, HttpRequest
  <2>2. \A r \in Work : HasPassed(r)
    <3> SUFFICES ASSUME NEW r \in Work PROVE HasPassed(r)
      OBVIOUS
    <3>1. r \in authentic /\ phase[r] \in {"push", "done"} /\ written[r] \notin Refusals
      BY <1>1, <2>1 DEF HttpInv, Traced, Trace, Has
    <3> QED
      BY <3>1 DEF HasPassed, Refusals
  <2>3. Work \subseteq authentic
    BY <2>2 DEF HasPassed
  <2>4. ASSUME NEW a \in Address
        PROVE  Cardinality({r \in Work : origin[r] = a}) <= Len(grants[a])
    <3>1. {r \in Work : origin[r] = a} \subseteq PassedFrom(a)
      BY <2>1, <2>2 DEF PassedFrom
    <3>2. /\ Cardinality({r \in Work : origin[r] = a}) \in Nat
          /\ Cardinality({r \in Work : origin[r] = a}) <= Cardinality(PassedFrom(a))
      BY <3>1, PassedFinite, FS_Subset, FS_CardinalityType
    <3>3. Cardinality(PassedFrom(a)) <= Len(grants[a]) /\ Len(grants[a]) \in Nat
      BY <1>1, <2>1 DEF Paid, HttpTypeOK, LimiterTypeOK
    <3> QED
      BY <3>2, <3>3, PassedFinite
  <2> QED
    BY <2>3, <2>4 DEF WorkIsAdmitted
<1>2. HttpSpec => []Paid
  BY PaidInitially, PaidStep, HttpInvHolds, PTL DEF HttpSpec
<1> QED
  BY <1>1, <1>2, HttpInvHolds, PTL
=============================================================================
