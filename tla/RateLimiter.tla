---------------------------- MODULE RateLimiter ----------------------------
(***************************************************************************)
(* The rate limiter of internal/middleware/rateLimiter.go: one token bucket *)
(* per client address, created when the address is first seen and never     *)
(* removed.  The bucket is golang.org/x/time/rate, modelled from its use:   *)
(* Allow() takes a token if there is one and otherwise changes nothing.     *)
(*                                                                         *)
(* Time is in ticks.  A token takes Cost ticks to come back, and a level is  *)
(* counted in ticks too, so that parts of tokens are whole numbers: with    *)
(* the code's 2 tokens a second, Cost = 2 makes a tick a quarter of a       *)
(* second.                                                                  *)
(***************************************************************************)
EXTENDS Integers, Sequences

CONSTANTS
    Address,        \* the addresses requests come from
    Burst,          \* config.BURST_RATE_LIMIT_PER_SECOND
    Cost,           \* ticks for one token, the inverse of RATE_LIMIT_PER_SECOND
    MaxTime         \* bound: the clock stops there

ASSUME LimiterAssumption ==
    /\ Burst \in Nat \ {0}
    /\ Cost \in Nat \ {0}
    /\ MaxTime \in Nat

VARIABLES
    now,            \* the clock
    limiters,       \* IPRateLimiter.ips: the limiters of the addresses seen so far
    grants          \* history: when each address was allowed a request

limiterVars == <<now, limiters, grants>>

Capacity == Burst * Cost

Limiter == [level : 0 .. Capacity, last : 0 .. MaxTime]

LimiterTypeOK ==
    /\ now \in 0 .. MaxTime
    /\ DOMAIN limiters \subseteq Address
    /\ limiters \in [DOMAIN limiters -> Limiter]
    /\ grants \in [Address -> Seq(0 .. MaxTime)]

LimiterInit ==
    /\ now = 0
    /\ limiters = [a \in {} |-> <<>>]
    /\ grants = [a \in Address |-> <<>>]

-----------------------------------------------------------------------------
\* Variant: a limiter that is used up is replaced by a new one.
GetNewLimiter(a) ==
    IF a \in DOMAIN limiters /\ limiters[a].level > 0
    THEN limiters[a]
    ELSE [level |-> Capacity, last |-> now]

\* The limiter of an address; one that is not in the map is created, full.
GetLimiter(a) ==
    IF a \in DOMAIN limiters THEN limiters[a] ELSE [level |-> Capacity, last |-> now]

\* What the limiter holds now: what was left, and what has come back since.
Level(l) ==
    LET refilled == l.level + (now - l.last)
    IN  IF refilled <= Capacity THEN refilled ELSE Capacity

\* Variant: the last token of a bucket is never handed out.
HasSpareToken(a) == Level(GetLimiter(a)) > Cost

\* Variant: a part of a token will do.
HasPartOfToken(a) == Level(GetLimiter(a)) > 0

\* Allow() takes a whole token.
HasToken(a) == Level(GetLimiter(a)) >= Cost

Put(a, l) ==
    limiters' = [b \in DOMAIN limiters \cup {a} |-> IF b = a THEN l ELSE limiters[b]]

\* limiterInstance.GetLimiter(ip).Allow() returns true ...
Allow(a) ==
    /\ HasToken(a)
    /\ Put(a, [level |-> Level(GetLimiter(a)) - Cost, last |-> now])
    /\ grants' = [grants EXCEPT ![a] = Append(@, now)]
    /\ UNCHANGED now

\* ... or false.
Deny(a) ==
    /\ ~HasToken(a)
    /\ Put(a, GetLimiter(a))
    /\ UNCHANGED <<now, grants>>

Tick ==
    /\ now < MaxTime
    /\ now' = now + 1
    /\ UNCHANGED <<limiters, grants>>

-----------------------------------------------------------------------------
(***************************************************************************)
(* In any stretch of time an address is allowed at most a burst and one     *)
(* more request for every Cost ticks, wherever the stretch begins: idle     *)
(* times, parts of tokens and a limiter that is created late never add up   *)
(* to more (rateLimiter, NewIPRateLimiter).                                 *)
(***************************************************************************)
RateBound ==
    \A a \in Address : \A i, k \in DOMAIN grants[a] :
        i <= k => (k - i + 1) * Cost <= Capacity + (grants[a][k] - grants[a][i])

\* Another request of the address now would break the bound above.
OneTooMany(a) ==
    \E i \in DOMAIN grants[a] :
        (Len(grants[a]) - i + 2) * Cost > Capacity + (now - grants[a][i])
=============================================================================
