----------------------------- MODULE RateLimiters -----------------------------
(***************************************************************************)
(* The rate limiters of one client: the sliding window counter             *)
(* (middleware/slidingWindowCounter.js) and the token bucket               *)
(* (middleware/tokenBucket.js).  Each is a script that Redis runs in one   *)
(* step, but with the time at which the Node process began the request: a  *)
(* script may run later than its stamp, and after scripts with younger     *)
(* stamps.  Keys expire by the clock of Redis, which is the same clock     *)
(* here.  The answer's headers are left out.                               *)
(***************************************************************************)
EXTENDS Integers, FiniteSetsExt

CONSTANTS Callers,           \* requests the limiters handle at once
          windowMs, maxRequests,
          capacity, refillTokens, refillIntervalMs,
          SCALE,
          MaxTime,           \* bound: the clock stops
          MaxDelay           \* bound: how long a script waits for its turn

ASSUME LimiterAssumption ==
    /\ {windowMs, maxRequests, capacity, refillTokens, refillIntervalMs, SCALE}
          \subseteq Nat \ {0}
    /\ {MaxTime, MaxDelay} \subseteq Nat

VARIABLES clock,
          stamp,             \* per request: its limiter and time, or NoStamp
          counter,           \* rate:<client>:<window>: count and expiry
          admitted,          \* requests the window let by, per stamp; of those
                             \* whose script ran in the window of its stamp
          bucket,            \* token-bucket:<client>
          drawn,             \* requests the bucket let by
          setBack            \* by how much updatedAt was moved back in all

limiterVars == <<clock, stamp, counter, admitted, bucket, drawn, setBack>>
slidingWindow == <<counter, admitted>>
tokenBucket == <<bucket, drawn, setBack>>

Times == 0..MaxTime
WindowOf(t) == t \div windowMs
Windows == 0..WindowOf(MaxTime)
NoStamp == [limiter |-> "none", at |-> 0]
NoKey == [count |-> 0, expiresAt |-> 0]
NoBucket == [tokensScaled |-> 0, updatedAt |-> 0, expiresAt |-> 0]

\* Rounded down, as the code does once for all requests ...
refillRatePerMsScaled == (refillTokens * SCALE) \div refillIntervalMs

\* ... and up, for the time a bucket is kept.
ttlMs == (2 * capacity * refillIntervalMs + refillTokens - 1) \div refillTokens

\* A bucket is kept twice as long as it takes to fill, and no script waits for
\* longer than that leaves: a minute for the limiters of
\* rate-limiters/index.js:123-139.
ASSUME BucketAssumption ==
    refillRatePerMsScaled * (ttlMs - MaxDelay) >= capacity * SCALE

LimiterTypeOK ==
    /\ clock \in Times
    /\ stamp \in [Callers -> [limiter : {"none", "window", "bucket"}, at : Times]]
    /\ counter \in [Windows -> [count : 0..maxRequests, expiresAt : Nat]]
    /\ admitted \in [Times -> Nat]
    /\ bucket \in [tokensScaled : 0..(capacity * SCALE), updatedAt : Times, expiresAt : Nat]
    /\ drawn \in Nat /\ setBack \in Nat

LimiterInit ==
    /\ clock = 0
    /\ stamp = [c \in Callers |-> NoStamp]
    /\ counter = [w \in Windows |-> NoKey]
    /\ admitted = [t \in Times |-> 0]
    /\ bucket = NoBucket /\ drawn = 0 /\ setBack = 0
-------------------------------------------------------------------------------
\* Date.now() in the middleware.
Stamp(c, limiter) ==
    /\ stamp[c] = NoStamp
    /\ stamp' = [stamp EXCEPT ![c] = [limiter |-> limiter, at |-> clock]]
    /\ UNCHANGED <<clock, slidingWindow, tokenBucket>>

Answer(c) == stamp' = [stamp EXCEPT ![c] = NoStamp]

Tick ==
    /\ clock < MaxTime
    /\ \A c \in Callers : stamp[c] # NoStamp => clock < stamp[c].at + MaxDelay
    /\ clock' = clock + 1
    /\ UNCHANGED <<stamp, slidingWindow, tokenBucket>>

\* Redis does not answer: a limiter that fails closed refuses the request,
\* one that fails open lets it by without a trace.
EvalFails(c) ==
    /\ stamp[c] # NoStamp
    /\ Answer(c)
    /\ UNCHANGED <<clock, slidingWindow, tokenBucket>>
-------------------------------------------------------------------------------
Count(w) == IF w \in Windows /\ counter[w].expiresAt > clock THEN counter[w].count ELSE 0

\* The window before counts in proportion to the part of it that lies less
\* than windowMs before t.
EstimatedCountScaled(t) ==
    Count(WindowOf(t)) * SCALE
    + (Count(WindowOf(t) - 1) * (windowMs - (t % windowMs)) * SCALE) \div windowMs

BelowLimit(t) == EstimatedCountScaled(t) < maxRequests * SCALE

\* INCR, and PEXPIRE by the first request of the window.
Increment(w) ==
    [count |-> Count(w) + 1,
     expiresAt |-> IF Count(w) = 0 THEN clock + 2 * windowMs ELSE counter[w].expiresAt]

\* slidingWindowCounterScript
SlidingWindow(c) ==
    /\ stamp[c].limiter = "window"
    /\ LET t == stamp[c].at  w == WindowOf(t) IN
       IF BelowLimit(t)
       THEN /\ counter' = [counter EXCEPT ![w] = Increment(w)]
            /\ admitted' = [admitted EXCEPT ![t] = @ + (IF WindowOf(clock) = w THEN 1 ELSE 0)]
       ELSE UNCHANGED slidingWindow
    /\ Answer(c)
    /\ UNCHANGED <<clock, tokenBucket>>
-------------------------------------------------------------------------------
BucketThere == bucket.expiresAt > clock

\* Fault: a bucket fills beyond its capacity.
RefilledBeyond(t) ==
    IF ~BucketThere THEN capacity * SCALE
    ELSE bucket.tokensScaled + Max({0, t - bucket.updatedAt}) * refillRatePerMsScaled

Refilled(t) ==
    IF ~BucketThere THEN capacity * SCALE
    ELSE Min({capacity * SCALE,
              bucket.tokensScaled + Max({0, t - bucket.updatedAt}) * refillRatePerMsScaled})

Enough(t) == Refilled(t) >= SCALE

\* Fault: a refused request keeps the tokens it was shown, but not the time.
KeepTime(t) ==
    [tokensScaled |-> Refilled(t) - (IF Enough(t) THEN SCALE ELSE 0),
     updatedAt |-> IF Enough(t) \/ ~BucketThere THEN t ELSE bucket.updatedAt,
     expiresAt |-> clock + ttlMs]

\* Either way the tokens and the time are stored, a younger time too.
Taken(t) ==
    [tokensScaled |-> Refilled(t) - (IF Enough(t) THEN SCALE ELSE 0),
     updatedAt |-> t,
     expiresAt |-> clock + ttlMs]

\* tokenBucketScript, with the cost of one token that every limiter has.
TokenBucket(c) ==
    /\ stamp[c].limiter = "bucket"
    /\ LET t == stamp[c].at IN
       /\ bucket' = Taken(t)
       /\ drawn' = drawn + (IF Enough(t) THEN 1 ELSE 0)
       /\ setBack' = setBack + (IF BucketThere THEN Max({0, bucket.updatedAt - t}) ELSE 0)
    /\ Answer(c)
    /\ UNCHANGED <<clock, slidingWindow>>

LimiterNext ==
    \/ Tick
    \/ \E c \in Callers : \/ Stamp(c, "window") \/ Stamp(c, "bucket") \/ EvalFails(c)
                          \/ SlidingWindow(c) \/ TokenBucket(c)

LimiterSpec == LimiterInit /\ [][LimiterNext]_limiterVars
-------------------------------------------------------------------------------
Admitted(from, to) == SumFunctionOnSet(admitted, from..to)

\* The promise to the services behind the limiter, scripts apart that ran
\* after the window of their stamp: a window admits its quota, and a span of
\* L ms across two of them admits less than one request more than the share
\* it has of the second, maxRequests * (1 + (L - 2) / windowMs), though only
\* two counters are kept and each disappears by itself.
SpansLimited ==
    \A from, to \in Times : LET L == to - from + 1 IN
       from <= to /\ L <= windowMs =>
          IF WindowOf(from) = WindowOf(to) THEN Admitted(from, to) <= maxRequests
          ELSE Admitted(from, to) * windowMs < maxRequests * (windowMs + L - 2) + windowMs

\* The bucket never gives more than it held at first and what has flowed in
\* since, although keys expire full and refusals are stored too; only time
\* that was counted twice because updatedAt was set back comes on top.
DrawnFromBucket ==
    drawn * SCALE <= capacity * SCALE + refillRatePerMsScaled * (clock + setBack)

\* Neither limiter lets more by than it promises, whatever order the scripts
\* run in and whenever their keys expire.
LimitsHold == SpansLimited /\ DrawnFromBucket
===============================================================================
