---------------------------- MODULE RateLimiter -----------------------------
(* The token-bucket limiter of the admin API and of the data plane.  A call  *)
(* reads the clock before it takes the mutex, so calls apply their readings  *)
(* in any order.  One tick is the time that refills one token: a minute has  *)
(* as many ticks as a bucket has tokens.                                     *)
EXTENDS Integers, FiniteSets, FiniteSetsExt

CONSTANTS
  Keys,       \* who is limited
  Calls,      \* goroutines that call allow
  perMinute,  \* capacity of a bucket, and ticks in a minute; positive
  MaxTime,    \* bound: how long the clock runs
  MaxWait,    \* bound: ticks a call waits for the mutex
  None

VARIABLES
  time,       \* the clock
  buckets,    \* per key: None or [tokens, last]
  lastPrune,
  call,       \* per goroutine: None or [key, now]: waiting for the mutex
  admitted,   \* history: per key and tick, the requests let through
  denied      \* the key the last call was refused for, or None

vars == <<time, buckets, lastPrune, call, admitted, denied>>

Times == 0..MaxTime
minute == perMinute

newRateLimiter ==
  /\ time = 0
  /\ buckets = [k \in Keys |-> None]
  /\ lastPrune = -minute
  /\ call = [c \in Calls |-> None]
  /\ admitted = [k \in Keys |-> [t \in Times |-> 0]]
  /\ denied = None

Tick ==
  /\ time < MaxTime
  /\ \A c \in Calls : call[c] # None => time - call[c].now < MaxWait
  /\ time' = time + 1
  /\ denied' = None
  /\ UNCHANGED <<buckets, lastPrune, call, admitted>>

\* Reads the clock, before the mutex.
now(c, k) ==
  /\ call[c] = None
  /\ call' = [call EXCEPT ![c] = [key |-> k, now |-> time]]
  /\ denied' = None
  /\ UNCHANGED <<time, buckets, lastPrune, admitted>>
-----------------------------------------------------------------------------
(* Under the mutex *)

\* At most once a minute; drops what was idle for more than two.
pruneLocked(t) ==
  IF t - lastPrune < minute THEN buckets
  ELSE [k \in Keys |-> IF buckets[k] # None /\ t - buckets[k].last > 2 * minute THEN None
                       ELSE buckets[k]]

\* Mutant: the bucket's time follows every reading, also an older one.
refilledAlways(b, t) ==
  [tokens |-> IF t > b.last THEN Min({perMinute, b.tokens + (t - b.last)}) ELSE b.tokens,
   last |-> t]
\* A reading older than the bucket's adds nothing and moves nothing.
refilled(b, t) ==
  IF t > b.last THEN [tokens |-> Min({perMinute, b.tokens + (t - b.last)}), last |-> t] ELSE b

allow(c) ==
  /\ call[c] # None
  /\ LET t == call[c].now
         k == call[c].key
         kept == pruneLocked(t)
         b == refilled(IF kept[k] = None THEN [tokens |-> perMinute, last |-> t] ELSE kept[k], t)
     IN /\ lastPrune' = IF t - lastPrune < minute THEN lastPrune ELSE t
        /\ IF b.tokens < 1
           THEN /\ buckets' = [kept EXCEPT ![k] = b]
                /\ denied' = k
                /\ UNCHANGED admitted
           ELSE /\ buckets' = [kept EXCEPT ![k] = [b EXCEPT !.tokens = @ - 1]]
                /\ denied' = None
                /\ admitted' = [admitted EXCEPT ![k][time] = @ + 1]
  /\ call' = [call EXCEPT ![c] = None]
  /\ UNCHANGED time

\* The clock stops at the bound.
Done == time = MaxTime /\ (\A c \in Calls : call[c] = None) /\ UNCHANGED vars

Next == Tick \/ Done \/ \E c \in Calls : allow(c) \/ \E k \in Keys : now(c, k)

Spec == newRateLimiter /\ [][Next]_vars
-----------------------------------------------------------------------------
(* Properties *)

during(k, s, t) == MapThenSumSet(LAMBDA i : admitted[k][i], s..t)

\* In every window a key gets through at most a full bucket and what the window
\* refills, late readings and dropped buckets included; a call that waits for
\* the mutex can add no more than what its wait refills (allow, pruneLocked).
RateBounded ==
  \A k \in Keys, s, t \in 0..time : s <= t => during(k, s, t) <= perMinute + (t - s) + MaxWait

\* A key is refused only when it used up what some window allows it: neither the
\* other keys nor the order of readings cost it a request (allow).
RefusedWhenSpent ==
  denied # None =>
    \E s \in 0..time : during(denied, s, time) >= perMinute + (time - s) - MaxWait

\* Buckets of keys that went away do not pile up: none is three minutes older
\* than another (pruneLocked).
BucketsRecent ==
  \A j, k \in Keys : buckets[j] # None /\ buckets[k] # None => buckets[j].last - buckets[k].last < 3 * minute
=============================================================================
