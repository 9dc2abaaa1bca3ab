-------------------------------- MODULE RateLimit --------------------------------
(***************************************************************************)
(* The gateway's rate limiter (rateLimiter.ts, rateLimitRepository.ts): a  *)
(* Redis counter per api key, incremented for every request, that lives    *)
(* for a window from the request that creates it.  Time is in ticks.       *)
(***************************************************************************)
EXTENDS Integers, Sequences

CONSTANTS
  Limit,     \* requests allowed in a window (120)
  Window,    \* its length in seconds (10)
  Second     \* ticks in a second, an even number

ASSUME RateLimitAssumption == Limit \in Nat /\ Window \in Nat \ {0} /\ Second \in Nat \ {0}

(* No counter: it has expired, or there never was one. *)
NoCounter == [count |-> 0, expires |-> 0]

(* Mutated form: EXPIRE for every request. *)
IncrementSliding(counter, now) ==
  LET live == IF now < counter.expires THEN counter ELSE NoCounter
  IN  [count |-> live.count + 1, expires |-> now + Window * Second]

(* INCREMENT_WINDOW_SCRIPT: INCR, and EXPIRE for the first. *)
Increment(counter, now) ==
  IF now < counter.expires THEN [counter EXCEPT !.count = @ + 1]
  ELSE [count |-> 1, expires |-> now + Window * Second]

(* Redis rounds the time a key has left to whole seconds. *)
Ttl(counter, now) == (counter.expires - now + Second \div 2) \div Second

(* RateLimiter.check *)
Decision(counter, now) ==
  [allowed |-> counter.count <= Limit,
   retryAfter |-> IF Ttl(counter, now) > 0 THEN Ttl(counter, now) ELSE Window]

(* The counter after each of a sequence of requests, and what they are told. *)
Counters(times) ==
  LET after[i \in 0 .. Len(times)] ==
        IF i = 0 THEN NoCounter ELSE Increment(after[i - 1], times[i])
  IN  after

Decisions(times) ==
  [i \in DOMAIN times |-> Decision(Counters(times)[i], times[i])]
===============================================================================
