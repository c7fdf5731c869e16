---------------------------- MODULE RateLimiter -----------------------------
(***************************************************************************)
(* The sliding-window rate limiter of src/src/utils/rate-limit.ts, which   *)
(* feed.ts puts in front of every request for a remote feed.  The code     *)
(* keeps only the attempts of the last window; the history variable keeps  *)
(* every attempt it ever allowed.                                          *)
(***************************************************************************)
EXTENDS Naturals, Sequences

CONSTANTS
    MaxAttempts,   \* attempts allowed in a window
    Window,        \* length of the window
    MaxTime        \* bound on the clock

ASSUME LimiterAssumption ==
    /\ MaxAttempts \in Nat \ {0}
    /\ Window \in Nat \ {0}
    /\ MaxTime \in Nat

VARIABLES
    now,        \* Date.now(), taken never to run backwards
    attempts,   \* the closure's queue, the oldest attempt first
    granted     \* history: when each allowed attempt was made

limiterVars == <<now, attempts, granted>>

LimiterTypeOK ==
    /\ now \in 0 .. MaxTime
    /\ attempts \in Seq(0 .. MaxTime)
    /\ granted \in Seq(0 .. MaxTime)

LimiterInit ==
    /\ now = 0
    /\ attempts = <<>>
    /\ granted = <<>>

Tick ==
    /\ now < MaxTime
    /\ now' = now + 1
    /\ UNCHANGED <<attempts, granted>>

\* Faulty variant: an attempt leaves the window one tick early.
ExpiredEarly(k) ==
    /\ \A i \in 1 .. k : attempts[i] + Window <= now + 1
    /\ k < Len(attempts) => attempts[k + 1] + Window > now + 1

\* The while loop: the first k attempts, and no more, have left the window.
Expired(k) ==
    /\ \A i \in 1 .. k : attempts[i] + Window <= now
    /\ k < Len(attempts) => attempts[k + 1] + Window > now

Remaining(k) == SubSeq(attempts, k + 1, Len(attempts))

\* attempt() returns allowed: true, or allowed: false.
Permit ==
    \E k \in 0 .. Len(attempts) :
        /\ Expired(k)
        /\ Len(attempts) - k < MaxAttempts
        /\ attempts' = Append(Remaining(k), now)
        /\ granted' = Append(granted, now)
        /\ now' = now

Refuse ==
    \E k \in 0 .. Len(attempts) :
        /\ Expired(k)
        /\ Len(attempts) - k >= MaxAttempts
        /\ attempts' = Remaining(k)
        /\ UNCHANGED <<now, granted>>

LimiterNext == Tick \/ Permit \/ Refuse

LimiterSpec == LimiterInit /\ [][LimiterNext]_limiterVars

(* No window of the given length ever holds more than MaxAttempts allowed  *)
(* attempts: an attempt and the MaxAttempts-th one after it are at least a *)
(* window apart, whatever was forgotten in between (rate-limit.ts:25-42).  *)
RateBound ==
    \A i \in 1 .. Len(granted) :
        i + MaxAttempts <= Len(granted) =>
            granted[i] + Window <= granted[i + MaxAttempts]
=============================================================================
