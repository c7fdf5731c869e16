-------------------------- MODULE FeedCacheProofs ---------------------------
(***************************************************************************)
(* What the cache of remote feeds returns, and how often the limiter in    *)
(* front of the origin lets it ask, for any number of feeds, versions,     *)
(* calls and attempts, any TTL and window and any number of retries.       *)
(***************************************************************************)
EXTENDS FeedCache, SequenceTheorems, TLAPS

-----------------------------------------------------------------------------
(* The rate limiter.  The queue is the tail of the history of allowed      *)
(* attempts; what precedes it lies a window or more in the past; and the   *)
(* clock orders the history.  Hence when the queue has room, the attempt   *)
(* that comes MaxAttempts before the new one is no longer in the queue.    *)

\* How many of the allowed attempts the queue no longer holds.
Forgotten == Len(granted) - Len(attempts)

IsTail ==
    /\ Len(attempts) <= Len(granted)
    /\ \A i \in 1 .. Len(attempts) : attempts[i] = granted[Forgotten + i]

ForgottenAreOld == \A i \in 1 .. Forgotten : granted[i] + Window <= now

PastOnly == \A i \in 1 .. Len(granted) : granted[i] <= now

LimiterInv ==
    /\ LimiterTypeOK
    /\ IsTail
    /\ ForgottenAreOld
    /\ PastOnly
    /\ RateBound

LEMMA LimiterInitInv == LimiterInit => LimiterInv
  BY LimiterAssumption DEF LimiterInit, LimiterInv, LimiterTypeOK, IsTail,
     ForgottenAreOld, PastOnly, RateBound, Forgotten

\* What the queue is after the loop: the same tail, k attempts shorter.
LEMMA RemainingTail ==
  ASSUME LimiterInv, NEW k \in 0 .. Len(attempts), Expired(k)
  PROVE  /\ Remaining(k) \in Seq(0 .. MaxTime)
         /\ Len(Remaining(k)) = Len(attempts) - k
         /\ \A i \in 1 .. Len(Remaining(k)) : Remaining(k)[i] = granted[Forgotten + k + i]
         /\ \A i \in 1 .. Forgotten + k : granted[i] + Window <= now
  <1>0. /\ attempts \in Seq(0 .. MaxTime) /\ granted \in Seq(0 .. MaxTime)
        /\ Len(attempts) \in Nat /\ Len(granted) \in Nat /\ k \in Nat
        /\ k <= Len(attempts) /\ Len(attempts) <= Len(granted) /\ Forgotten \in Nat
    BY DEF LimiterInv, LimiterTypeOK, IsTail, Forgotten
  <1>1. /\ Remaining(k) \in Seq(0 .. MaxTime) /\ Len(Remaining(k)) = Len(attempts) - k
        /\ \A i \in 1 .. Len(attempts) - k : Remaining(k)[i] = attempts[k + i]
    <2>1. ASSUME NEW i \in k + 1 .. Len(attempts) PROVE attempts[i] \in 0 .. MaxTime
      <3>1. i \in 1 .. Len(attempts)
        BY <1>0
      <3> QED
        BY <1>0, <3>1, ElementOfSeq
    <2>2. PICK m \in Int, n \in Int : m = k + 1 /\ n = Len(attempts)
      BY <1>0
    <2>3. \A i \in m .. n : attempts[i] \in 0 .. MaxTime
      BY <2>1, <2>2
    <2>4. /\ SubSeq(attempts, m, n) \in Seq(0 .. MaxTime)
          /\ Len(SubSeq(attempts, m, n)) = IF m <= n THEN n - m + 1 ELSE 0
          /\ \A i \in 1 .. n - m + 1 : SubSeq(attempts, m, n)[i] = attempts[m + i - 1]
      BY <2>3, SubSeqProperties
    <2>5. Remaining(k) = SubSeq(attempts, m, n)
      BY <2>2 DEF Remaining
    <2>6. \A i \in 1 .. Len(attempts) - k :
             /\ i \in 1 .. n - m + 1
             /\ m + i - 1 = k + i
      BY <1>0, <2>2
    <2> QED
      BY <1>0, <2>2, <2>4, <2>5, <2>6
  <1>2. \A i \in 1 .. Len(Remaining(k)) : Remaining(k)[i] = granted[Forgotten + k + i]
    <2> TAKE i \in 1 .. Len(Remaining(k))
    <2>1. k + i \in 1 .. Len(attempts) /\ Remaining(k)[i] = attempts[k + i]
      BY <1>0, <1>1
    <2>2. attempts[k + i] = granted[Forgotten + (k + i)]
      BY <2>1 DEF LimiterInv, IsTail
    <2>3. Forgotten + (k + i) = Forgotten + k + i
      BY <1>0
    <2> QED
      BY <2>1, <2>2, <2>3
  <1>3. \A i \in 1 .. Forgotten + k : granted[i] + Window <= now
    <2> TAKE i \in 1 .. Forgotten + k
    <2>1. CASE i <= Forgotten
      BY <1>0, <2>1 DEF LimiterInv, ForgottenAreOld
    <2>2. CASE i > Forgotten
      <3>1. i - Forgotten \in 1 .. k /\ i - Forgotten \in 1 .. Len(attempts)
            /\ Forgotten + (i - Forgotten) = i
        BY <1>0, <2>2
      <3>2. attempts[i - Forgotten] = granted[Forgotten + (i - Forgotten)]
        BY <3>1 DEF LimiterInv, IsTail
      <3>3. attempts[i - Forgotten] + Window <= now
        BY <3>1 DEF Expired
      <3> QED
        BY <3>1, <3>2, <3>3
    <2> QED
      BY <1>0, <2>1, <2>2
  <1> QED
    BY <1>1, <1>2, <1>3

LEMMA PermitInv == LimiterInv /\ Permit => LimiterInv'
  <1> SUFFICES ASSUME LimiterInv, Permit PROVE LimiterInv'
    OBVIOUS
  <1>1. PICK k \in 0 .. Len(attempts) :
            /\ Expired(k)
            /\ Len(attempts) - k < MaxAttempts
            /\ attempts' = Append(Remaining(k), now)
            /\ granted' = Append(granted, now)
            /\ now' = now
    BY DEF Permit
  <1>2. PICK n \in Nat, f \in Nat, q \in Seq(0 .. MaxTime) :
          /\ n = Len(granted) /\ f = Forgotten + k /\ q = Remaining(k)
          /\ Len(q) = Len(attempts) - k
          /\ \A i \in 1 .. Len(q) : q[i] = granted[f + i]
          /\ \A i \in 1 .. f : granted[i] + Window <= now
    <2>1. Len(granted) \in Nat /\ Forgotten + k \in Nat
      BY <1>1 DEF LimiterInv, LimiterTypeOK, IsTail, Forgotten
    <2> QED
      BY <1>1, <2>1, RemainingTail
  <1>3. /\ granted \in Seq(0 .. MaxTime) /\ n \in Nat /\ f \in Nat /\ Len(q) \in Nat
        /\ f + Len(q) = n /\ now \in 0 .. MaxTime /\ now \in Nat
        /\ MaxAttempts \in Nat /\ Window \in Nat /\ MaxTime \in Nat
        /\ Len(q) < MaxAttempts
    BY <1>1, <1>2, LimiterAssumption DEF LimiterInv, LimiterTypeOK, IsTail, Forgotten
  <1>4. /\ attempts' \in Seq(0 .. MaxTime) /\ granted' \in Seq(0 .. MaxTime)
        /\ Len(attempts') = Len(q) + 1 /\ Len(granted') = n + 1
        /\ \A i \in 1 .. n : granted'[i] = granted[i] /\ granted[i] \in 0 .. MaxTime
        /\ granted'[n + 1] = now
        /\ \A i \in 1 .. Len(q) : attempts'[i] = q[i]
        /\ attempts'[Len(q) + 1] = now
    <2>1. attempts' = Append(q, now) /\ granted' = Append(granted, now)
      BY <1>1, <1>2
    <2>2. /\ attempts' \in Seq(0 .. MaxTime) /\ Len(attempts') = Len(q) + 1
          /\ \A i \in 1 .. Len(q) : attempts'[i] = q[i]
          /\ attempts'[Len(q) + 1] = now
      <3>1. q \in Seq(0 .. MaxTime)
        BY <1>2
      <3>2. attempts' = Append(q, now) /\ now \in 0 .. MaxTime
        BY <1>3, <2>1
      <3> QED
        BY <3>1, <3>2, AppendProperties
    <2>3. /\ granted' \in Seq(0 .. MaxTime) /\ Len(granted') = Len(granted) + 1
          /\ \A i \in 1 .. Len(granted) : granted'[i] = granted[i]
          /\ granted'[Len(granted) + 1] = now
      BY <1>3, <2>1, AppendProperties
    <2>4. \A i \in 1 .. Len(granted) : granted[i] \in 0 .. MaxTime
      BY <1>3, ElementOfSeq
    <2> QED
      BY <1>2, <2>2, <2>3, <2>4
  <1>5. Forgotten' = f
    <2>1. Len(granted') = n + 1 /\ Len(attempts') = Len(q) + 1 /\ f + Len(q) = n
      BY <1>3, <1>4
    <2>2. ASSUME NEW l \in Nat, f + l = n PROVE f = (n + 1) - (l + 1)
      BY <2>2
    <2>3. f = (n + 1) - (Len(q) + 1)
      BY <1>3, <2>1, <2>2
    <2> QED
      BY <2>1, <2>3 DEF Forgotten
  <1>6. LimiterTypeOK'
    BY <1>1, <1>3, <1>4 DEF LimiterTypeOK
  <1>7. IsTail'
    <2>1. Len(attempts') <= Len(granted')
      BY <1>3, <1>4
    <2>2. ASSUME NEW i \in 1 .. Len(attempts') PROVE attempts'[i] = granted'[f + i]
      <3>1. CASE i <= Len(q)
        <4>1. i \in 1 .. Len(q) /\ f + i \in 1 .. n
          BY <1>3, <1>4, <3>1
        <4>2. attempts'[i] = q[i] /\ granted'[f + i] = granted[f + i]
          BY <1>4, <4>1
        <4> QED
          BY <1>2, <4>1, <4>2
      <3>2. CASE i = Len(q) + 1
        BY <1>3, <1>4, <3>2
      <3> QED
        BY <1>3, <1>4, <3>1, <3>2
    <2> QED
      BY <1>5, <2>1, <2>2 DEF IsTail
  <1>8. ForgottenAreOld'
    BY <1>1, <1>2, <1>3, <1>4, <1>5 DEF ForgottenAreOld
  <1>9. PastOnly'
    <2>1. \A i \in 1 .. n : granted[i] <= now
      BY <1>2 DEF LimiterInv, PastOnly
    <2> QED
      BY <1>1, <1>3, <1>4, <2>1 DEF PastOnly
  <1>10. RateBound'
    <2> SUFFICES ASSUME NEW i \in 1 .. Len(granted'), i + MaxAttempts <= Len(granted')
                 PROVE  granted'[i] + Window <= granted'[i + MaxAttempts]
      BY DEF RateBound
    <2>1. CASE i + MaxAttempts <= n
      <3>1. i \in 1 .. n /\ i + MaxAttempts \in 1 .. n
        BY <1>3, <1>4, <2>1
      <3>2. granted[i] + Window <= granted[i + MaxAttempts]
        BY <1>2, <2>1, <3>1 DEF LimiterInv, RateBound
      <3> QED
        BY <1>4, <3>1, <3>2
    <2>2. CASE i + MaxAttempts = n + 1
      <3>1. i \in 1 .. f /\ i \in 1 .. n
        BY <1>3, <1>4, <2>2, LimiterAssumption
      <3> QED
        BY <1>2, <1>4, <2>2, <3>1
    <2> QED
      BY <1>3, <1>4, <2>1, <2>2
  <1> QED
    BY <1>6, <1>7, <1>8, <1>9, <1>10 DEF LimiterInv

LEMMA RefuseInv == LimiterInv /\ Refuse => LimiterInv'
  <1> SUFFICES ASSUME LimiterInv, Refuse PROVE LimiterInv'
    OBVIOUS
  <1>1. PICK k \in 0 .. Len(attempts) :
            /\ Expired(k)
            /\ attempts' = Remaining(k)
            /\ UNCHANGED <<now, granted>>
    BY DEF Refuse
  <1>2. /\ Remaining(k) \in Seq(0 .. MaxTime)
        /\ Len(Remaining(k)) = Len(attempts) - k
        /\ \A i \in 1 .. Len(Remaining(k)) : Remaining(k)[i] = granted[Forgotten + k + i]
        /\ \A i \in 1 .. Forgotten + k : granted[i] + Window <= now
    BY <1>1, RemainingTail
  <1>3. Forgotten' = Forgotten + k /\ Len(attempts') <= Len(granted')
    BY <1>1, <1>2 DEF Forgotten, LimiterInv, LimiterTypeOK, IsTail
  <1>4. IsTail' /\ ForgottenAreOld'
    BY <1>1, <1>2, <1>3 DEF IsTail, ForgottenAreOld
  <1> QED
    BY <1>1, <1>2, <1>4 DEF LimiterInv, LimiterTypeOK, PastOnly, RateBound

LEMMA TickInv == LimiterInv /\ Tick => LimiterInv'
  <1> SUFFICES ASSUME LimiterInv, Tick PROVE LimiterInv'
    OBVIOUS
  <1>1. /\ granted' = granted /\ attempts' = attempts /\ now' = now + 1
        /\ now' \in 0 .. MaxTime /\ now \in Nat /\ Window \in Nat
        /\ Len(granted) \in Nat /\ Len(attempts) \in Nat
        /\ \A i \in 1 .. Len(granted) : granted[i] \in Nat
    BY LimiterAssumption DEF Tick, LimiterInv, LimiterTypeOK
  <1>2. Forgotten' = Forgotten /\ Forgotten \in Nat /\ Forgotten <= Len(granted)
    BY <1>1 DEF Forgotten, LimiterInv, IsTail
  <1>3. ForgottenAreOld'
    BY <1>1, <1>2 DEF LimiterInv, ForgottenAreOld
  <1>4. PastOnly'
    BY <1>1 DEF LimiterInv, PastOnly
  <1> QED
    BY <1>1, <1>2, <1>3, <1>4 DEF LimiterInv, LimiterTypeOK, IsTail, RateBound

(* However attempts and time interleave, the limiter never allows more     *)
(* than MaxAttempts of them in one window (rate-limit.ts:18-42).           *)
THEOREM RateNeverExceeded == LimiterSpec => []RateBound
  <1>1. LimiterInv /\ UNCHANGED limiterVars => LimiterInv'
    BY DEF limiterVars, LimiterInv, LimiterTypeOK, IsTail, ForgottenAreOld, PastOnly,
       RateBound, Forgotten
  <1>2. LimiterInv /\ [LimiterNext]_limiterVars => LimiterInv'
    BY <1>1, PermitInv, RefuseInv, TickInv DEF LimiterNext
  <1>3. LimiterInv => RateBound
    BY DEF LimiterInv
  <1> QED
    BY <1>2, <1>3, LimiterInitInv, PTL DEF LimiterSpec

-----------------------------------------------------------------------------
(* The cache.  The state of the two stores is never better than that of    *)
(* the calls that write them, and a call is only as good as the entry it   *)
(* found.  So the invariant says of every entry, wherever it is, that its  *)
(* tag belongs to its data and that the data was sent or confirmed no      *)
(* earlier than the entry says (Sound); and of every answer and every      *)
(* loaded entry, that the origin held it since the load looked at the      *)
(* cache (Current).                                                        *)

Writing == {"setex", "open", "close"}

CallTyped(c) ==
    /\ c \in CallState
    /\ c.pc # "idle" => c.url \in Url
    /\ c.pc = "body" => c.response \in Response /\ (c.response.same => c.entry \in Entry)
    /\ c.pc \in Writing => c.out \in Entry

StoresTyped ==
    /\ file \in [CacheFile -> Entry \union {None, Garbled}]
    /\ redis \in [Url -> [entry : Entry, expires : Nat] \union {None}]

HistoryTyped ==
    /\ origin \in [Url -> Version]
    /\ held \in [Url -> [Version -> 0 .. Never]]
    /\ arrived \in [Url -> [Version -> 0 .. Never]]

CallsTyped == call \in [Task -> CallState] /\ \A t \in Task : CallTyped(call[t])

CacheTyped == StoresTyped /\ HistoryTyped /\ CallsTyped

TypeInv == LimiterInv /\ CacheTyped

-----------------------------------------------------------------------------
Sound(u, e) ==
    e \in Entry /\ e.data \in Version =>
        e.etag = e.data /\ arrived[u][e.data] \in e.at .. now

Current(u, d, start) == d \in Version => held[u][d] \in start .. now

AnswerSound(c) ==
    /\ c.response.body \in Version => c.response.etag = c.response.body
    /\ c.response.same => c.entry.etag = c.response.body /\ c.response.body \in Version
    /\ Current(c.url, c.response.body, c.start)

CallSound(c) ==
    c.pc # "idle" =>
        /\ c.start <= now
        /\ Sound(c.url, c.entry) /\ Sound(c.url, c.out)
        /\ c.pc = "body" => AnswerSound(c)
        /\ c.pc \in Writing /\ c.kind = "load" => Current(c.url, c.out.data, c.start)

StoresSound ==
    \A u \in Url : /\ Sound(u, file[FileOf[u]])
                   /\ redis[u] # None => Sound(u, redis[u].entry)

CacheSound ==
    /\ \A u \in Url : held[u][origin[u]] = now
    /\ StoresSound
    /\ \A t \in Task : CallSound(call[t])

CacheInv == TypeInv /\ CacheSound /\ ServedRecent /\ FetchedIsCurrent

-----------------------------------------------------------------------------
(* The limiter in front of the cache                                       *)

LEMMA LimiterStutters == LimiterInv /\ UNCHANGED limiterVars => LimiterInv'
  BY DEF limiterVars, LimiterInv, LimiterTypeOK, IsTail, ForgottenAreOld, PastOnly,
     RateBound, Forgotten

LEMMA LimiterRestarts ==
  ASSUME LimiterInv, UNCHANGED now, attempts' = <<>>, granted' = <<>>
  PROVE  LimiterInv'
  BY LimiterAssumption DEF LimiterInv, LimiterTypeOK, IsTail, ForgottenAreOld, PastOnly,
     RateBound, Forgotten

LEMMA LimiterStep == LimiterInv /\ [Next]_vars => LimiterInv'
  <1> SUFFICES ASSUME LimiterInv, [Next]_vars PROVE LimiterInv'
    OBVIOUS
  <1>1. CASE PassTime
    BY <1>1, TickInv DEF PassTime
  <1>2. ASSUME NEW u \in Url, NEW v \in Version, Publish(u, v) PROVE LimiterInv'
    BY <1>2, LimiterStutters DEF Publish
  <1>3. ASSUME NEW u \in Url, NEW t \in Task, LoadFeed(u, t) PROVE LimiterInv'
    BY <1>3, LimiterStutters DEF LoadFeed
  <1>4. ASSUME NEW t \in Task, CallStep(t) PROVE LimiterInv'
    <2>1. CASE Decide(t)
      BY <2>1, PermitInv, RefuseInv DEF Decide
    <2>2. CASE ~Decide(t)
      BY <1>4, <2>2, LimiterStutters
         DEF CallStep, ReadRedis, ReadFile, FetchFails, Answer, BodyArrives, WriteRedis,
             OpenFile, CloseFile
    <2> QED
      BY <2>1, <2>2
  <1>5. CASE Restart
    BY <1>5, LimiterRestarts DEF Restart
  <1>6. CASE UNCHANGED vars
    BY <1>6, LimiterStutters DEF vars
  <1> QED
    BY <1>1, <1>2, <1>3, <1>4, <1>5, <1>6 DEF Next

LEMMA NowIsTyped ==
  ASSUME LimiterInv
  PROVE  now \in 0 .. MaxTime /\ MaxTime \in Nat
  BY LimiterAssumption DEF LimiterInv, LimiterTypeOK

-----------------------------------------------------------------------------
(* Types                                                                   *)

LEMMA IdleTyped == CallTyped(IdleCall) /\ IdleCall.pc = "idle"
  BY LimiterAssumption, CacheAssumption DEF CallTyped, CallState, IdleCall, Writing

LEMMA CallBecomes ==
  ASSUME CallsTyped, NEW t \in Task, NEW c, CallTyped(c), call' = [call EXCEPT ![t] = c]
  PROVE  CallsTyped'
  BY DEF CallsTyped, CallTyped

LEMMA NoTries == 0 \in 0 .. Retries
  BY CacheAssumption

LEMMA StoredTyped ==
  ASSUME LimiterInv, NEW t \in Task, CallTyped(call[t]), call[t].pc = "body",
         call[t].response.body # NotJson, ~(call[t].response.same /\ call[t].kind = "revalidate")
  PROVE  Stored(t) \in Entry
  <1>1. PICK c \in CallState : c = call[t]
    BY DEF CallTyped
  <1>2. PICK r \in Response : r = c.response /\ r.body \in Data
    BY <1>1 DEF CallTyped, Response
  <1>3. now \in 0 .. MaxTime /\ c.start \in 0 .. MaxTime /\ r.etag \in Version \union {None}
    BY <1>1, <1>2, NowIsTyped DEF CallState, Response
  <1>4. CASE c.kind = "revalidate"
    <2>1. Stored(t) = [data |-> r.body, at |-> now, etag |-> r.etag]
      BY <1>1, <1>2, <1>4 DEF Stored
    <2> QED
      BY <1>2, <1>3, <2>1 DEF Entry
  <1>5. CASE c.kind # "revalidate" /\ r.same
    <2>1. Stored(t) = [c.entry EXCEPT !.at = c.start] /\ c.entry \in Entry
      BY <1>1, <1>2, <1>5 DEF Stored, CallTyped
    <2> QED
      BY <1>3, <2>1 DEF Entry
  <1>6. CASE c.kind # "revalidate" /\ ~r.same
    <2>1. Stored(t) = [data |-> r.body, at |-> c.start,
                       etag |-> IF r.etag # None THEN r.etag ELSE EtagOf(c.entry)]
      BY <1>1, <1>2, <1>6 DEF Stored
    <2>2. EtagOf(c.entry) \in Version \union {None}
      BY DEF CallState, EtagOf, Entry
    <2> QED
      BY <1>2, <1>3, <2>1, <2>2 DEF Entry
  <1> QED
    BY <1>4, <1>5, <1>6

\* What each step of a call makes of it.
LEMMA CallStepTyped ==
  ASSUME TypeInv, NEW t \in Task, CallStep(t)
  PROVE  \E c : CallTyped(c) /\ call' = [call EXCEPT ![t] = c]
  <1> USE DEF Step, End
  <1>1. PICK c \in CallState : c = call[t] /\ CallTyped(c) /\ now \in 0 .. MaxTime
    BY NowIsTyped DEF TypeInv, CacheTyped, CallsTyped
  <1>2. CASE call' = [call EXCEPT ![t] = IdleCall]
    BY <1>2, IdleTyped
  <1>3. ASSUME NEW d, CallTyped(d), call' = [call EXCEPT ![t] = d]
        PROVE  \E e : CallTyped(e) /\ call' = [call EXCEPT ![t] = e]
    BY <1>3
  <1>4. CASE ReadRedis(t)
    <2>1. CASE call' = [call EXCEPT ![t].pc = "file"]
      <3>1. CallTyped([c EXCEPT !.pc = "file"])
        BY <1>1, <1>4 DEF ReadRedis, CallTyped, CallState, Writing
      <3> QED
        BY <1>1, <1>3, <2>1, <3>1
    <2>2. CASE /\ redis[c.url] # None
               /\ call' = [call EXCEPT ![t].pc = "decide", ![t].entry = redis[call[t].url].entry]
      <3>1. redis[c.url].entry \in Entry
        BY <1>1, <1>4, <2>2 DEF ReadRedis, CallTyped, TypeInv, CacheTyped, StoresTyped
      <3>2. CallTyped([c EXCEPT !.pc = "decide", !.entry = redis[c.url].entry])
        BY <1>1, <1>4, <3>1 DEF ReadRedis, CallTyped, CallState, Writing
      <3> QED
        BY <1>1, <1>3, <2>2, <3>2
    <2> QED
      BY <1>1, <1>2, <1>4, <2>1, <2>2 DEF ReadRedis
  <1>5. CASE ReadFile(t)
    <2> DEFINE found == file[FileOf[c.url]]
               e == IF found = Garbled THEN None ELSE found
    <2>1. e \in Entry \union {None}
      BY <1>1, <1>5 DEF ReadFile, CallTyped, TypeInv, CacheTyped, StoresTyped, CacheFile
    <2>2. call' = [call EXCEPT ![t] = [c EXCEPT !.pc = "decide", !.entry = e]]
      BY <1>1, <1>5 DEF ReadFile
    <2> HIDE DEF e
    <2>3. CallTyped([c EXCEPT !.pc = "decide", !.entry = e])
      BY <1>1, <1>5, <2>1 DEF ReadFile, CallTyped, CallState, Writing
    <2> QED
      BY <2>2, <2>3
  <1>6. CASE Decide(t)
    <2>1. CallTyped([c EXCEPT !.pc = "fetch", !.kind = "revalidate"])
      BY <1>1, <1>6 DEF Decide, CallTyped, CallState, Writing
    <2>2. CallTyped([c EXCEPT !.pc = "fetch", !.start = now])
      BY <1>1, <1>6 DEF Decide, CallTyped, CallState, Writing
    <2>3. \/ call' = [call EXCEPT ![t] = [c EXCEPT !.pc = "fetch", !.kind = "revalidate"]]
          \/ call' = [call EXCEPT ![t] = [c EXCEPT !.pc = "fetch", !.start = now]]
          \/ call' = [call EXCEPT ![t] = IdleCall]
      BY <1>1, <1>6 DEF Decide
    <2> QED
      BY <1>2, <2>1, <2>2, <2>3
  <1>7. CASE FetchFails(t)
    <2>1. CASE c.tries < Retries
      <3>1. c.tries + 1 \in 0 .. Retries
        BY <1>1, <2>1, CacheAssumption DEF CallState
      <3>2. CallTyped([c EXCEPT !.tries = c.tries + 1])
        BY <1>1, <1>7, <3>1 DEF FetchFails, CallTyped, CallState, Writing
      <3>3. call' = [call EXCEPT ![t] = [c EXCEPT !.tries = c.tries + 1]]
        BY <1>1, <1>7, <2>1 DEF FetchFails
      <3> QED
        BY <3>2, <3>3
    <2>2. CASE ~(c.tries < Retries)
      BY <1>1, <1>2, <1>7, <2>2 DEF FetchFails
    <2> QED
      BY <2>1, <2>2
  <1>8. CASE Answer(t)
    <2>1. PICK r \in Answers(c.url, EtagOf(c.entry)) \union Failures :
             call' = [call EXCEPT ![t] = [c EXCEPT !.pc = "body", !.response = r, !.tries = 0]]
      <3>1. \E r \in Answers(c.url, EtagOf(c.entry)) \union Failures :
               call' = [call EXCEPT ![t].pc = "body", ![t].response = r, ![t].tries = 0]
        BY <1>1, <1>8 DEF Answer
      <3>2. PICK r \in Answers(c.url, EtagOf(c.entry)) \union Failures :
               call' = [call EXCEPT ![t].pc = "body", ![t].response = r, ![t].tries = 0]
        BY <3>1
      <3>3. call' = [call EXCEPT ![t] = [c EXCEPT !.pc = "body", !.response = r, !.tries = 0]]
        BY <1>1, <3>2
      <3> QED
        BY <3>3
    <2>2. r \in Response /\ (r.same => c.entry \in Entry)
      <3>1. c.url \in Url
        BY <1>1, <1>8 DEF Answer, CallTyped
      <3>2. origin[c.url] \in Version
        BY <3>1 DEF TypeInv, CacheTyped, HistoryTyped
      <3>3. ASSUME NEW b \in {Junk, NotJson}, r = [same |-> FALSE, body |-> b, etag |-> None]
            PROVE  r \in Response /\ ~r.same
        BY <3>3 DEF Response, Data
      <3>4. CASE r = [same |-> TRUE, body |-> origin[c.url], etag |-> EtagOf(c.entry)]
                 /\ EtagOf(c.entry) = origin[c.url]
        <4>1. r \in Response
          BY <3>2, <3>4 DEF Response, Data
        <4>2. c.entry # None
          BY <3>2, <3>4, CacheAssumption DEF EtagOf
        <4> QED
          BY <1>1, <4>1, <4>2 DEF CallState
      <3>5. ASSUME NEW tag \in Version \union {None},
                   r = [same |-> FALSE, body |-> origin[c.url], etag |-> tag]
            PROVE  r \in Response /\ ~r.same
        BY <3>2, <3>5 DEF Response, Data
      <3>6. CASE r \in Failures
        BY <3>3, <3>6 DEF Failures
      <3>7. CASE r \in Answers(c.url, EtagOf(c.entry))
        BY <3>2, <3>4, <3>5, <3>7 DEF Answers
      <3> QED
        BY <2>1, <3>6, <3>7
    <2>3. CallTyped([c EXCEPT !.pc = "body", !.response = r, !.tries = 0])
      BY <1>1, <1>8, <2>2, NoTries DEF Answer, CallTyped, CallState, Writing
    <2> QED
      BY <2>1, <2>3
  <1>9. CASE BodyArrives(t) /\ ~End(t)
    <2>1. /\ c.pc = "body" /\ c.response.body # NotJson
          /\ ~(c.response.same /\ c.kind = "revalidate")
          /\ call' = [call EXCEPT ![t] = [c EXCEPT !.pc = "setex", !.out = Stored(t),
                                                  !.entry = None, !.response = None, !.tries = 0]]
      BY <1>1, <1>9 DEF BodyArrives
    <2>2. Stored(t) \in Entry
      BY <1>1, <2>1, StoredTyped DEF TypeInv
    <2>3. CallTyped([c EXCEPT !.pc = "setex", !.out = Stored(t),
                              !.entry = None, !.response = None, !.tries = 0])
      BY <1>1, <2>1, <2>2, NoTries DEF CallTyped, CallState, Writing
    <2> QED
      BY <2>1, <2>3
  <1>10. CASE WriteRedis(t) \/ OpenFile(t)
    <2>1. c.pc \in Writing /\ \E pc \in Writing : call' = [call EXCEPT ![t] = [c EXCEPT !.pc = pc]]
          \/ call' = [call EXCEPT ![t] = IdleCall]
      BY <1>1, <1>10 DEF WriteRedis, OpenFile, Writing
    <2>2. c.pc \in Writing
      BY <1>1, <1>10 DEF WriteRedis, OpenFile, Writing
    <2>3. ASSUME NEW pc \in Writing PROVE CallTyped([c EXCEPT !.pc = pc])
      BY <1>1, <2>2 DEF CallTyped, CallState, Writing
    <2> QED
      BY <1>2, <2>1, <2>3
  <1>11. CASE CloseFile(t)
    BY <1>2, <1>11 DEF CloseFile
  <1> QED
    BY <1>2, <1>4, <1>5, <1>6, <1>7, <1>8, <1>9, <1>10, <1>11 DEF CallStep

LEMMA TypeStep == TypeInv /\ [Next]_vars => TypeInv'
  <1> SUFFICES ASSUME TypeInv, [Next]_vars PROVE CacheTyped'
    BY LimiterStep DEF TypeInv
  <1> USE DEF CacheTyped
  <1>1. CASE PassTime
    <2>1. UNCHANGED <<origin, file, call, arrived>> /\ now' \in 0 .. MaxTime /\ MaxTime \in Nat
      BY <1>1, LimiterStep, NowIsTyped, LimiterAssumption
         DEF PassTime, TypeInv, Tick, LimiterInv, LimiterTypeOK
    <2>2. HistoryTyped'
      BY <1>1, <2>1 DEF PassTime, TypeInv, HistoryTyped, Never
    <2>3. StoresTyped'
      BY <1>1, <2>1 DEF PassTime, TypeInv, StoresTyped
    <2> QED
      BY <2>1, <2>2, <2>3 DEF TypeInv, CallsTyped
  <1>2. ASSUME NEW u \in Url, NEW v \in Version, Publish(u, v) PROVE CacheTyped'
    <2>1. now \in 0 .. Never
      BY NowIsTyped DEF TypeInv, Never
    <2>2. HistoryTyped'
      BY <1>2, <2>1 DEF Publish, TypeInv, HistoryTyped
    <2> QED
      BY <1>2, <2>2 DEF Publish, storeVars, TypeInv, StoresTyped, CallsTyped
  <1>3. ASSUME NEW u \in Url, NEW t \in Task, LoadFeed(u, t) PROVE CacheTyped'
    <2> DEFINE c == [IdleCall EXCEPT !.pc = "redis", !.url = u]
    <2>1. CallTyped(c)
      BY IdleTyped DEF CallTyped, CallState, Writing, IdleCall
    <2>2. call' = [call EXCEPT ![t] = c]
      BY <1>3 DEF LoadFeed
    <2> HIDE DEF c
    <2>3. CallsTyped'
      BY <2>1, <2>2, CallBecomes DEF TypeInv
    <2> QED
      BY <1>3, <2>3 DEF LoadFeed, storeVars, TypeInv, StoresTyped, HistoryTyped
  <1>4. ASSUME NEW t \in Task, CallStep(t) PROVE CacheTyped'
    <2>1. CallsTyped'
      BY <1>4, CallStepTyped, CallBecomes DEF TypeInv
    <2>2. call[t] \in CallState /\ CallTyped(call[t]) /\ now \in 0 .. MaxTime
      BY NowIsTyped DEF TypeInv, CallsTyped
    <2>3. HistoryTyped'
      <3>1. CASE BodyArrives(t)
        <4>1. call[t].url \in Url /\ now \in 0 .. Never
          BY <2>2, <3>1, NowIsTyped DEF BodyArrives, CallTyped, TypeInv, Never
        <4>2. UNCHANGED <<origin, held>>
          BY <3>1 DEF BodyArrives
        <4>3. \/ arrived' = arrived
              \/ \E v \in Version : arrived' = [arrived EXCEPT ![call[t].url][v] = now]
          BY <3>1 DEF BodyArrives
        <4>4. arrived[call[t].url] \in [Version -> 0 .. Never]
          BY <4>1 DEF TypeInv, HistoryTyped
        <4>5. ASSUME NEW v \in Version
              PROVE  [arrived[call[t].url] EXCEPT ![v] = now] \in [Version -> 0 .. Never]
          BY <4>1, <4>4
        <4>6. arrived' \in [Url -> [Version -> 0 .. Never]]
          <5>1. arrived \in [Url -> [Version -> 0 .. Never]]
            BY DEF TypeInv, HistoryTyped
          <5> QED
            BY <4>1, <4>3, <4>5, <5>1
        <4> QED
          BY <4>2, <4>6 DEF TypeInv, HistoryTyped
      <3>2. CASE ~BodyArrives(t)
        <4>1. UNCHANGED <<origin, held, arrived>>
          BY <1>4, <3>2 DEF CallStep, ReadRedis, ReadFile, Decide, FetchFails, Answer, WriteRedis,
                            OpenFile, CloseFile
        <4> QED
          BY <4>1 DEF TypeInv, HistoryTyped
      <3> QED
        BY <3>1, <3>2
    <2>4. StoresTyped'
      <3>1. CASE WriteRedis(t)
        <4>1. call[t].url \in Url /\ call[t].out \in Entry /\ now + Ttl \in Nat
          BY <2>2, <3>1, NowIsTyped, CacheAssumption DEF WriteRedis, CallTyped, Writing, TypeInv
        <4>2. [entry |-> call[t].out, expires |-> now + Ttl] \in [entry : Entry, expires : Nat]
          BY <4>1
        <4> QED
          BY <3>1, <4>1, <4>2 DEF WriteRedis, TypeInv, StoresTyped
      <3>2. CASE OpenFile(t) \/ CloseFile(t)
        <4>1. FileOf[call[t].url] \in CacheFile /\ call[t].out \in Entry
          BY <2>2, <3>2 DEF OpenFile, CloseFile, CallTyped, Writing, CacheFile
        <4>2. redis' = redis
              /\ (file' = file \/ \E e \in Entry \union {None, Garbled} :
                                    file' = [file EXCEPT ![FileOf[call[t].url]] = e])
          BY <3>2, <4>1 DEF OpenFile, CloseFile
        <4> QED
          BY <4>1, <4>2 DEF TypeInv, StoresTyped
      <3>3. CASE ~(WriteRedis(t) \/ OpenFile(t) \/ CloseFile(t))
        <4>1. UNCHANGED <<file, redis>>
          BY <1>4, <3>3 DEF CallStep, ReadRedis, ReadFile, Decide, FetchFails, Answer, BodyArrives,
                            storeVars
        <4> QED
          BY <4>1 DEF TypeInv, StoresTyped
      <3> QED
        BY <3>1, <3>2, <3>3
    <2> QED
      BY <2>1, <2>3, <2>4
  <1>5. CASE Restart
    <2>1. \A t \in Task : call'[t] = IdleCall
      BY <1>5 DEF Restart
    <2>2. CallsTyped'
      BY <1>5, <2>1, IdleTyped DEF Restart, CallsTyped, CallTyped
    <2> QED
      BY <1>5, <2>2 DEF Restart, storeVars, TypeInv, StoresTyped, HistoryTyped
  <1>6. CASE UNCHANGED vars
    BY <1>6 DEF vars, storeVars, TypeInv, StoresTyped, HistoryTyped, CallsTyped
  <1> QED
    BY <1>1, <1>2, <1>3, <1>4, <1>5, <1>6 DEF Next

LEMMA TypeInit == Init => TypeInv
  <1> SUFFICES ASSUME Init PROVE TypeInv
    OBVIOUS
  <1>1. LimiterInv
    BY LimiterInitInv DEF Init
  <1>2. 0 \in 0 .. Never /\ Never \in 0 .. Never
    BY LimiterAssumption DEF Never
  <1>3. HistoryTyped
    BY <1>2 DEF Init, HistoryTyped
  <1>4. StoresTyped
    BY DEF Init, StoresTyped
  <1>5. CallsTyped
    BY IdleTyped DEF Init, CallsTyped, CallTyped
  <1> QED
    BY <1>1, <1>3, <1>4, <1>5 DEF TypeInv, CacheTyped

LEMMA TypeIsInductive == Spec => []TypeInv
  BY TypeInit, TypeStep, PTL DEF Spec

(* Every reachable state is of its type: a call that writes has an entry   *)
(* to write, also when the origin answered 304 or an error page            *)
(* (cache.ts:82-172).                                                      *)
THEOREM CacheTypeCorrect == Spec => []TypeOK
  <1>1. TypeInv => TypeOK
    <2> SUFFICES ASSUME TypeInv PROVE TypeOK
      OBVIOUS
    <2>1. \A t \in Task : /\ call[t].pc # "idle" => call[t].url # None
                          /\ call[t].pc \in {"setex", "open", "close"} => call[t].out # None
      BY CacheAssumption DEF TypeInv, CacheTyped, CallsTyped, CallTyped, Writing
    <2> QED
      BY <2>1 DEF TypeInv, CacheTyped, LimiterInv, StoresTyped, HistoryTyped, CallsTyped, TypeOK
  <1> QED
    BY <1>1, TypeIsInductive, PTL

(* The cache asks the limiter before every request, and after a restart    *)
(* too no window holds more attempts of the process than MaxAttempts       *)
(* (feed.ts:35-38, cache.ts:145-156).                                      *)
THEOREM CacheKeepsRate == Spec => []RateBound
  <1>1. TypeInv => RateBound
    BY DEF TypeInv, LimiterInv
  <1> QED
    BY <1>1, TypeIsInductive, PTL

-----------------------------------------------------------------------------
(* What the history keeps                                                  *)

Later ==
    /\ now <= now'
    /\ \A u \in Url, v \in Version :
          /\ held[u][v] <= now => held'[u][v] \in held[u][v] .. now'
          /\ arrived[u][v] <= now => arrived'[u][v] \in arrived[u][v] .. now'

LEMMA HistoryNumbers ==
  ASSUME TypeInv, NEW u \in Url, NEW v \in Version
  PROVE  /\ held[u][v] \in Nat /\ arrived[u][v] \in Nat
         /\ now \in Nat /\ MaxTime \in Nat /\ now <= MaxTime
  BY NowIsTyped DEF TypeInv, CacheTyped, HistoryTyped, Never

LEMMA HistoryGrows ==
  ASSUME TypeInv, [Next]_vars
  PROVE  Later
  <1>1. ASSUME UNCHANGED <<now, held, arrived>> PROVE Later
    BY <1>1, HistoryNumbers, NowIsTyped DEF Later, TypeInv
  <1>2. CASE PassTime
    <2>1. now' = now + 1 /\ UNCHANGED arrived /\ now \in Nat
      BY <1>2, NowIsTyped DEF PassTime, Tick, TypeInv
    <2>2. ASSUME NEW u \in Url, NEW v \in Version
          PROVE  held'[u][v] = IF v = origin[u] THEN now' ELSE held[u][v]
      BY <1>2 DEF PassTime, TypeInv, CacheTyped, HistoryTyped
    <2> QED
      BY <2>1, <2>2, HistoryNumbers DEF Later
  <1>3. ASSUME NEW u \in Url, NEW v \in Version, Publish(u, v) PROVE Later
    <2>1. UNCHANGED <<now, arrived>>
      BY <1>3 DEF Publish, limiterVars
    <2>2. ASSUME NEW w \in Url, NEW x \in Version
          PROVE  held'[w][x] = IF w = u /\ x = v THEN now ELSE held[w][x]
      BY <1>3 DEF Publish, TypeInv, CacheTyped, HistoryTyped
    <2> QED
      BY <2>1, <2>2, HistoryNumbers, NowIsTyped DEF Later, TypeInv
  <1>4. ASSUME NEW u \in Url, NEW t \in Task, LoadFeed(u, t) PROVE Later
    BY <1>1, <1>4 DEF LoadFeed, limiterVars
  <1>5. ASSUME NEW t \in Task, CallStep(t) PROVE Later
    <2>1. UNCHANGED <<now, held>>
      BY <1>5 DEF CallStep, ReadRedis, ReadFile, Decide, Permit, Refuse, FetchFails, Answer,
                  BodyArrives, WriteRedis, OpenFile, CloseFile, limiterVars
    <2>2. CASE ~BodyArrives(t)
      <3>1. UNCHANGED arrived
        BY <1>5, <2>2 DEF CallStep, ReadRedis, ReadFile, Decide, FetchFails, Answer,
                          WriteRedis, OpenFile, CloseFile
      <3> QED
        BY <1>1, <2>1, <3>1
    <2>3. CASE BodyArrives(t)
      <3>1. \A u \in Url, v \in Version : arrived'[u][v] \in {arrived[u][v], now}
        BY <2>3 DEF BodyArrives, TypeInv, CacheTyped, HistoryTyped
      <3> QED
        BY <2>1, <3>1, HistoryNumbers, NowIsTyped DEF Later, TypeInv
    <2> QED
      BY <2>2, <2>3
  <1>6. CASE Restart
    BY <1>1, <1>6 DEF Restart
  <1>7. CASE UNCHANGED vars
    BY <1>1, <1>7 DEF vars, limiterVars
  <1> QED
    BY <1>2, <1>3, <1>4, <1>5, <1>6, <1>7 DEF Next

LEMMA SoundStays ==
  ASSUME TypeInv, TypeInv', Later, NEW u \in Url, NEW e, Sound(u, e)
  PROVE  Sound(u, e)'
  <1> SUFFICES ASSUME e \in Entry, e.data \in Version
               PROVE  e.etag = e.data /\ arrived'[u][e.data] \in e.at .. now'
    BY DEF Sound
  <1>1. e.etag = e.data /\ arrived[u][e.data] \in e.at .. now /\ e.at \in Int
    BY DEF Sound, Entry
  <1>2. arrived[u][e.data] \in Nat /\ arrived'[u][e.data] \in Nat /\ now \in Nat /\ now' \in Nat
    <2>1. arrived[u][e.data] \in Nat /\ arrived'[u][e.data] \in Nat
      BY DEF TypeInv, CacheTyped, HistoryTyped, Never
    <2>2. now \in Nat /\ now' \in Nat
      BY DEF TypeInv, LimiterInv, LimiterTypeOK
    <2> QED
      BY <2>1, <2>2
  <1>3. arrived'[u][e.data] \in arrived[u][e.data] .. now'
    BY <1>1, <1>2 DEF Later
  <1> QED
    BY <1>1, <1>2, <1>3

LEMMA CurrentStays ==
  ASSUME TypeInv, TypeInv', Later, NEW u \in Url, NEW d, NEW start \in Nat, Current(u, d, start)
  PROVE  Current(u, d, start)'
  <1> SUFFICES ASSUME d \in Version PROVE held'[u][d] \in start .. now'
    BY DEF Current
  <1>1. held[u][d] \in start .. now /\ held[u][d] \in Nat /\ held'[u][d] \in Nat
    BY DEF Current, TypeInv, CacheTyped, HistoryTyped, Never
  <1>2. now \in Nat /\ now' \in Nat
    BY DEF TypeInv, LimiterInv, LimiterTypeOK
  <1>3. held'[u][d] \in held[u][d] .. now'
    BY <1>1, <1>2 DEF Later
  <1> QED
    BY <1>1, <1>2, <1>3

LEMMA CallStays ==
  ASSUME TypeInv, TypeInv', Later, NEW c, CallTyped(c), CallSound(c)
  PROVE  CallSound(c)'
  <1> SUFFICES ASSUME c.pc # "idle"
               PROVE  /\ c.start <= now'
                      /\ Sound(c.url, c.entry)' /\ Sound(c.url, c.out)'
                      /\ c.pc = "body" => AnswerSound(c)'
                      /\ c.pc \in Writing /\ c.kind = "load" => Current(c.url, c.out.data, c.start)'
    BY DEF CallSound
  <1>1. c.url \in Url /\ c.start \in Nat /\ now \in Nat /\ now' \in Nat
    BY DEF CallTyped, CallState, TypeInv, LimiterInv, LimiterTypeOK
  <1>2. c.start <= now'
    BY <1>1 DEF CallSound, Later
  <1>3. Sound(c.url, c.entry)' /\ Sound(c.url, c.out)'
    BY <1>1, SoundStays DEF CallSound
  <1>4. ASSUME c.pc = "body" PROVE AnswerSound(c)'
    BY <1>1, <1>4, CurrentStays DEF CallSound, AnswerSound
  <1>5. ASSUME c.pc \in Writing, c.kind = "load" PROVE Current(c.url, c.out.data, c.start)'
    BY <1>1, <1>5, CurrentStays DEF CallSound
  <1> QED
    BY <1>2, <1>3, <1>4, <1>5

LEMMA NoEntry == ASSUME NEW u PROVE Sound(u, None) /\ Sound(u, Garbled)
  BY CacheAssumption DEF Sound

-----------------------------------------------------------------------------
(* What a step of a call makes of it                                       *)

AlwaysTagged == TwoHeaders = {TRUE}
OwnFiles == \A u, w \in Url : FileOf[u] = FileOf[w] => u = w

\* What an origin answers, it holds now.
LEMMA AnswersAreCurrent ==
  ASSUME AlwaysTagged, TypeInv, CacheSound, NEW u \in Url, NEW etag, NEW start \in Nat, start <= now,
         NEW r \in Answers(u, etag) \union Failures
  PROVE  /\ r.body \in Version => r.etag = r.body
         /\ r.same => etag = r.body /\ r.body \in Version
         /\ Current(u, r.body, start)
  <1>1. origin[u] \in Version /\ held[u][origin[u]] = now /\ now \in Nat
    BY NowIsTyped DEF TypeInv, CacheTyped, HistoryTyped, CacheSound
  <1>2. CASE r \in Failures
    BY <1>2, CacheAssumption DEF Failures, Current
  <1>3. CASE r \in Answers(u, etag)
    <2>1. /\ r.body = origin[u] /\ r.etag = origin[u]
          /\ r.same => etag = r.body
      BY <1>3 DEF Answers, AlwaysTagged
    <2> QED
      BY <1>1, <2>1 DEF Current
  <1> QED
    BY <1>2, <1>3

\* A step other than the arrival of a body: the call knows no more than an
\* entry it found or an answer it got.
LEMMA CallStepSound ==
  ASSUME AlwaysTagged, TypeInv, CacheSound, NEW t \in Task, CallStep(t), ~BodyArrives(t)
  PROVE  \E c : CallTyped(c) /\ CallSound(c) /\ call' = [call EXCEPT ![t] = c]
  <1> USE DEF Step, End
  <1>1. PICK c \in CallState : c = call[t] /\ CallTyped(c) /\ CallSound(c)
    BY DEF TypeInv, CacheTyped, CallsTyped, CacheSound
  <1>2. now \in 0 .. MaxTime
    BY NowIsTyped DEF TypeInv
  <1>3. PICK d : CallTyped(d) /\ call' = [call EXCEPT ![t] = d]
    BY CallStepTyped
  <1>4. SUFFICES CallSound(d)
    BY <1>3
  <1>5. d = call'[t]
    BY <1>3 DEF TypeInv, CacheTyped, CallsTyped
  <1>6. CASE d = IdleCall
    BY <1>6, IdleTyped DEF CallSound
  <1>7. c.pc # "idle" => c.url \in Url /\ c.start <= now /\ Sound(c.url, c.entry) /\ Sound(c.url, c.out)
    BY <1>1 DEF CallTyped, CallSound
  <1>8. CASE ReadRedis(t)
    <2>1. CASE d = [c EXCEPT !.pc = "file"]
      BY <1>1, <1>7, <1>8, <2>1 DEF ReadRedis, CallSound, Writing
    <2>2. CASE redis[c.url] # None /\ d = [c EXCEPT !.pc = "decide", !.entry = redis[c.url].entry]
      <3>1. Sound(c.url, redis[c.url].entry)
        BY <1>1, <1>7, <1>8, <2>2 DEF ReadRedis, CacheSound, StoresSound
      <3> QED
        BY <1>1, <1>7, <1>8, <2>2, <3>1 DEF ReadRedis, CallSound, Writing
    <2> QED
      BY <1>1, <1>5, <1>6, <1>8, <2>1, <2>2 DEF ReadRedis, TypeInv, CacheTyped, CallsTyped
  <1>9. CASE ReadFile(t)
    <2> DEFINE found == file[FileOf[c.url]]
               e == IF found = Garbled THEN None ELSE found
    <2>1. c.pc = "file" /\ d = [c EXCEPT !.pc = "decide", !.entry = e]
      BY <1>1, <1>5, <1>9 DEF ReadFile, TypeInv, CacheTyped, CallsTyped
    <2>2. Sound(c.url, e)
      BY <1>7, <2>1, NoEntry DEF CacheSound, StoresSound
    <2> HIDE DEF e
    <2> QED
      BY <1>7, <2>1, <2>2 DEF CallSound, Writing
  <1>10. CASE Decide(t)
    <2>1. c.pc = "decide"
      BY <1>1, <1>10 DEF Decide
    <2>2. CASE d = [c EXCEPT !.pc = "fetch", !.kind = "revalidate"]
      BY <1>7, <2>1, <2>2 DEF CallSound, Writing
    <2>3. CASE d = [c EXCEPT !.pc = "fetch", !.start = now]
      BY <1>2, <1>7, <2>1, <2>3 DEF CallSound, Writing
    <2> QED
      BY <1>1, <1>5, <1>6, <1>10, <2>2, <2>3 DEF Decide, TypeInv, CacheTyped, CallsTyped
  <1>11. CASE FetchFails(t)
    <2>1. c.pc = "fetch" /\ (d = [c EXCEPT !.tries = c.tries + 1] \/ d = IdleCall)
      BY <1>1, <1>5, <1>11 DEF FetchFails, TypeInv, CacheTyped, CallsTyped
    <2>2. CASE d = [c EXCEPT !.tries = c.tries + 1]
      BY <1>7, <2>1, <2>2 DEF CallSound, Writing
    <2> QED
      BY <1>6, <2>1, <2>2
  <1>12. CASE Answer(t)
    <2>1. PICK r \in Answers(c.url, EtagOf(c.entry)) \union Failures :
             c.pc = "fetch" /\ d = [c EXCEPT !.pc = "body", !.response = r, !.tries = 0]
      BY <1>1, <1>5, <1>12 DEF Answer, TypeInv, CacheTyped, CallsTyped
    <2>2. c.url \in Url /\ c.start \in Nat /\ c.start <= now
      BY <1>1, <1>7, <2>1 DEF CallState
    <2>3. /\ r.body \in Version => r.etag = r.body
          /\ r.same => EtagOf(c.entry) = r.body /\ r.body \in Version
          /\ Current(c.url, r.body, c.start)
      BY <2>1, <2>2, AnswersAreCurrent
    <2>4. r.same => c.entry.etag = r.body
      BY <2>3, CacheAssumption DEF EtagOf
    <2>5. /\ d.pc = "body" /\ d.response = r /\ d.url = c.url /\ d.start = c.start
          /\ d.entry = c.entry /\ d.out = c.out
      BY <2>1
    <2>6. AnswerSound(d)
      BY <2>3, <2>4, <2>5 DEF AnswerSound
    <2> QED
      BY <1>7, <2>1, <2>5, <2>6 DEF CallSound, Writing
  <1>13. CASE WriteRedis(t) \/ OpenFile(t)
    <2>1. c.pc \in Writing /\ (d = IdleCall \/ \E pc \in Writing : d = [c EXCEPT !.pc = pc])
      BY <1>1, <1>5, <1>13 DEF WriteRedis, OpenFile, Writing, TypeInv, CacheTyped, CallsTyped
    <2>2. ASSUME NEW pc \in Writing, d = [c EXCEPT !.pc = pc] PROVE CallSound(d)
      BY <1>1, <1>7, <2>1, <2>2 DEF CallSound, Writing
    <2> QED
      BY <1>6, <2>1, <2>2
  <1>14. CASE CloseFile(t)
    BY <1>1, <1>5, <1>6, <1>14 DEF CloseFile, TypeInv, CacheTyped, CallsTyped
  <1> QED
    BY <1>8, <1>9, <1>10, <1>11, <1>12, <1>13, <1>14 DEF CallStep

\* A body has arrived: what is stored is as old as the call says, because the
\* origin sent or confirmed it in this very step.
LEMMA ArrivalSound ==
  ASSUME TypeInv, TypeInv', Later, CacheSound, NEW t \in Task, BodyArrives(t)
  PROVE  \E c : CallTyped(c) /\ CallSound(c)' /\ call' = [call EXCEPT ![t] = c]
  <1> USE DEF End
  <1>1. PICK c \in CallState : c = call[t] /\ CallTyped(c) /\ CallSound(c)
    BY DEF TypeInv, CacheTyped, CallsTyped, CacheSound
  <1>2. PICK r \in Response : r = c.response
    BY <1>1 DEF BodyArrives, CallTyped
  <1>3. /\ c.pc = "body" /\ c.url \in Url /\ c.start \in Nat /\ c.start <= now
        /\ UNCHANGED <<now, held>> /\ now \in Nat
    <2>1. c.pc = "body" /\ UNCHANGED <<now, held>>
      BY <1>1 DEF BodyArrives, limiterVars
    <2>2. now \in Nat
      BY NowIsTyped DEF TypeInv
    <2>3. c.url \in Url /\ c.start \in Nat /\ c.start <= now
      BY <1>1, <2>1 DEF CallTyped, CallSound, CallState
    <2> QED
      BY <2>1, <2>2, <2>3
  <1>4. /\ r.body \in Version => r.etag = r.body
        /\ r.same => c.entry \in Entry /\ c.entry.etag = r.body /\ r.body \in Version
        /\ Current(c.url, r.body, c.start)
    BY <1>1, <1>2, <1>3 DEF CallTyped, CallSound, AnswerSound
  <1>5. r.body \in Version => arrived'[c.url][r.body] = now
    BY <1>1, <1>2, <1>3 DEF BodyArrives, TypeInv, CacheTyped, HistoryTyped
  <1>6. CASE call' = [call EXCEPT ![t] = IdleCall]
    BY <1>6, IdleTyped DEF CallSound
  <1>7. CASE ~(call' = [call EXCEPT ![t] = IdleCall])
    <2>1. /\ r.body # NotJson /\ ~(r.same /\ c.kind = "revalidate")
          /\ call' = [call EXCEPT ![t] = [c EXCEPT !.pc = "setex", !.out = Stored(t),
                                                  !.entry = None, !.response = None, !.tries = 0]]
      BY <1>1, <1>2, <1>7 DEF BodyArrives
    <2>2. PICK e : e = Stored(t) /\ e \in Entry
      BY <1>1, <1>2, <1>3, <2>1, StoredTyped DEF TypeInv
    <2>3. e.data \in Version => e.data = r.body /\ e.etag = r.body
      <3>1. CASE c.kind = "revalidate"
        <4>1. e = [data |-> r.body, at |-> now, etag |-> r.etag]
          BY <1>1, <1>2, <2>1, <2>2, <3>1 DEF Stored
        <4> QED
          BY <1>4, <4>1
      <3>2. CASE c.kind # "revalidate" /\ r.same
        <4>1. e = [c.entry EXCEPT !.at = c.start] /\ c.entry \in Entry
          BY <1>1, <1>2, <1>4, <2>2, <3>2 DEF Stored
        <4>2. e.data = c.entry.data /\ e.etag = c.entry.etag
          BY <4>1 DEF Entry
        <4>3. e.data \in Version => c.entry.etag = c.entry.data
          BY <1>1, <1>3, <4>1, <4>2 DEF CallSound, Sound
        <4> QED
          BY <1>4, <3>2, <4>2, <4>3
      <3>3. CASE c.kind # "revalidate" /\ ~r.same
        BY <1>1, <1>2, <1>4, <2>2, <3>3, CacheAssumption DEF Stored
      <3> QED
        BY <3>1, <3>2, <3>3
    <2>4. e.at = IF c.kind = "revalidate" THEN now ELSE c.start
      <3>1. CASE c.kind = "revalidate"
        <4>1. e = [data |-> r.body, at |-> now, etag |-> r.etag]
          BY <1>1, <1>2, <2>1, <2>2, <3>1 DEF Stored
        <4> QED
          BY <3>1, <4>1
      <3>2. CASE c.kind # "revalidate"
        BY <1>1, <1>2, <1>4, <2>2, <3>2 DEF Stored, Entry
      <3> QED
        BY <3>1, <3>2
    <2>5. e.at <= now
      BY <1>3, <2>4
    <2>6. Sound(c.url, e)'
      <3>1. ASSUME e.data \in Version PROVE arrived'[c.url][e.data] = now
        BY <1>5, <2>3, <3>1
      <3>2. e.at \in Nat
        BY <2>2 DEF Entry
      <3> QED
        BY <1>3, <2>3, <2>5, <3>1, <3>2 DEF Sound
    <2>7. Current(c.url, e.data, c.start)'
      BY <1>3, <1>4, <2>3 DEF Current
    <2>8. PICK d : d = [c EXCEPT !.pc = "setex", !.out = e, !.entry = None, !.response = None, !.tries = 0]
      OBVIOUS
    <2>9. /\ d.pc = "setex" /\ d.kind = c.kind /\ d.url = c.url /\ d.start = c.start
          /\ d.entry = None /\ d.out = e
      BY <2>8
    <2>10. CallTyped(d)
      BY <1>1, <1>3, <2>2, <2>8, <2>9, NoTries DEF CallTyped, CallState, Writing
    <2>11. Sound(c.url, None)'
      BY NoEntry, CacheAssumption DEF Sound
    <2>12. CallSound(d)'
      BY <1>3, <2>6, <2>7, <2>9, <2>11 DEF CallSound, Writing
    <2> QED
      BY <2>1, <2>2, <2>8, <2>10, <2>12
  <1> QED
    BY <1>6, <1>7

-----------------------------------------------------------------------------
(* Every step keeps what is in the stores and in the calls sound           *)

LEMMA StoresStay ==
  ASSUME TypeInv, TypeInv', Later, CacheSound, UNCHANGED <<file, redis>>
  PROVE  StoresSound'
  <1> SUFFICES ASSUME NEW u \in Url
               PROVE  /\ Sound(u, file[FileOf[u]])'
                      /\ redis'[u] # None => Sound(u, redis[u].entry)'
    BY DEF StoresSound
  <1>1. PICK e : e = file[FileOf[u]]
    OBVIOUS
  <1>2. Sound(u, e)'
    BY <1>1, SoundStays DEF CacheSound, StoresSound
  <1>3. PICK d : d = redis[u].entry
    OBVIOUS
  <1>4. redis[u] # None => Sound(u, d)'
    BY <1>3, SoundStays DEF CacheSound, StoresSound
  <1> QED
    BY <1>1, <1>2, <1>3, <1>4 DEF Sound

LEMMA StoresStep ==
  ASSUME OwnFiles, TypeInv, TypeInv', Later, CacheSound, [Next]_vars
  PROVE  StoresSound'
  <1>1. CASE UNCHANGED <<file, redis>>
    BY <1>1, StoresStay
  <1>2. CASE PassTime
    <2>1. UNCHANGED file /\ \A u \in Url : redis'[u] # None => redis'[u] = redis[u]
      BY <1>2 DEF PassTime
    <2>2. ASSUME NEW u \in Url, NEW e, Sound(u, e) PROVE Sound(u, e)'
      BY <2>2, SoundStays
    <2>3. ASSUME NEW u \in Url PROVE \A e : e = file[FileOf[u]] => Sound(u, e)'
      BY <2>2 DEF CacheSound, StoresSound
    <2>4. ASSUME NEW u \in Url, redis[u] # None PROVE \A e : e = redis[u].entry => Sound(u, e)'
      BY <2>2, <2>4 DEF CacheSound, StoresSound
    <2> QED
      BY <2>1, <2>3, <2>4 DEF StoresSound, Sound
  <1>3. ASSUME NEW t \in Task, WriteRedis(t) \/ OpenFile(t) \/ CloseFile(t) PROVE StoresSound'
    <2>1. PICK c \in CallState : c = call[t] /\ CallTyped(c) /\ CallSound(c)
      BY DEF TypeInv, CacheTyped, CallsTyped, CacheSound
    <2>2. c.url \in Url /\ Sound(c.url, c.out) /\ FileOf[c.url] \in CacheFile
      BY <1>3, <2>1 DEF WriteRedis, OpenFile, CloseFile, CallTyped, CallSound, CacheFile
    <2>3. /\ \/ file' = file
             \/ \E e \in {Garbled, c.out} : file' = [file EXCEPT ![FileOf[c.url]] = e]
          /\ \/ redis' = redis
             \/ redis' = [redis EXCEPT ![c.url] = [entry |-> c.out, expires |-> now + Ttl]]
      BY <1>3, <2>1 DEF WriteRedis, OpenFile, CloseFile
    <2>4. ASSUME NEW u \in Url PROVE Sound(u, file'[FileOf[u]])
      <3>1. FileOf[u] \in CacheFile /\ Sound(u, file[FileOf[u]])
        BY DEF CacheFile, CacheSound, StoresSound
      <3>2. CASE u = c.url
        BY <2>2, <2>3, <3>1, <3>2, NoEntry DEF TypeInv, CacheTyped, StoresTyped
      <3>3. CASE u # c.url
        BY <2>2, <2>3, <3>1, <3>3 DEF OwnFiles, TypeInv, CacheTyped, StoresTyped
      <3> QED
        BY <3>2, <3>3
    <2>5. ASSUME NEW u \in Url, redis'[u] # None PROVE Sound(u, redis'[u].entry)
      <3>1. redis[u] # None => Sound(u, redis[u].entry)
        BY DEF CacheSound, StoresSound
      <3> QED
        BY <2>2, <2>3, <2>5, <3>1 DEF TypeInv, CacheTyped, StoresTyped
    <2>6. ASSUME NEW u \in Url, NEW e, Sound(u, e) PROVE Sound(u, e)'
      BY <2>6, SoundStays
    <2>7. ASSUME NEW u \in Url PROVE \A e : e = file'[FileOf[u]] => Sound(u, e)'
      BY <2>4, <2>6
    <2>8. ASSUME NEW u \in Url, redis'[u] # None PROVE \A e : e = redis'[u].entry => Sound(u, e)'
      BY <2>5, <2>6, <2>8
    <2> QED
      BY <2>7, <2>8 DEF StoresSound, Sound
  <1>4. PassTime \/ UNCHANGED <<file, redis>>
        \/ \E t \in Task : WriteRedis(t) \/ OpenFile(t) \/ CloseFile(t)
    BY DEF Next, Publish, LoadFeed, CallStep, ReadRedis, ReadFile, Decide, FetchFails, Answer,
           BodyArrives, Restart, storeVars, vars
  <1> QED
    BY <1>1, <1>2, <1>3, <1>4

LEMMA CallsStep ==
  ASSUME AlwaysTagged, TypeInv, TypeInv', Later, CacheSound, [Next]_vars
  PROVE  \A t \in Task : CallSound(call[t])'
  <1>1. ASSUME NEW t \in Task PROVE \A c : c = call[t] => CallSound(c)'
    BY CallStays DEF TypeInv, CacheTyped, CallsTyped, CacheSound
  <1>2. ASSUME UNCHANGED call PROVE \A t \in Task : \A c : c = call'[t] => CallSound(c)'
    BY <1>1, <1>2
  <1>3. ASSUME NEW t \in Task, NEW c, CallSound(c)', call' = [call EXCEPT ![t] = c]
        PROVE  \A s \in Task : \A d : d = call'[s] => CallSound(d)'
    BY <1>1, <1>3 DEF TypeInv, CacheTyped, CallsTyped
  <1>4. \A t \in Task : \A c : c = call'[t] => CallSound(c)'
    <2>1. CASE PassTime \/ UNCHANGED vars \/ \E u \in Url, v \in Version : Publish(u, v)
      BY <1>2, <2>1 DEF PassTime, vars, Publish
    <2>2. ASSUME NEW u \in Url, NEW t \in Task, LoadFeed(u, t)
          PROVE  \E c : CallSound(c)' /\ call' = [call EXCEPT ![t] = c]
      <3>1. PICK c : c = [IdleCall EXCEPT !.pc = "redis", !.url = u]
        OBVIOUS
      <3>2. c.pc = "redis" /\ c.url = u /\ c.start = 0 /\ c.entry = None /\ c.out = None
        BY <3>1 DEF IdleCall
      <3>3. 0 <= now'
        BY DEF TypeInv, LimiterInv, LimiterTypeOK
      <3>4. Sound(u, None)'
        BY CacheAssumption DEF Sound
      <3>5. CallSound(c)'
        BY <3>2, <3>3, <3>4 DEF CallSound, Writing
      <3> QED
        BY <2>2, <3>1, <3>5 DEF LoadFeed
    <2>3. ASSUME NEW t \in Task, CallStep(t)
          PROVE  \E c : CallSound(c)' /\ call' = [call EXCEPT ![t] = c]
      <3>1. CASE BodyArrives(t)
        BY <3>1, ArrivalSound
      <3>2. CASE ~BodyArrives(t)
        <4>1. PICK c : CallTyped(c) /\ CallSound(c) /\ call' = [call EXCEPT ![t] = c]
          BY <2>3, <3>2, CallStepSound
        <4> QED
          BY <4>1, CallStays
      <3> QED
        BY <3>1, <3>2
    <2>4. CASE Restart
      BY <2>4, IdleTyped DEF Restart, CallSound
    <2> QED
      BY <1>3, <2>1, <2>2, <2>3, <2>4 DEF Next
  <1> QED
    BY <1>4 DEF CallSound, AnswerSound, Sound, Current

LEMMA HeldStep ==
  ASSUME TypeInv, CacheSound, [Next]_vars, NEW u \in Url
  PROVE  held'[u][origin'[u]] = now'
  <1>1. held[u][origin[u]] = now /\ origin[u] \in Version
    BY DEF CacheSound, TypeInv, CacheTyped, HistoryTyped
  <1>2. CASE PassTime
    BY <1>2, <1>1 DEF PassTime, TypeInv, CacheTyped, HistoryTyped
  <1>3. ASSUME NEW w \in Url, NEW v \in Version, Publish(w, v) PROVE held'[u][origin'[u]] = now'
    BY <1>3, <1>1 DEF Publish, limiterVars, TypeInv, CacheTyped, HistoryTyped
  <1>4. CASE UNCHANGED <<now, held, origin>>
    BY <1>1, <1>4
  <1>5. PassTime \/ (\E w \in Url, v \in Version : Publish(w, v)) \/ UNCHANGED <<now, held, origin>>
    BY DEF Next, LoadFeed, CallStep, ReadRedis, ReadFile, Decide, Permit, Refuse, FetchFails, Answer,
           BodyArrives, WriteRedis, OpenFile, CloseFile, Restart, limiterVars, vars
  <1> QED
    BY <1>2, <1>3, <1>4, <1>5

-----------------------------------------------------------------------------
(* What a load returns                                                     *)

LEMMA ServedStep ==
  ASSUME TypeInv, CacheSound, ServedRecent, FetchedIsCurrent, [Next]_vars
  PROVE  ServedRecent' /\ FetchedIsCurrent'
  <1>1. ASSUME result' = None PROVE ServedRecent' /\ FetchedIsCurrent'
    BY <1>1 DEF ServedRecent, FetchedIsCurrent
  <1>2. CASE UNCHANGED vars
    BY <1>2 DEF vars, ServedRecent, FetchedIsCurrent
  <1>3. ASSUME NEW t \in Task, Decide(t) PROVE ServedRecent' /\ FetchedIsCurrent'
    <2>1. PICK c \in CallState : c = call[t] /\ CallTyped(c) /\ CallSound(c)
      BY DEF TypeInv, CacheTyped, CallsTyped, CacheSound
    <2>2. c.pc = "decide" /\ UNCHANGED <<held, arrived>>
      BY <1>3, <2>1 DEF Decide
    <2>3. CASE Fresh(c.entry) /\ c.entry.data \in Version
      <3>1. c.url \in Url /\ c.entry \in Entry /\ Sound(c.url, c.entry)
        BY <2>1, <2>2, <2>3 DEF CallTyped, CallSound, CallState, Fresh
      <3>2. result' = [url |-> c.url, data |-> c.entry.data, start |-> now, via |-> "cache"]
        BY <1>3, <2>1, <2>3 DEF Decide, Returned
      <3>3. c.entry.at \in Nat /\ now \in Nat /\ Ttl \in Nat /\ MaxTime \in Nat /\ now <= MaxTime
        BY <3>1, NowIsTyped, CacheAssumption DEF Entry, TypeInv
      <3>4. arrived[c.url][c.entry.data] \in c.entry.at .. now /\ now <= c.entry.at + Ttl
        BY <2>3, <3>1, <3>3 DEF Sound, Fresh
      <3>5. /\ arrived[c.url][c.entry.data] # Never
            /\ arrived[c.url][c.entry.data] + Ttl >= now
        BY <3>3, <3>4 DEF Never
      <3> QED
        BY <2>2, <3>2, <3>5 DEF ServedRecent, FetchedIsCurrent
    <2>4. CASE ~(Fresh(c.entry) /\ c.entry.data \in Version)
      <3>1. result' = None
        BY <1>3, <2>1, <2>4 DEF Decide, Returned
      <3> QED
        BY <1>1, <3>1
    <2> QED
      BY <2>3, <2>4
  <1>4. ASSUME NEW t \in Task, CloseFile(t) PROVE ServedRecent' /\ FetchedIsCurrent'
    <2>1. PICK c \in CallState : c = call[t] /\ CallTyped(c) /\ CallSound(c)
      BY DEF TypeInv, CacheTyped, CallsTyped, CacheSound
    <2>2. c.pc = "close" /\ UNCHANGED <<held, arrived>>
      BY <1>4, <2>1 DEF CloseFile
    <2>3. CASE c.kind = "load" /\ c.out.data \in Version
      <3>1. result' = [url |-> c.url, data |-> c.out.data, start |-> c.start, via |-> "network"]
        BY <1>4, <2>1, <2>3 DEF CloseFile, Returned
      <3>2. c.start \in Nat /\ now \in Nat /\ MaxTime \in Nat /\ now <= MaxTime
        BY NowIsTyped DEF CallState, TypeInv
      <3>3. held[c.url][c.out.data] \in c.start .. now
        BY <2>1, <2>2, <2>3 DEF CallSound, Current, Writing
      <3>4. held[c.url][c.out.data] # Never /\ held[c.url][c.out.data] >= c.start
        BY <3>2, <3>3 DEF Never
      <3> QED
        BY <2>2, <3>1, <3>4 DEF ServedRecent, FetchedIsCurrent
    <2>4. CASE ~(c.kind = "load" /\ c.out.data \in Version)
      <3>1. result' = None
        BY <1>4, <2>1, <2>4 DEF CloseFile, Returned
      <3> QED
        BY <1>1, <3>1
    <2> QED
      BY <2>3, <2>4
  <1>5. \/ result' = None \/ UNCHANGED vars
        \/ \E t \in Task : Decide(t) \/ CloseFile(t)
    BY DEF Next, PassTime, Publish, LoadFeed, CallStep, ReadRedis, ReadFile, FetchFails, Answer,
           BodyArrives, WriteRedis, OpenFile, Restart
  <1> QED
    BY <1>1, <1>2, <1>3, <1>4, <1>5

LEMMA CacheInit == Init => CacheInv
  <1> SUFFICES ASSUME Init PROVE CacheInv
    OBVIOUS
  <1>1. TypeInv
    BY TypeInit
  <1>2. \A u \in Url : held[u][origin[u]] = now
    BY DEF Init, LimiterInit
  <1>3. StoresSound
    <2>1. \A u \in Url : file[FileOf[u]] = None /\ redis[u] = None
      BY DEF Init, CacheFile
    <2> QED
      BY <2>1, NoEntry DEF StoresSound
  <1>4. \A t \in Task : CallSound(call[t])
    BY IdleTyped DEF Init, CallSound
  <1>5. ServedRecent /\ FetchedIsCurrent
    BY DEF Init, ServedRecent, FetchedIsCurrent
  <1> QED
    BY <1>1, <1>2, <1>3, <1>4, <1>5 DEF CacheInv, CacheSound

LEMMA CacheStep ==
  ASSUME AlwaysTagged, OwnFiles
  PROVE  CacheInv /\ [Next]_vars => CacheInv'
  <1> SUFFICES ASSUME CacheInv, [Next]_vars PROVE CacheInv'
    OBVIOUS
  <1>1. TypeInv /\ TypeInv' /\ CacheSound /\ ServedRecent /\ FetchedIsCurrent
    BY TypeStep DEF CacheInv
  <1>2. Later
    BY <1>1, HistoryGrows
  <1>3. CacheSound'
    BY <1>1, <1>2, HeldStep, StoresStep, CallsStep DEF CacheSound
  <1>4. ServedRecent' /\ FetchedIsCurrent'
    BY <1>1, ServedStep
  <1> QED
    BY <1>1, <1>3, <1>4 DEF CacheInv

(* When each feed has a cache file of its own and every document its tag,  *)
(* a load served from a cache returns a feed that its own origin sent or   *)
(* confirmed at most a TTL before (cache.ts:145-170, redis-cache.ts:53-67).*)
THEOREM CacheServesRecent ==
  ASSUME AlwaysTagged, OwnFiles
  PROVE  Spec => []ServedRecent
  <1>1. CacheInv => ServedRecent
    BY DEF CacheInv
  <1> QED
    BY <1>1, CacheInit, CacheStep, PTL DEF Spec

(* Under the same conditions a load that went to the network returns what  *)
(* the origin held at some time since the load looked at the cache, also   *)
(* after an answer of 304 (cache.ts:154-171).                              *)
THEOREM NetworkIsCurrent ==
  ASSUME AlwaysTagged, OwnFiles
  PROVE  Spec => []FetchedIsCurrent
  <1>1. CacheInv => FetchedIsCurrent
    BY DEF CacheInv
  <1> QED
    BY <1>1, CacheInit, CacheStep, PTL DEF Spec

=============================================================================
