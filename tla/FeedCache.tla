----------------------------- MODULE FeedCache ------------------------------
(***************************************************************************)
(* The provider's cache of remote threat feeds, src/src/provider/cache.ts  *)
(* with redis-cache.ts, and the fetcher feed.ts gives it: two stores that  *)
(* outlive the process, loads and background revalidations that interleave *)
(* at every await, a rate limiter, retries, and an origin that publishes,  *)
(* rolls back and fails.                                                   *)
(***************************************************************************)
EXTENDS RateLimiter

CONSTANTS
    Url,           \* remote feeds
    Version,       \* feed documents; the ETag of a version is the version
    Junk,          \* a body that is JSON and no feed: an error page
    NotJson,       \* a body that is no JSON
    FileOf,        \* FileOf[u]: the cache file cachePathForUrl gives for u
    TwoHeaders,    \* {TRUE}, or {TRUE, FALSE}: may a 200 come without ETag?
    RedisUrl,      \* BOOLEAN: REDIS_URL is set
    Ttl,           \* cacheTtl
    Retries,       \* fetchWithRetry: further attempts after the first
    Task,          \* slots for calls in flight
    None, Garbled  \* no entry; a file that is being written

CacheFile == {FileOf[u] : u \in Url}

Data == Version \union {Junk}
\* A CacheEntry: what was fetched, when, and the tag to ask for it again with.
Entry == [data : Data, at : 0 .. MaxTime, etag : Version \union {None}]
\* 304, or a 200 (or an error page) with a body and perhaps a tag.  The origin's
\* version at the time of the answer is kept beside a 304 as history.
Response == [same : BOOLEAN, body : Data \union {NotJson}, etag : Version \union {None}]

ASSUME CacheAssumption ==
    /\ TwoHeaders \in {{TRUE}, {TRUE, FALSE}}
    /\ RedisUrl \in BOOLEAN
    /\ Ttl \in Nat \ {0}
    /\ Retries \in Nat
    /\ {Junk, NotJson, None, Garbled} \cap Version = {}
    /\ {None, Garbled} \cap (Url \union Entry) = {}

VARIABLES
    origin,      \* origin[u]: the version published at u
    file,        \* file[f]: the entry in a cache file
    redis,       \* redis[u]: an entry and the time setex makes it vanish
    call,        \* the getCachedFeed calls in flight
    held,        \* history: held[u][v], the last time the origin u held v
    arrived,     \* history: arrived[u][v], the last time an answer said v
    result       \* what the load that ended in this very step returned

storeVars == <<file, redis>>
vars == <<limiterVars, origin, storeVars, call, held, arrived, result>>

IdleCall == [pc |-> "idle", kind |-> "load", url |-> None, entry |-> None,
             start |-> 0, tries |-> 0, response |-> None, out |-> None]

CallState ==
    [pc : {"idle", "redis", "file", "decide", "fetch", "body", "setex", "open", "close"},
     kind : {"load", "revalidate"}, url : Url \union {None},
     entry : Entry \union {None}, start : 0 .. MaxTime, tries : 0 .. Retries,
     response : Response \union {None}, out : Entry \union {None}]

Never == MaxTime + 1

TypeOK ==
    /\ LimiterTypeOK
    /\ origin \in [Url -> Version]
    /\ file \in [CacheFile -> Entry \union {None, Garbled}]
    /\ redis \in [Url -> [entry : Entry, expires : Nat] \union {None}]
    /\ call \in [Task -> CallState]
    /\ \A t \in Task : /\ call[t].pc # "idle" => call[t].url # None
                       /\ call[t].pc \in {"setex", "open", "close"} => call[t].out # None
    /\ held \in [Url -> [Version -> 0 .. Never]]
    /\ arrived \in [Url -> [Version -> 0 .. Never]]

Init ==
    /\ LimiterInit
    /\ \E v \in Version :
         /\ origin = [u \in Url |-> v]
         /\ held = [u \in Url |-> [w \in Version |-> IF w = v THEN 0 ELSE Never]]
    /\ file = [f \in CacheFile |-> None]
    /\ redis = [u \in Url |-> None]
    /\ call = [t \in Task |-> IdleCall]
    /\ arrived = [u \in Url |-> [v \in Version |-> Never]]
    /\ result = None

-----------------------------------------------------------------------------
(* The origin and the clock.                                               *)

\* A new version, or an earlier one rolled back to.
Publish(u, v) ==
    /\ v # origin[u]
    /\ origin' = [origin EXCEPT ![u] = v]
    /\ held' = [held EXCEPT ![u][v] = now]
    /\ UNCHANGED <<limiterVars, storeVars, call, arrived>>
    /\ result' = None

\* Redis drops what it was told to keep for a TTL only.
PassTime ==
    /\ Tick
    /\ held' = [u \in Url |-> [held[u] EXCEPT ![origin[u]] = now']]
    /\ redis' = [u \in Url |-> IF redis[u] # None /\ redis[u].expires <= now'
                                 THEN None ELSE redis[u]]
    /\ UNCHANGED <<origin, file, call, arrived>>
    /\ result' = None

-----------------------------------------------------------------------------
(* Steps shared by the calls.                                              *)

Step(t, pc) == call' = [call EXCEPT ![t].pc = pc]
End(t) == call' = [call EXCEPT ![t] = IdleCall]

\* What the caller of getCachedFeed gets, normalizeThreatFeed included: a body
\* that is no feed throws.
Returned(u, data, start, via) ==
    IF data \in Version THEN [url |-> u, data |-> data, start |-> start, via |-> via]
                        ELSE None

\* readCacheEntry: redis first.  Without a connection there is no entry there;
\* a command that is rejected rejects the call.
ReadRedis(t) ==
    /\ call[t].pc = "redis"
    /\ \/ /\ RedisUrl /\ redis[call[t].url] # None
          /\ call' = [call EXCEPT ![t].pc = "decide",
                                  ![t].entry = redis[call[t].url].entry]
       \/ Step(t, "file")
       \/ RedisUrl /\ End(t)
    /\ UNCHANGED <<limiterVars, origin, storeVars, held, arrived>>
    /\ result' = None

\* readFileCacheEntry: a file that is being written parses to no entry.
ReadFile(t) ==
    /\ call[t].pc = "file"
    /\ LET found == file[FileOf[call[t].url]]
       IN call' = [call EXCEPT ![t].pc = "decide",
                               ![t].entry = IF found = Garbled THEN None ELSE found]
    /\ UNCHANGED <<limiterVars, origin, storeVars, held, arrived>>
    /\ result' = None

\* getCachedFeed goes on: a fresh entry is returned and revalidated in the
\* background, otherwise the call fetches.  Both ask the limiter at once; the
\* call that is refused is over.
\* Faulty variant: an entry stays fresh one tick longer.
FreshTooLong(entry) == entry # None /\ ~(now > entry.at + Ttl + 1)

Fresh(entry) == entry # None /\ ~(now > entry.at + Ttl)

Decide(t) ==
    /\ call[t].pc = "decide"
    /\ LET entry == call[t].entry
           fetching == IF Fresh(entry)
                         THEN [call[t] EXCEPT !.pc = "fetch", !.kind = "revalidate"]
                         ELSE [call[t] EXCEPT !.pc = "fetch", !.start = now]
       IN /\ \/ Permit /\ call' = [call EXCEPT ![t] = fetching]
             \/ Refuse /\ End(t)
          /\ result' = IF Fresh(entry) THEN Returned(call[t].url, entry.data, now, "cache")
                                       ELSE None
    /\ UNCHANGED <<origin, storeVars, held, arrived>>

\* Faulty variant: one attempt too many.
FetchFailsLate(t) ==
    /\ call[t].pc = "fetch"
    /\ IF call[t].tries <= Retries
         THEN call' = [call EXCEPT ![t].tries = @ + 1]
         ELSE End(t)
    /\ UNCHANGED <<limiterVars, origin, storeVars, held, arrived>>
    /\ result' = None

\* fetchWithRetry: an attempt fails or times out.
FetchFails(t) ==
    /\ call[t].pc = "fetch"
    /\ IF call[t].tries < Retries
         THEN call' = [call EXCEPT ![t].tries = @ + 1]
         ELSE End(t)
    /\ UNCHANGED <<limiterVars, origin, storeVars, held, arrived>>
    /\ result' = None

\* What the origin answers a request for u with If-None-Match: etag.
Answers(u, etag) ==
    IF etag = origin[u]
      THEN {[same |-> TRUE, body |-> origin[u], etag |-> etag]}
      ELSE {[same |-> FALSE, body |-> origin[u], etag |-> IF tagged THEN origin[u] ELSE None] :
              tagged \in TwoHeaders}

Failures == {[same |-> FALSE, body |-> b, etag |-> None] : b \in {Junk, NotJson}}

EtagOf(entry) == IF entry = None THEN None ELSE entry.etag

Answer(t) ==
    /\ call[t].pc = "fetch"
    /\ \E r \in Answers(call[t].url, EtagOf(call[t].entry)) \union Failures :
         call' = [call EXCEPT ![t].pc = "body", ![t].response = r, ![t].tries = 0]
    /\ UNCHANGED <<limiterVars, origin, storeVars, held, arrived>>
    /\ result' = None

\* Faulty variant: an error page renews the old entry.
StoredOnError(t) ==
    LET r == call[t].response
        entry == call[t].entry
    IN IF entry # None /\ (r.same \/ r.body = Junk)
         THEN [entry EXCEPT !.at = call[t].start]
         ELSE [data |-> r.body, at |-> call[t].start,
               etag |-> IF r.etag # None THEN r.etag ELSE EtagOf(entry)]

\* The body has arrived.  What is stored, and as of when: a load stamps it with
\* the time it looked at the cache, a revalidation with the time it is over.
Stored(t) ==
    LET r == call[t].response
        entry == call[t].entry
    IN CASE call[t].kind = "revalidate" ->
              [data |-> r.body, at |-> now, etag |-> r.etag]
         [] r.same -> [entry EXCEPT !.at = call[t].start]
         [] OTHER ->
              [data |-> r.body, at |-> call[t].start,
               etag |-> IF r.etag # None THEN r.etag ELSE EtagOf(entry)]

BodyArrives(t) ==
    /\ call[t].pc = "body"
    /\ LET r == call[t].response
           nothingNew == r.same /\ call[t].kind = "revalidate"
       IN /\ IF nothingNew \/ r.body = NotJson
               THEN End(t)
               ELSE call' = [call EXCEPT ![t] = [@ EXCEPT !.pc = "setex",
                                 !.out = Stored(t), !.entry = None, !.response = None,
                                 !.tries = 0]]
          /\ arrived' = IF r.body \in Version
                          THEN [arrived EXCEPT ![call[t].url][r.body] = now]
                          ELSE arrived
    /\ UNCHANGED <<limiterVars, origin, storeVars, held>>
    /\ result' = None

\* writeCacheEntry: redis, then the file.  No connection skips redis; a command
\* that is rejected ends the call before the file is written.
WriteRedis(t) ==
    /\ call[t].pc = "setex"
    /\ \/ /\ RedisUrl
          /\ redis' = [redis EXCEPT ![call[t].url] =
                         [entry |-> call[t].out, expires |-> now + Ttl]]
          /\ Step(t, "open")
       \/ UNCHANGED redis /\ Step(t, "open")
       \/ RedisUrl /\ UNCHANGED redis /\ End(t)
    /\ UNCHANGED <<limiterVars, origin, file, held, arrived>>
    /\ result' = None

\* Bun.write truncates the file first; an error is ignored.
OpenFile(t) ==
    /\ call[t].pc = "open"
    /\ file' = [file EXCEPT ![FileOf[call[t].url]] = Garbled]
    /\ Step(t, "close")
    /\ UNCHANGED <<limiterVars, origin, redis, held, arrived>>
    /\ result' = None

CloseFile(t) ==
    /\ call[t].pc = "close"
    /\ \/ file' = [file EXCEPT ![FileOf[call[t].url]] = call[t].out]
       \/ UNCHANGED file
    /\ End(t)
    /\ result' = IF call[t].kind = "load"
                   THEN Returned(call[t].url, call[t].out.data, call[t].start, "network")
                   ELSE None
    /\ UNCHANGED <<limiterVars, origin, redis, held, arrived>>

-----------------------------------------------------------------------------
(* Calls begin and the process dies.                                       *)

LoadFeed(u, t) ==
    /\ call[t].pc = "idle"
    /\ call' = [call EXCEPT ![t] = [IdleCall EXCEPT !.pc = "redis", !.url = u]]
    /\ UNCHANGED <<limiterVars, origin, storeVars, held, arrived>>
    /\ result' = None

\* The stores survive; the limiter and the calls do not.
Restart ==
    /\ \E t \in Task : call[t].pc # "idle"
    /\ call' = [t \in Task |-> IdleCall]
    /\ attempts' = <<>>
    /\ granted' = <<>>
    /\ UNCHANGED <<now, origin, storeVars, held, arrived>>
    /\ result' = None

CallStep(t) ==
    \/ ReadRedis(t)
    \/ ReadFile(t)
    \/ Decide(t)
    \/ FetchFails(t)
    \/ Answer(t)
    \/ BodyArrives(t)
    \/ WriteRedis(t)
    \/ OpenFile(t)
    \/ CloseFile(t)

Next ==
    \/ PassTime
    \/ \E u \in Url, v \in Version : Publish(u, v)
    \/ \E u \in Url, t \in Task : LoadFeed(u, t)
    \/ \E t \in Task : CallStep(t)
    \/ Restart

Spec == Init /\ [][Next]_vars

-----------------------------------------------------------------------------
(* A load served from a cache returns a feed whose own origin sent or      *)
(* confirmed it at most a TTL before, whatever revalidations, crashes      *)
(* in a write and earlier processes left in the two stores                 *)
(* (cache.ts:145-170, redis-cache.ts:53-67).                               *)
ServedRecent ==
    result # None /\ result.via = "cache" =>
        /\ arrived[result.url][result.data] # Never
        /\ arrived[result.url][result.data] + Ttl >= result.start

(* A load that went to the network returns what the origin held at some    *)
(* time since the load looked at the cache, also when the origin answered  *)
(* 304 and the data comes from the cache (cache.ts:154-171).               *)
FetchedIsCurrent ==
    result # None /\ result.via = "network" =>
        /\ held[result.url][result.data] # Never
        /\ held[result.url][result.data] >= result.start

(* cache.test.ts:138 states that the cache "isolates caches by domain";    *)
(* the domains of this build differ by the feed they load.  With one       *)
(* cachePath, as config/defaults.ts:57 gives every domain, the file is     *)
(* shared and nothing compares the url it was stored for: a load of one    *)
(* feed returns the document of another.                                   *)
IsolatesCaches ==
    result # None => held[result.url][result.data] # Never
=============================================================================
