---------------------------- MODULE InstallHook -----------------------------
(***************************************************************************)
(* The scanner that bun install loads (src/src/index.ts), with a remote    *)
(* threat feed and THREAT_FEED_CACHE_TTL set: scans of one process, the    *)
(* refresh each cached scan leaves running in the background, the cache    *)
(* file that outlives the process, the bearer token from the keychain, and *)
(* tarballs downloaded one after another to compare their hashes.          *)
(*                                                                         *)
(* A package is [name, version, tarball]; tarball says whether it has a    *)
(* tarball URL.  A rule has the hashes it blocks besides the fields of     *)
(* ThreatMatch, none for any tarball.  An attempt that fails and is        *)
(* retried changes nothing here: a request fails when its last one does.   *)
(***************************************************************************)
EXTENDS ThreatMatch

CONSTANTS
    Feed,          \* contents the origin may publish
    List,          \* packages of an install
    Hash,          \* what a tarball may hash to
    Task,          \* slots for scans and refreshes
    Keychain,      \* BOOLEAN: THREAT_FEED_TOKEN_NAME is set, provider bun-secrets
    None, Torn,
    EmptyFeed,     \* a body that is JSON and passes for a feed without rules
    MaxScans,      \* bound on scans
    MaxPublished,  \* bound on changes of the origin's feed
    MaxRepublished \* bound on changes of a tarball

Packages == UNION {{l[i] : i \in DOMAIN l} : l \in List}
Tarballs == {p \in Packages : p.tarball}
Rules == UNION {{f.rules[i] : i \in DOMAIN f.rules} : f \in Feed}

ASSUME HookAssumption ==
    /\ {MaxScans, MaxPublished, MaxRepublished} \subseteq Nat
    /\ {None, Torn, EmptyFeed} \cap Feed = {} /\ None # Torn
    /\ {None, Torn} \cap [feed : Feed, fresh : BOOLEAN] = {}
    /\ Keychain \in BOOLEAN
    /\ List \subseteq Seq(Packages) /\ {f.rules : f \in Feed} \subseteq Seq(Rules)

VARIABLES
    origin,      \* the feed its server has now
    registry,    \* registry[p]: what the tarball of package p hashes to now
    cache,       \* the cache file: none, torn, or [feed, fresh]
    available,   \* secrets-backend.ts: cachedAvailability; false ends the process
    task,        \* the scans and the refreshes under way
    published,   \* history: the feeds the origin ever had
    left,        \* scans, feeds and tarballs that may still come
    result       \* the scan that ended in this very step

external == <<origin, registry, published>>
vars == <<external, cache, available, task, left, result>>

\* A task: what it scans and with which feed; the answer to its request; the
\* threats, the one being verified, its package being downloaded, and those
\* reported.  "feeds" and "tarballs" are history: what the origin and the
\* registry had since the scan began.
Idle == [pc |-> "idle", kind |-> "scan", packages |-> <<>>, source |-> "none",
         feed |-> None, threats |-> <<>>, threat |-> 1, package |-> 1,
         reported |-> {}, feeds |-> {}, tarballs |-> {}]

Reply == [ok : BOOLEAN, feed : Feed \union {EmptyFeed}]
Hit == [item : Rules, matching : Seq(Packages)]
TaskState == [pc : {"idle", "cache", "token", "fetch", "body", "open", "close", "match", "verify"},
              kind : {"scan", "refresh"}, packages : List \union {<<>>},
              source : {"none", "cache", "remote"}, feed : Feed \union {None} \union Reply,
              threats : Seq(Hit), threat : Nat \ {0}, package : Nat \ {0}, reported : SUBSET Nat,
              feeds : SUBSET Feed, tarballs : SUBSET (Tarballs \X Hash)]

TypeOK ==
    /\ origin \in Feed /\ published \subseteq Feed
    /\ registry \in [Tarballs -> Hash]
    /\ cache \in {None, Torn} \union [feed : Feed, fresh : BOOLEAN]
    /\ available \in {"unknown", "yes"}
    /\ task \in [Task -> TaskState]
    /\ \A t \in Task :
        /\ task[t].kind = "refresh" => task[t].pc \in {"token", "fetch", "body", "open", "close"}
        /\ task[t].pc = "body" => task[t].feed \in Reply
        /\ task[t].pc \in {"open", "close", "match", "verify"} => task[t].feed \in Feed
        /\ task[t].threat \in 1 .. Len(task[t].threats) + 1
        /\ task[t].reported \subseteq 1 .. task[t].threat - 1
        /\ task[t].package > 1 => task[t].package <= Len(task[t].threats[task[t].threat].matching)
        /\ task[t].pc = "close" => cache # None

\* An earlier process may have left a cache file.
Init ==
    /\ origin \in Feed
    /\ registry \in [Tarballs -> Hash]
    /\ \/ cache \in {None, Torn} /\ published = {origin}
       \/ \E f \in Feed : cache = [feed |-> f, fresh |-> TRUE] /\ published = {origin, f}
    /\ available = "unknown"
    /\ task = [t \in Task |-> Idle]
    /\ left = [scans |-> MaxScans, feeds |-> MaxPublished, tarballs |-> MaxRepublished]
    /\ result = None

Spend(what) == left[what] > 0 /\ left' = [left EXCEPT ![what] = @ - 1]

Under(kinds) == {t \in Task : task[t].pc # "idle" /\ task[t].kind \in kinds}

-----------------------------------------------------------------------------
(* The origin, the registry and the clock                                  *)

Publish(f) ==
    /\ Spend("feeds")
    /\ f # origin
    /\ origin' = f
    /\ published' = published \union {f}
    /\ task' = [t \in Task |-> IF t \in Under({"scan"})
                                 THEN [task[t] EXCEPT !.feeds = @ \union {f}] ELSE task[t]]
    /\ UNCHANGED <<registry, cache, available>>
    /\ result' = None

Republish(p, h) ==
    /\ Spend("tarballs")
    /\ h # registry[p]
    /\ registry' = [registry EXCEPT ![p] = h]
    /\ task' = [t \in Task |-> IF t \in Under({"scan"})
                                 THEN [task[t] EXCEPT !.tarballs = @ \union {<<p, h>>}] ELSE task[t]]
    /\ UNCHANGED <<origin, cache, available, published>>
    /\ result' = None

\* The entry is older than the TTL.
Expire ==
    /\ cache \notin {None, Torn}
    /\ cache.fresh
    /\ cache' = [cache EXCEPT !.fresh = FALSE]
    /\ UNCHANGED <<external, available, task, left>>
    /\ result' = None

-----------------------------------------------------------------------------
(* A scan begins: the cache                                                *)

StartScan(t, packages) ==
    /\ Spend("scans")
    /\ task[t].pc = "idle"
    /\ task' = [task EXCEPT ![t] = [Idle EXCEPT !.pc = "cache", !.packages = packages,
                    !.feeds = {origin}, !.tarballs = {<<p, registry[p]>> : p \in Tarballs}]]
    /\ UNCHANGED <<external, cache, available>>
    /\ result' = None

\* readCachedThreatFeed: a torn file does not parse and an old one is left.  A
\* fresh one is used, and a refresh is left running.
Fresh == cache \notin {None, Torn} /\ cache.fresh

ReadCache(t) ==
    /\ task[t].pc = "cache"
    /\ IF Fresh
         THEN \E r \in Task :
                /\ task[r].pc = "idle"
                /\ task' = [task EXCEPT
                     ![r] = [Idle EXCEPT !.pc = "token", !.kind = "refresh"],
                     ![t] = [@ EXCEPT !.pc = "match", !.source = "cache", !.feed = cache.feed]]
         ELSE task' = [task EXCEPT ![t].pc = "token"]
    /\ UNCHANGED <<external, cache, available, left>>
    /\ result' = None

-----------------------------------------------------------------------------
(* fetchRemoteThreatFeedDirect, in a scan or in a refresh                  *)

Ends(t) == task' = [task EXCEPT ![t] = Idle]

\* The process is gone with all its tasks; a file being written stays torn.
Dies ==
    /\ task' = [t \in Task |-> Idle]
    /\ available' = "unknown"

\* getThreatFeedToken: the store is probed once.  If it answers, whatever it
\* answers, the request is sent, with a token or without.
GetToken(t) ==
    /\ task[t].pc = "token"
    /\ available' = IF Keychain THEN "yes" ELSE available
    /\ task' = [task EXCEPT ![t].pc = "fetch"]
    /\ UNCHANGED <<external, cache, left>>
    /\ result' = None

\* If it does not, process.exit(1).
ExitForToken(t) ==
    /\ task[t].pc = "token"
    /\ Keychain
    /\ available # "yes"
    /\ Dies
    /\ result' = [how |-> "exit", fetching |-> task[t].kind,
                  cached |-> {s \in Under({"scan"}) : task[s].source = "cache"}]
    /\ UNCHANGED <<external, cache, left>>

\* The origin answers with its feed, or with an error that reads like one.
Answers == {[ok |-> TRUE, feed |-> origin], [ok |-> FALSE, feed |-> EmptyFeed]}

Answer(t) ==
    /\ task[t].pc = "fetch"
    /\ \E a \in Answers : task' = [task EXCEPT ![t].pc = "body", ![t].feed = a]
    /\ UNCHANGED <<external, cache, available, left>>
    /\ result' = None

\* Faulty variant: the status of the answer is not looked at.
BodyArrivesAnyway(t) ==
    /\ task[t].pc = "body"
    /\ task' = [task EXCEPT ![t].pc = "open", ![t].feed = task[t].feed.feed]
    /\ UNCHANGED <<external, cache, available, left>>
    /\ result' = None

\* The body is read and validated.
BodyArrives(t) ==
    /\ task[t].pc = "body"
    /\ task[t].feed.ok
    /\ task' = [task EXCEPT ![t].pc = "open", ![t].feed = task[t].feed.feed]
    /\ UNCHANGED <<external, cache, available, left>>
    /\ result' = None

\* No answer, an error, or a body that is no feed: the scan throws, and the
\* refresh is forgotten.
FetchFails(t) ==
    /\ task[t].pc \in {"fetch", "body"}
    /\ Ends(t)
    /\ UNCHANGED <<external, cache, available, left>>
    /\ result' = [how |-> "throws", fetching |-> task[t].kind, cached |-> {}]

\* writeCachedThreatFeed: no directory, no cache.  Bun.write truncates first;
\* an error is ignored, and so is another task that writes the same file.
Loaded(t) ==
    IF task[t].kind = "refresh" THEN Ends(t)
    ELSE task' = [task EXCEPT ![t].pc = "match", ![t].source = "remote"]

OpenCache(t) ==
    /\ task[t].pc = "open"
    /\ \/ /\ cache' = Torn
          /\ task' = [task EXCEPT ![t].pc = "close"]
       \/ UNCHANGED cache /\ Loaded(t)
    /\ UNCHANGED <<external, available, left>>
    /\ result' = None

CloseCache(t) ==
    /\ task[t].pc = "close"
    /\ cache' \in {[feed |-> task[t].feed, fresh |-> TRUE], Torn}
    /\ Loaded(t)
    /\ UNCHANGED <<external, available, left>>
    /\ result' = None

-----------------------------------------------------------------------------
(* Matching and hashes                                                     *)

HookPolicy == [fatal |-> {"malware", "backdoor", "botnet"},
               warn |-> {"protestware", "adware", "deprecated"}]

\* findThreats, and those among them that categorize gives a level.
FindThreats(packages, feed) ==
    LET found == MatchThreats(packages, feed.rules, feed.allowlist)
    IN Filter(found, {i \in DOMAIN found : Categorize(found[i].item, HookPolicy) # "none"})

Match(t) ==
    /\ task[t].pc = "match"
    /\ task' = [task EXCEPT ![t].pc = "verify",
                            ![t].threats = FindThreats(task[t].packages, task[t].feed)]
    /\ UNCHANGED <<external, cache, available, left>>
    /\ result' = None

Threat(t) == task[t].threats[task[t].threat]
Suspect(t) == Threat(t).matching[task[t].package]
Verifying(t) == task[t].pc = "verify" /\ task[t].threat <= Len(task[t].threats)

\* On to the next threat, with this one reported or not.
Settled(t, verdict) ==
    [task EXCEPT ![t].threat = @ + 1, ![t].package = 1,
                 ![t].reported = IF verdict THEN @ \union {task[t].threat} ELSE @]

NextSuspect(t) ==
    IF task[t].package = Len(Threat(t).matching) THEN Settled(t, FALSE)
    ELSE [task EXCEPT ![t].package = @ + 1]

\* Without hashes the version is enough.
ReportUnhashed(t) ==
    /\ Verifying(t)
    /\ Threat(t).item.hashes = {}
    /\ task' = Settled(t, TRUE)
    /\ UNCHANGED <<external, cache, available, left>>
    /\ result' = None

\* hashMatches: no tarball to look at, or the hash of what was downloaded.  The
\* first that matches ends the search.
CompareHash(t) ==
    /\ Verifying(t)
    /\ Threat(t).item.hashes # {}
    /\ task' = IF Suspect(t).tarball /\ registry[Suspect(t)] \in Threat(t).item.hashes
                 THEN Settled(t, TRUE) ELSE NextSuspect(t)
    /\ UNCHANGED <<external, cache, available, left>>
    /\ result' = None

\* Faulty variant: a tarball that cannot be had passes for a good one.
DownloadFailsOpen(t) ==
    /\ Verifying(t)
    /\ Threat(t).item.hashes # {}
    /\ Suspect(t).tarball
    /\ task' = NextSuspect(t)
    /\ UNCHANGED <<external, cache, available, left>>
    /\ result' = None

\* A tarball that cannot be had fails the scan.
DownloadFails(t) ==
    /\ Verifying(t)
    /\ Threat(t).item.hashes # {}
    /\ Suspect(t).tarball
    /\ Ends(t)
    /\ UNCHANGED <<external, cache, available, left>>
    /\ result' = [how |-> "throws", fetching |-> "scan", cached |-> {}]

ScanReturns(t) ==
    /\ task[t].pc = "verify"
    /\ task[t].threat > Len(task[t].threats)
    /\ Ends(t)
    /\ UNCHANGED <<external, cache, available, left>>
    /\ result' = [how |-> "returns", scan |-> task[t]]

-----------------------------------------------------------------------------
\* bun install ends, or dies; another one finds the cache.
ProcessEnds ==
    /\ available # "unknown" \/ \E t \in Task : task[t].pc # "idle"
    /\ Dies
    /\ UNCHANGED <<external, cache, left>>
    /\ result' = None

TaskStep(t) ==
    \/ ReadCache(t)
    \/ GetToken(t)
    \/ ExitForToken(t)
    \/ Answer(t)
    \/ BodyArrives(t)
    \/ FetchFails(t)
    \/ OpenCache(t)
    \/ CloseCache(t)
    \/ Match(t)
    \/ ReportUnhashed(t)
    \/ CompareHash(t)
    \/ DownloadFails(t)
    \/ ScanReturns(t)

Next ==
    \/ \E f \in Feed : Publish(f)
    \/ \E p \in Tarballs, h \in Hash : Republish(p, h)
    \/ Expire
    \/ \E t \in Task, l \in List : StartScan(t, l)
    \/ \E t \in Task : TaskStep(t)
    \/ ProcessEnds

Spec == Init /\ [][Next]_vars

-----------------------------------------------------------------------------
Returned == result # None /\ result.how = "returns"

(* A scan that returns went by a feed its origin published: no error page, *)
(* no half-written cache, whatever refreshes and processes before it left. *)
(* Unless the cache was fresh it is one the origin had while the scan ran  *)
(* (index.ts:468-483, 510-575).                                            *)
FeedIsGenuine ==
    Returned =>
        /\ result.scan.feed \in published
        /\ result.scan.source = "remote" => result.scan.feed \in result.scan.feeds

\* What the tarball of p hashed to at some time of the scan s.
HashesOf(s, p) == {h \in Hash : <<p, h>> \in s.tarballs}

(* A scan that returns reports a rule exactly if it had reason to: of a    *)
(* rule with hashes, some package it hits had a blocked tarball while the  *)
(* scan ran, and if it is not reported each of them had another one.  No   *)
(* tarball is passed over, though any download may fail and tarballs are   *)
(* republished meanwhile (index.ts:756-821, 886-937).                      *)
ReportedMeansBlocked ==
    Returned =>
        LET s == result.scan
            threats == FindThreats(s.packages, s.feed)
            Suspects(i) == {p \in {threats[i].matching[j] : j \in DOMAIN threats[i].matching} : p.tarball}
        IN \A i \in DOMAIN threats :
             LET blocked == threats[i].item.hashes
             IN IF i \in s.reported
                  THEN blocked # {} => \E p \in Suspects(i) : HashesOf(s, p) \cap blocked # {}
                  ELSE blocked # {} /\ \A p \in Suspects(i) : HashesOf(s, p) \ blocked # {}

(* README.md:298-299 says that "A missing or unreadable token degrades     *)
(* gracefully to an unauthenticated request rather than failing the scan", *)
(* and index.ts:558 that the caller will "ignore background refresh        *)
(* errors": a scan that has its feed from the cache does not end for want  *)
(* of a token.  The refresh behind it exits the process.                   *)
CachedScanSurvives == result # None /\ result.how = "exit" => result.cached = {}
=============================================================================
