----------------------------- MODULE WatchMode ------------------------------
(***************************************************************************)
(* Watch mode (src/src/cli/watch.ts): changes of package.json and of a     *)
(* local feed file are debounced (src/src/utils/debounce.ts) and scanned,  *)
(* with the domain's configuration read anew for each scan, until a signal *)
(* stops it.  A host that embeds the module may call the supply-chain      *)
(* domain meanwhile.                                                       *)
(***************************************************************************)
EXTENDS SupplyChain

CONSTANTS
    List,          \* contents package.json may have; Garbled does not parse
    Garbled,
    Domain,        \* configurations of the project's domain, or None
    HostConfig,    \* what the host passes to activate
    HostPolicy,    \* what the host passes to setSeverityPolicy
    MaxChanges,    \* bound on changes of watched files
    MaxDomains,    \* bound on changes of the domain's configuration
    MaxHost        \* bound on the host's calls

\* The packages, configurations, documents, policies and providers there may be.
Packages == UNION {{l[i] : i \in DOMAIN l} : l \in List \ {Garbled}}
Configs == HostConfig \union {d.config : d \in Domain \ {None}}
Documents == {c.document : c \in Configs} \ {None}
Policies == {DefaultPolicy} \union HostPolicy \union {d.policy : d \in Documents}
                \union ({c.policy : c \in Configs} \ {None})
Providers == [policy : Policies, dryRun : BOOLEAN,
              overrides : {<<>>} \union {d.overrides : d \in Documents}]

Rules == UNION {{f.rules[i] : i \in DOMAIN f.rules} : f \in Feed}
Overrides == UNION {{d.overrides[i] : i \in DOMAIN d.overrides} : d \in Documents}

\* package.json names a package once: its dependencies are read into one object.
NamesOnce(packages) ==
    \A i, j \in DOMAIN packages : packages[i].name = packages[j].name => packages[i] = packages[j]

ASSUME WatchAssumption ==
    /\ {MaxChanges, MaxDomains, MaxHost} \subseteq Nat
    /\ Slot # {}
    /\ \A l \in List \ {Garbled} : l \in Seq(Packages) /\ NamesOnce(l)
    /\ \A f \in Feed : f.rules \in Seq(Rules)
    /\ \A d \in Documents : d.overrides \in Seq(Overrides)
    /\ \A c \in Configs : c.log \in Log \union {None} /\ c.dryRun \in BOOLEAN

VARIABLES
    list,          \* package.json
    domain,        \* the domain file
    watching,      \* the watchers are open
    generation,    \* the debouncer's count of triggers
    sleeping,      \* triggers whose sleep is not over
    scanning,      \* the flag of the same name
    step,          \* step[k]: how far performScan in slot k is before scanAll
    unread,        \* a change that was heard and that no scan has read
    missed,        \* the latest change's scan was dropped: one was under way
    startsAfterStop,
    left           \* changes, domain edits and host calls left

watchVars == <<list, domain, watching, generation, sleeping, scanning, step,
               unread, missed, startsAfterStop, left>>
vars == <<chainVars, watchVars>>

Snapshots == (List \ {Garbled}) \union {<<>>}
Recorded == [package : Packages, allowed : BOOLEAN, log : Log \union {None}, disturbed : BOOLEAN,
             provider : Providers, feed : Feed, parallel : BOOLEAN]
\* A call that found what it found.
Call(found) ==
    [phase : {"free", "feed", "match", "record", "append"}, packages : Snapshots,
     provider : Providers \union {None}, feed : Feed \union {None}, found : {found},
     recorded : Nat, writing : Recorded \union {None}, to : Log \union {None},
     log : Log \union {None}, disturbed : BOOLEAN]

ChainTypeOK ==
    /\ provider \in Providers \union {None}
    /\ config \in [document : Documents \union {None}, dryRun : BOOLEAN]
    /\ globalPolicy \in HostPolicy \union {None}
    /\ sink \in Log \union {None}
    /\ decisions \in Seq(Recorded) /\ logs \in [Log -> Seq(Recorded)] /\ feed \in Feed
    /\ scan = [k \in Slot |-> scan[k]]
    /\ \A k \in Slot :
        /\ scan[k] \in Call(scan[k].found)
        /\ scan[k].phase # "free" => scan[k].provider \in Providers
        /\ scan[k].phase \in {"match", "record", "append"} => scan[k].feed \in Feed
        /\ scan[k].phase \in {"free", "feed", "match"} => scan[k].recorded = 0
        /\ scan[k].recorded <= Len(scan[k].packages)
        /\ scan[k].phase = "append" <=> scan[k].to # None
        /\ scan[k].phase = "append" =>
              scan[k].recorded < Len(scan[k].packages) /\ scan[k].writing \in Recorded

WatchTypeOK ==
    /\ list \in List /\ domain \in Domain
    /\ left \in [changes : Nat, domains : Nat, host : Nat]
    /\ generation \in Nat /\ generation + left.changes <= MaxChanges
    /\ sleeping \subseteq 1 .. generation
    /\ {watching, scanning, unread, missed} \subseteq BOOLEAN
    /\ step \in [Slot -> {"no", "list", "domain", "scan"}]
    /\ startsAfterStop \in Nat
    /\ \A k \in Slot : step[k] = "scan" <=> scan[k].phase # "free"
    /\ scanning <=> \E k \in Slot : step[k] # "no"
    /\ \A j, k \in Slot : step[j] # "no" /\ step[k] # "no" => j = k

TypeOK == ChainTypeOK /\ WatchTypeOK

Init ==
    /\ ChainInit
    /\ list \in List
    /\ domain \in Domain
    /\ watching = TRUE
    /\ generation = 0
    /\ sleeping = {}
    /\ scanning = FALSE
    /\ step = [k \in Slot |-> "no"]
    /\ unread = FALSE
    /\ missed = FALSE
    /\ startsAfterStop = 0
    /\ left = [changes |-> MaxChanges, domains |-> MaxDomains, host |-> MaxHost]

-----------------------------------------------------------------------------
(* Changes                                                                 *)

\* Faulty variant: a change cancels what sleeps and does not sleep itself.
OnChangeCancels ==
    /\ generation' = generation + 1
    /\ sleeping' = {}
    /\ unread' = TRUE
    /\ missed' = FALSE

\* onChange: the debouncer starts a sleep for a trigger of its own.
OnChange ==
    /\ generation' = generation + 1
    /\ sleeping' = sleeping \union {generation + 1}
    /\ unread' = TRUE
    /\ missed' = FALSE

Heard == IF watching THEN OnChange ELSE UNCHANGED <<generation, sleeping, unread, missed>>

Spend(what) == left[what] > 0 /\ left' = [left EXCEPT ![what] = @ - 1]

ChangeList(l) ==
    /\ Spend("changes")
    /\ l # list
    /\ list' = l
    /\ Heard
    /\ UNCHANGED <<chainVars, domain, watching, scanning, step, startsAfterStop>>

\* options.feedPath is watched as well.
ChangeFeed(f) ==
    /\ Spend("changes")
    /\ PublishFeed(f)
    /\ Heard
    /\ UNCHANGED <<list, domain, watching, scanning, step, startsAfterStop>>

\* The domain's file is not watched.
ChangeDomain(d) ==
    /\ Spend("domains")
    /\ d # domain
    /\ domain' = d
    /\ UNCHANGED <<chainVars, list, watching, generation, sleeping, scanning, step,
                   unread, missed, startsAfterStop>>

\* shutdown closes the watchers, and nothing else.
Shutdown ==
    /\ watching
    /\ watching' = FALSE
    /\ UNCHANGED <<chainVars, list, domain, generation, sleeping, scanning, step,
                   unread, missed, startsAfterStop, left>>

Host ==
    /\ Spend("host")
    /\ \/ \E c \in HostConfig : Activate(c)
       \/ Deactivate
       \/ \E p \in HostPolicy \union {None} : SetSeverityPolicy(p)
       \/ ClearAuditBuffer
    /\ UNCHANGED <<list, domain, watching, generation, sleeping, scanning, step,
                   unread, missed, startsAfterStop>>

-----------------------------------------------------------------------------
(* The debounced callback                                                  *)

FreeSlot == CHOOSE k \in Slot : step[k] = "no"

Starts ==
    /\ scanning' = TRUE
    /\ step' = [step EXCEPT ![FreeSlot] = "list"]
    /\ startsAfterStop' = startsAfterStop + (IF watching THEN 0 ELSE 1)
    /\ UNCHANGED missed

\* `if (scanning) return`: the change waits for another one.
Dropped ==
    /\ missed' = TRUE
    /\ UNCHANGED <<scanning, step, startsAfterStop>>

Wakes(g) == g \in sleeping /\ sleeping' = sleeping \ {g}

\* Faulty variant: a scan starts while one is under way.
CallbackAnyway(g) ==
    /\ Wakes(g)
    /\ IF g = generation /\ \E k \in Slot : step[k] = "no" THEN Starts
       ELSE UNCHANGED <<scanning, step, startsAfterStop, missed>>
    /\ UNCHANGED <<chainVars, list, domain, watching, generation, unread, left>>

\* Faulty variant: every trigger runs the callback.
CallbackEach(g) ==
    /\ Wakes(g)
    /\ IF scanning THEN Dropped ELSE Starts
    /\ UNCHANGED <<chainVars, list, domain, watching, generation, unread, left>>

\* A sleep is over; only the latest trigger runs the callback.
Callback(g) ==
    /\ Wakes(g)
    /\ IF g # generation THEN UNCHANGED <<scanning, step, startsAfterStop, missed>>
       ELSE IF scanning THEN Dropped
       ELSE Starts
    /\ UNCHANGED <<chainVars, list, domain, watching, generation, unread, left>>

\* performScan is over, well or badly.
Ends(k) ==
    /\ scanning' = FALSE
    /\ step' = [step EXCEPT ![k] = "no"]
    /\ scan' = [scan EXCEPT ![k] = Free]

\* loadPackageSnapshot; no packages end the scan, and so does a parse error.
ReadList(k) ==
    /\ step[k] = "list"
    /\ unread' = FALSE
    /\ IF list \in {<<>>, Garbled} THEN Ends(k)
       ELSE /\ step' = [step EXCEPT ![k] = "domain"]
            /\ scan' = [scan EXCEPT ![k].packages = list]
            /\ UNCHANGED scanning
    /\ UNCHANGED <<stateVars, decisions, logs, feed, list, domain, watching, generation,
                   sleeping, missed, startsAfterStop, left>>

\* loadDomainReportContext, activate when the domain enables the scanner, and
\* scanAll up to its first await.  When it does not, the scanner stays as is.
ReadDomain(k) ==
    /\ step[k] = "domain"
    /\ step' = [step EXCEPT ![k] = "scan"]
    /\ IF domain # None /\ domain.enabled THEN Activated(domain.config)
       ELSE UNCHANGED stateVars
    /\ scan' = [scan EXCEPT ![k] = Called(scan[k].packages, provider', sink')]
    /\ UNCHANGED <<decisions, logs, feed, list, domain, watching, generation, sleeping,
                   scanning, unread, missed, startsAfterStop, left>>

ScanGoesOn(k) == ScanStep(k) /\ UNCHANGED watchVars

ScanReturns(k) ==
    /\ AllRecorded(k)
    /\ Ends(k)
    /\ UNCHANGED <<stateVars, decisions, logs, feed, list, domain, watching, generation,
                   sleeping, unread, missed, startsAfterStop, left>>

\* Faulty variant: an append that fails is passed over.
ScanFailsPassingOver(k) ==
    /\ MayFail(k)
    /\ IF scan[k].phase = "append" THEN GoesOn(k) /\ UNCHANGED <<scanning, step>> ELSE Ends(k)
    /\ UNCHANGED <<stateVars, decisions, logs, feed, list, domain, watching, generation,
                   sleeping, unread, missed, startsAfterStop, left>>

ScanFails(k) ==
    /\ MayFail(k)
    /\ Ends(k)
    /\ UNCHANGED <<stateVars, decisions, logs, feed, list, domain, watching, generation,
                   sleeping, unread, missed, startsAfterStop, left>>

Next ==
    \/ \E l \in List : ChangeList(l)
    \/ \E f \in Feed : ChangeFeed(f)
    \/ \E d \in Domain : ChangeDomain(d)
    \/ Shutdown
    \/ Host
    \/ \E g \in sleeping : Callback(g)
    \/ \E k \in Slot : ReadList(k) \/ ReadDomain(k)
    \/ \E k \in Slot : ScanGoesOn(k)
    \/ \E k \in Slot : ScanReturns(k) \/ ScanFails(k)

Spec == Init /\ [][Next]_vars

\* Timers fire and files are read; a fetch, a worker and an append may hang.
Fairness ==
    /\ \A g \in 1 .. MaxChanges : WF_vars(Callback(g))
    /\ \A k \in Slot : WF_vars(ReadList(k))

FairSpec == Spec /\ Fairness

-----------------------------------------------------------------------------
\* The feed holds something against pkg: a rule names it, the policy gives the
\* rule a level and the first override that matches does not ignore it.
Flagged(pkg, by, says) ==
    \E i \in DOMAIN says.rules :
        LET rule == says.rules[i]
            advisory == [level |-> Categorize(rule, by.policy), package |-> pkg.name,
                         version |-> pkg.version, categories |-> rule.categories]
            applies == {j \in DOMAIN by.overrides : RuleMatches(by.overrides[j], advisory)}
        IN /\ Hits(rule, pkg, says.allowlist)
           /\ advisory.level # "none"
           /\ \A j \in applies : by.overrides[j].action = "ignore" => \E i2 \in applies : i2 < j

OneRule(pkg, rules) ==
    \A i, j \in DOMAIN rules :
        rules[i].package = pkg.name /\ rules[j].package = pkg.name => i = j

(* A package is allowed exactly when the feed that its scan loaded, under  *)
(* the policy of the provider that the scan picked, holds nothing against  *)
(* it (README.md:153-154, supply-chain.ts:213-235).                        *)
AllowedMeansClean ==
    \A i \in DOMAIN decisions :
        decisions[i].allowed
            <=> ~Flagged(decisions[i].package, decisions[i].provider, decisions[i].feed)

(* So it is for every scan that matches in one piece, and for one that     *)
(* matches in chunks when no two rules name the package, whatever the host *)
(* and the files do meanwhile (parallel.ts:57-84).                         *)
AllowedMeansCleanOneRule ==
    \A i \in DOMAIN decisions :
        (decisions[i].parallel => OneRule(decisions[i].package, decisions[i].feed.rules)) =>
            (decisions[i].allowed
                <=> ~Flagged(decisions[i].package, decisions[i].provider, decisions[i].feed))

(* An audit log has the decisions of scans that began under its own domain *)
(* configuration and of no other, unless the host changed the scanner in   *)
(* mid-scan: scans never overlap (watch.ts:88-100, supply-chain.ts:257-263)*)
LogHoldsItsScans ==
    \A l \in Log : \A i \in DOMAIN logs[l] : logs[l][i].log = l \/ logs[l][i].disturbed

(* After the shutdown at most one scan starts: a sleep that was under way  *)
(* is not cancelled, and of several only the latest counts                 *)
(* (watch.ts:118-130, debounce.ts:20-30).                                  *)
OneScanAfterStop == startsAfterStop <= 1

(* When a scan returns, its packages are the latest decisions, in order,   *)
(* in the buffer and in the audit log, unless the host meddled: a failure  *)
(* to record never passes for a success (supply-chain.ts:220-236).         *)
EndsWith(s, packages, n) ==
    Len(s) >= n /\ \A i \in 1 .. n : s[Len(s) - n + i].package = packages[i]

ReturnedMeansRecorded ==
    \A k \in Slot :
        AllRecorded(k) /\ ~scan[k].disturbed =>
            LET n == Len(scan[k].packages)
            IN /\ EndsWith(decisions, scan[k].packages, n)
               /\ scan[k].log # None => EndsWith(logs[scan[k].log], scan[k].packages, n)

(* A change is read by a scan that starts after it, unless a scan is under *)
(* way when its timer goes off, in which case it is dropped                *)
(* (watch.ts:88-100, debounce.ts:20-30).                                   *)
ChangesAreScanned == unread ~> (~unread \/ missed)
=============================================================================
