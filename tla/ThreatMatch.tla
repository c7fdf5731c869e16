---------------------------- MODULE ThreatMatch -----------------------------
(***************************************************************************)
(* What a provider's scan makes of packages and a threat feed: matching    *)
(* (src/src/scan/matcher.ts), fanned out to workers                        *)
(* (src/src/scan/parallel.ts), the severity policy                         *)
(* (src/src/provider/policy.ts), the overrides of a policy document        *)
(* (src/src/policy/engine.ts) and the dry run (src/src/provider/dry-run.ts)*)
(*                                                                         *)
(* A version range or a glob is the set of what it matches.  A package is  *)
(* [name, version]; a feed has rules [package, range, categories] and an   *)
(* allowlist of [package, range]; a severity policy is [fatal, warn].  An  *)
(* override is [package, version, category, cve, action, to], the first    *)
(* three the sets of what it matches, everything if the document leaves    *)
(* them out; cve says whether it names one.                                *)
(***************************************************************************)
EXTENDS Integers, FiniteSets, Sequences, Functions

CONSTANTS
    Threshold,    \* packages from which matching is parallel (8 in the code)
    Workers       \* chunks a parallel match is cut into (2 in the code)

ASSUME MatchAssumption == Threshold \in Nat \ {0} /\ Workers \in Nat \ {0}

IsAllowed(pkg, allowlist) ==
    \E entry \in allowlist : entry.package = pkg.name /\ pkg.version \in entry.range

\* The package a rule names, in the range, and not allowed.
Hits(rule, pkg, allowlist) ==
    /\ pkg.name = rule.package
    /\ pkg.version \in rule.range
    /\ ~IsAllowed(pkg, allowlist)

\* Array.filter: what s has at the positions in hits, in order.
Rank(i, hits) == Cardinality({j \in hits : j <= i})
Filter(s, hits) ==
    [n \in 1 .. Cardinality(hits) |-> s[CHOOSE i \in hits : Rank(i, hits) = n]]

\* matchThreats: every rule with the packages it hits, in the feed's order.
MatchRule(rule, packages, allowlist) ==
    [item |-> rule,
     matching |-> Filter(packages, {i \in DOMAIN packages : Hits(rule, packages[i], allowlist)})]

MatchThreats(packages, rules, allowlist) ==
    LET all == [i \in DOMAIN rules |-> MatchRule(rules[i], packages, allowlist)]
    IN Filter(all, {i \in DOMAIN rules : all[i].matching # <<>>})

-----------------------------------------------------------------------------
(* matchThreatsParallel                                                    *)

\* Faulty variant: the packages after the last full chunk are left out.
ChunksFull(packages) ==
    LET size == Len(packages) \div Workers
    IN [c \in 1 .. Workers |-> SubSeq(packages, (c - 1) * size + 1, c * size)]

\* chunkPackages: chunks of Math.ceil(length / workerCount), the last shorter.
Chunks(packages) ==
    LET size == (Len(packages) + Workers - 1) \div Workers
        count == (Len(packages) + size - 1) \div size
    IN [c \in 1 .. count |-> SubSeq(packages, (c - 1) * size + 1,
                                     IF c = count THEN Len(packages) ELSE c * size)]

\* The workers' matches, results[c] of chunk c, in one: of every *package*
\* the first match, whose rule stands for all.  The packages of the others
\* come after its own, where no advisory looks.
Merge(results) ==
    LET all == UNION {{c} \X DOMAIN results[c] : c \in DOMAIN results}
        At(p) == results[p[1]][p[2]]
        Precedes(p, q) == p[1] < q[1] \/ (p[1] = q[1] /\ p[2] < q[2])
        IsFirst(p) == \A q \in all : At(q).item.package = At(p).item.package => ~Precedes(q, p)
    IN {At(p) : p \in {q \in all : IsFirst(q)}}

MatchThreatsParallel(packages, rules, allowlist) ==
    IF Len(packages) < Threshold
      THEN Range(MatchThreats(packages, rules, allowlist))
      ELSE LET chunks == Chunks(packages)
           IN Merge([c \in DOMAIN chunks |-> MatchThreats(chunks[c], rules, allowlist)])

-----------------------------------------------------------------------------
(* Severity                                                                *)

DefaultPolicy == [fatal |-> {"malware"}, warn |-> {"adware"}]

Categorize(rule, policy) ==
    CASE rule.categories \cap policy.fatal # {} -> "fatal"
      [] rule.categories \cap policy.fatal = {} /\ rule.categories \cap policy.warn # {} -> "warn"
      [] OTHER -> "none"

\* buildAdvisory: an advisory names the first of the matching packages.
Advisory(match, level) ==
    [level |-> level, package |-> match.item.package,
     version |-> Head(match.matching).version, categories |-> match.item.categories]

\* No property tells the order of a scan's matches apart, or of its advisories.
Advisories(matches, policy) ==
    {Advisory(m, Categorize(m.item, policy)) :
        m \in {n \in matches : Categorize(n.item, policy) # "none"}}

-----------------------------------------------------------------------------
(* Policy documents                                                        *)

\* ruleMatches; an advisory of a provider names no CVE.
RuleMatches(rule, advisory) ==
    /\ advisory.package \in rule.package
    /\ advisory.version \in rule.version
    /\ rule.category \cap advisory.categories # {}
    /\ ~rule.cve

SeverityRank == [fatal |-> 0, warn |-> 1, info |-> 2]

\* The level a rule leaves an advisory with; an info advisory stays a warn.
Levelled(advisory, rule) ==
    LET target == CASE rule.to # "none" -> rule.to
                    [] rule.to = "none" /\ rule.action = "escalate" -> "fatal"
                    [] OTHER -> "info"
        moves == \/ rule.action = "escalate" /\ SeverityRank[target] < SeverityRank[advisory.level]
                 \/ rule.action = "downgrade" /\ SeverityRank[target] > SeverityRank[advisory.level]
    IN IF ~moves THEN advisory
       ELSE [advisory EXCEPT !.level = IF target = "info" THEN "warn" ELSE target]

\* rules.find: the first rule that matches, if one does.
Matching(overrides, a) == {j \in DOMAIN overrides : RuleMatches(overrides[j], a)}
Winner(overrides, a) ==
    overrides[CHOOSE j \in Matching(overrides, a) : \A i \in Matching(overrides, a) : j <= i]

\* applyPolicy: the first rule that matches wins.
ApplyPolicy(advisories, overrides) ==
    LET Untouched(a) == Matching(overrides, a) = {}
        kept == {a \in advisories : Untouched(a) \/ Winner(overrides, a).action # "ignore"}
    IN {IF Untouched(a) THEN a ELSE Levelled(a, Winner(overrides, a)) : a \in kept}

ApplyDryRun(advisories, dryRun) ==
    IF ~dryRun THEN advisories ELSE {[a EXCEPT !.level = "warn"] : a \in advisories}

-----------------------------------------------------------------------------
\* A provider's scan from the feed on; a provider is [policy, overrides, dryRun].
Scan(provider, packages, feed) ==
    LET matches == MatchThreatsParallel(packages, feed.rules, feed.allowlist)
    IN ApplyDryRun(ApplyPolicy(Advisories(matches, provider.policy), provider.overrides),
                   provider.dryRun)
=============================================================================
