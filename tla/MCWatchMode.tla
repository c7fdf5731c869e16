---------------------------- MODULE MCWatchMode -----------------------------
(***************************************************************************)
(* Instance of WatchMode for TLC: packages a and b, feeds that name both,  *)
(* one of them twice, a strict domain and a lax one, and a host that       *)
(* previews a policy document.                                             *)
(***************************************************************************)
EXTENDS WatchMode

CONSTANTS l1, l2

Package(n, v) == [name |-> n, version |-> v]
Rule(n, vs, c) == [package |-> n, range |-> vs, categories |-> {c}]
FeedOf(rules, allowlist) == [rules |-> rules, allowlist |-> allowlist]

Lists == {<<Package("a", 1)>>,
          <<Package("a", 2), Package("b", 1), Package("c", 1)>>,
          Garbled}

Feeds == {FeedOf(<<Rule("a", {1}, "malware"), Rule("c", {1, 2}, "adware")>>,
                 {[package |-> "c", range |-> {2}]}),
          FeedOf(<<Rule("a", {1, 2}, "odd"), Rule("a", {2}, "malware"), Rule("b", {1}, "odd")>>,
                 {[package |-> "b", range |-> {2}]})}

Strict == [fatal |-> {"malware", "odd"}, warn |-> {"adware"}]

Config(policy, document, dryRun, log) ==
    [policy |-> policy, document |-> document, dryRun |-> dryRun, log |-> log]

Domains == {None,
            [enabled |-> TRUE, config |-> Config(DefaultPolicy, None, FALSE, l1)],
            [enabled |-> TRUE, config |-> Config(Strict, None, FALSE, l2)],
            [enabled |-> FALSE, config |-> Config(DefaultPolicy, None, FALSE, None)]}

AnyCategory == {"malware", "adware", "odd"}

Override(names, versions, categories, action, to) ==
    [package |-> names, version |-> versions, category |-> categories, cve |-> FALSE,
     action |-> action, to |-> to]

Document == [policy |-> Strict,
             overrides |-> <<Override({"a"}, {1, 2}, AnyCategory, "downgrade", "none"),
                             Override({"a", "b"}, {1, 2}, {"odd"}, "ignore", "none"),
                             Override({"c"}, {1, 2}, AnyCategory, "escalate", "none")>>]

HostConfigs == {Config(None, Document, TRUE, None)}
HostPolicies == {Strict}
=============================================================================
