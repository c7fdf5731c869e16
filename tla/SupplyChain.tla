---------------------------- MODULE SupplyChain -----------------------------
(***************************************************************************)
(* The supply-chain domain (src/src/domains/supply-chain.ts): the one      *)
(* active scanner of a process, its severity policy, the buffer of install *)
(* decisions and the encrypted audit log, and scanAll, which scans a list  *)
(* of packages and records a decision for each.                            *)
(*                                                                         *)
(* A caller of activate passes [policy, document, dryRun, log].            *)
(***************************************************************************)
EXTENDS ThreatMatch

CONSTANTS
    Log,        \* audit logs
    Feed,       \* contents the threat feed may have
    Slot,       \* slots for calls of scanAll under way
    None        \* no policy, document, provider, feed or log

VARIABLES
    provider,       \* state.provider
    config,         \* state.policyDocument and state.dryRun
    globalPolicy,   \* provider/policy.ts: what setPolicy left
    sink,           \* state.auditSink
    decisions,      \* state.decisions
    logs,           \* logs[l]: the decisions in audit log l
    feed,           \* what the feed says now
    scan            \* scan[k]: the call in slot k

stateVars == <<provider, config, globalPolicy, sink>>
chainVars == <<stateVars, decisions, logs, feed, scan>>

Inactive == [document |-> None, dryRun |-> FALSE]

\* A call: the packages, the provider it picked and the feed it loaded; the
\* advisories; how many decisions are recorded; the decision being appended
\* and the log it goes to.  "log" and "disturbed" are for the properties: the
\* log in use when the call began, and whether a caller of the module changed
\* the active scanner or the buffer since.
Free == [phase |-> "free", packages |-> <<>>, provider |-> None, feed |-> None,
         found |-> {}, recorded |-> 0, writing |-> None, to |-> None,
         log |-> None, disturbed |-> FALSE]

ChainInit ==
    /\ provider = None
    /\ config = Inactive
    /\ globalPolicy = None
    /\ sink = None
    /\ decisions = <<>>
    /\ logs = [l \in Log |-> <<>>]
    /\ feed \in Feed
    /\ scan = [k \in Slot |-> Free]

-----------------------------------------------------------------------------
(* Policies and providers                                                  *)

GetPolicy == IF globalPolicy = None THEN DefaultPolicy ELSE globalPolicy

Provider(policy, document, dryRun) ==
    [policy |-> policy, dryRun |-> dryRun,
     overrides |-> IF document = None THEN <<>> ELSE document.overrides]

\* The policy of a provider that is made with no policy at hand.
PolicyOf(document) == IF document = None THEN GetPolicy ELSE document.policy

Underway == {k \in Slot : scan[k].phase # "free"}
Disturbed == [k \in Slot |-> [scan[k] EXCEPT !.disturbed = k \in Underway]]

\* What activate(c) leaves behind, the state of the calls aside.
Activated(c) ==
    /\ config' = [document |-> c.document, dryRun |-> c.dryRun]
    /\ sink' = c.log
    /\ provider' = Provider(IF c.policy # None THEN c.policy ELSE PolicyOf(c.document),
                            c.document, c.dryRun)
    /\ UNCHANGED globalPolicy

Activate(c) ==
    /\ Activated(c)
    /\ scan' = Disturbed
    /\ UNCHANGED <<decisions, logs, feed>>

Deactivate ==
    /\ provider' = None
    /\ config' = Inactive
    /\ globalPolicy' = None
    /\ sink' = None
    /\ decisions' = <<>>
    /\ scan' = Disturbed
    /\ UNCHANGED <<logs, feed>>

\* setSeverityPolicy, and resetSeverityPolicy with None.
SetSeverityPolicy(policy) ==
    /\ globalPolicy' = policy
    /\ provider' = IF provider = None THEN None
                   ELSE Provider(IF policy = None THEN DefaultPolicy ELSE policy,
                                 config.document, config.dryRun)
    /\ UNCHANGED <<config, sink, decisions, logs, feed, scan>>

ClearAuditBuffer ==
    /\ decisions' = <<>>
    /\ scan' = Disturbed
    /\ UNCHANGED <<stateVars, logs, feed>>

PublishFeed(f) ==
    /\ f # feed
    /\ feed' = f
    /\ UNCHANGED <<stateVars, decisions, logs, scan>>

-----------------------------------------------------------------------------
(* scanAll                                                                 *)

\* The call with the provider it picks; p and log are the active ones.
Called(packages, p, log) ==
    [Free EXCEPT !.phase = "feed", !.packages = packages, !.log = log,
        !.provider = IF p # None THEN p
                     ELSE Provider(PolicyOf(config.document), config.document, config.dryRun)]

\* loadThreatFeed returns what the feed says.
LoadFeed(k) ==
    /\ scan[k].phase = "feed"
    /\ scan' = [scan EXCEPT ![k].phase = "match", ![k].feed = feed]
    /\ UNCHANGED <<stateVars, decisions, logs, feed>>

\* The matching is over and the advisories are made.
MatchPackages(k) ==
    /\ scan[k].phase = "match"
    /\ scan' = [scan EXCEPT ![k].phase = "record",
                   ![k].found = Scan(scan[k].provider, scan[k].packages, scan[k].feed)]
    /\ UNCHANGED <<stateVars, decisions, logs, feed>>

\* The decision on pkg; the last five fields say which scan made it.
Decision(k, pkg) ==
    [package |-> pkg,
     allowed |-> \A a \in scan[k].found : a.package = pkg.name => a.version # pkg.version,
     log |-> scan[k].log, disturbed |-> scan[k].disturbed,
     provider |-> scan[k].provider, feed |-> scan[k].feed,
     parallel |-> Len(scan[k].packages) >= Threshold]

\* recordDecision: into the buffer, then into the log if there is one.
RecordDecision(k) ==
    /\ scan[k].phase = "record"
    /\ scan[k].recorded < Len(scan[k].packages)
    /\ LET decision == Decision(k, scan[k].packages[scan[k].recorded + 1])
       IN /\ decisions' = Append(decisions, decision)
          /\ scan' = IF sink = None THEN [scan EXCEPT ![k].recorded = @ + 1]
                     ELSE [scan EXCEPT ![k].phase = "append", ![k].writing = decision, ![k].to = sink]
    /\ UNCHANGED <<stateVars, logs, feed>>

\* The call goes on to the next package.
GoesOn(k) ==
    scan' = [scan EXCEPT ![k].phase = "record", ![k].recorded = @ + 1,
                         ![k].writing = None, ![k].to = None]

AppendDecision(k) ==
    /\ scan[k].phase = "append"
    /\ logs' = [logs EXCEPT ![scan[k].to] = Append(@, scan[k].writing)]
    /\ GoesOn(k)
    /\ UNCHANGED <<stateVars, decisions, feed>>

\* The feed, a worker or the audit log can fail; scanAll rejects.
MayFail(k) ==
    \/ scan[k].phase \in {"feed", "append"}
    \/ scan[k].phase = "match" /\ Len(scan[k].packages) >= Threshold

AllRecorded(k) ==
    scan[k].phase = "record" /\ scan[k].recorded = Len(scan[k].packages)

ScanStep(k) ==
    LoadFeed(k) \/ MatchPackages(k) \/ RecordDecision(k) \/ AppendDecision(k)
=============================================================================
