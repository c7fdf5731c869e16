------------------------------ MODULE HookCli --------------------------------
(***************************************************************************)
(* The scanner run by hand (src/src/index.ts): the health check, the       *)
(* registry check and the commands that store, clear and look for the feed *)
(* token in the OS keychain.  Several processes share the keychain, which  *)
(* locks and unlocks, as the feed and the registry come and go.            *)
(*                                                                         *)
(* A command line is its flags and what the settings say: the token        *)
(* provider, whether a token has a name, whether the feed is remote, a     *)
(* file, or needs neither (stdin, the default rules), and whether a        *)
(* registry is set.  A retried request counts by its last one.             *)
(* To the checks a runtime without Bun.secrets is a keychain that does not *)
(* answer.                                                                 *)
(***************************************************************************)
EXTENDS Naturals, FiniteSets

CONSTANTS
    Proc,
    CommandLine,   \* command lines that are tried
    NoToken,
    MaxOutages     \* bound on changes of what can be reached

ASSUME HookCliAssumption ==
    /\ MaxOutages \in Nat /\ NoToken \notin Proc
    /\ CommandLine # {}
    /\ CommandLine \subseteq [flags : SUBSET {"healthcheck", "check-registry", "store", "clear", "list"},
                              env : BOOLEAN, named : BOOLEAN, feed : {"remote", "file", "own"},
                              registry : BOOLEAN, tty : BOOLEAN]

VARIABLES
    up,        \* what answers: the keychain, the feed, the registry
    outages,
    token,     \* the token in the keychain; each process brings its own
    probe,     \* the placeholder of the write probe is in the keychain
    strandedProbe,  \* history: a probe's clean-up failed, or its process was killed
    proc,      \* the processes
    reach      \* history: reach[p]: what answered and what did not since p began

hookVars == <<up, outages, token, probe, strandedProbe, proc, reach>>

Remote == {"keychain", "feed", "registry"}
Unknown == "unknown"
Answered == {"yes", "no"}
Verdict(healthy) == IF healthy THEN "yes" ELSE "no"
NoProc == [at |-> "none", line |-> CHOOSE c \in CommandLine : TRUE, store |-> Unknown,
           feed |-> Unknown, secrets |-> Unknown, registry |-> Unknown]
ProcOver == {"exit 0", "exit 1", "imported", "killed"}

Running == {"health", "registry", "token", "swept", "probed", "asked"}
Asked == {Unknown} \union Answered

\* The answers so far: `feed` is "token" between the token and the request.
Process == [at : {"none"} \union Running \union ProcOver, line : CommandLine, store : Asked,
            feed : {"token"} \union Asked, secrets : Asked, registry : Asked]

HookTypeOK ==
    /\ up \subseteq Remote /\ outages \in 0 .. MaxOutages
    /\ token \in Proc \union {NoToken}
    /\ probe \in BOOLEAN /\ strandedProbe \in BOOLEAN
    /\ proc \in [Proc -> Process]
    /\ reach \in [Proc -> [up : SUBSET Remote, down : SUBSET Remote]]

HookInit ==
    /\ up = Remote /\ outages = 0
    /\ token = NoToken /\ probe = FALSE /\ strandedProbe = FALSE
    /\ proc = [p \in Proc |-> NoProc]
    /\ reach = [p \in Proc |-> [up |-> {}, down |-> {}]]

-----------------------------------------------------------------------------
Outage(what) ==
    /\ outages < MaxOutages
    /\ outages' = outages + 1
    /\ up' = IF what \in up THEN up \ {what} ELSE up \union {what}
    /\ reach' = [p \in Proc |-> [up |-> reach[p].up \union up',
                                 down |-> reach[p].down \union (Remote \ up')]]
    /\ UNCHANGED <<token, probe, strandedProbe, proc>>

\* The top level of the module: each helper is left at once without its flag,
\* and the first one that has it never returns.
FirstHelper(flags) ==
    IF "healthcheck" \in flags THEN "health"
    ELSE IF "check-registry" \in flags THEN "registry" ELSE "token"

Begin(p, line) ==
    /\ proc[p].at = "none"
    /\ proc' = [proc EXCEPT ![p] = [NoProc EXCEPT !.at = FirstHelper(line.flags), !.line = line]]
    /\ reach' = [reach EXCEPT ![p] = [up |-> up, down |-> Remote \ up]]
    /\ UNCHANGED <<up, outages, token, probe, strandedProbe>>

Goes(p, at) == proc' = [proc EXCEPT ![p].at = at]

\* The registry answers, or it is down or answers 401 or another error.
CheckRegistry(p) ==
    /\ proc[p].at = "registry"
    /\ Goes(p, IF proc[p].line.registry /\ "registry" \in up THEN "exit 0" ELSE "exit 1")
    /\ UNCHANGED <<up, outages, token, probe, strandedProbe, reach>>

-----------------------------------------------------------------------------
(* --healthcheck: three answers, side by side or, on a terminal, one after *)
(* the other.  Whether the store can be reached is asked once a process.   *)

Turn(p, part) ==
    /\ proc[p].at = "health" /\ proc[p][part] = Unknown
    /\ proc[p].line.tty =>
          /\ part = "secrets" => proc[p].feed \in Answered
          /\ part = "registry" => proc[p].secrets \in Answered

AnswersTo(p, part, healthy) == proc' = [proc EXCEPT ![p][part] = Verdict(healthy)]

StoreReached(p) ==
    proc[p].store = "yes" \/ (proc[p].store = Unknown /\ "keychain" \in up)

\* A remote feed wants a token first, if one has a name.  A keychain that does
\* not answer ends the process before there is a report.
FeedToken(p) ==
    /\ Turn(p, "feed")
    /\ proc' = [proc EXCEPT ![p] =
           IF proc[p].line.feed # "remote"
             THEN [@ EXCEPT !.feed = Verdict(proc[p].line.feed = "file" => "feed" \in up)]
           ELSE IF proc[p].line.env \/ ~proc[p].line.named THEN [@ EXCEPT !.feed = "token"]
           ELSE IF StoreReached(p) THEN [@ EXCEPT !.feed = "token", !.store = "yes"]
           ELSE [@ EXCEPT !.at = "exit 1", !.store = "no"]]
    /\ UNCHANGED <<up, outages, token, probe, strandedProbe, reach>>

FeedHealth(p) ==
    /\ proc[p].at = "health" /\ proc[p].feed = "token"
    /\ AnswersTo(p, "feed", "feed" \in up)
    /\ UNCHANGED <<up, outages, token, probe, strandedProbe, reach>>

SecretsHealth(p) ==
    /\ Turn(p, "secrets")
    /\ IF proc[p].line.env THEN AnswersTo(p, "secrets", TRUE)
       ELSE proc' = [proc EXCEPT ![p].secrets = Verdict(StoreReached(p)),
                                 ![p].store = Verdict(StoreReached(p))]
    /\ UNCHANGED <<up, outages, token, probe, strandedProbe, reach>>

RegistryHealth(p) ==
    /\ Turn(p, "registry")
    /\ AnswersTo(p, "registry", proc[p].line.registry => "registry" \in up)
    /\ UNCHANGED <<up, outages, token, probe, strandedProbe, reach>>

\* Faulty variant: a registry that does not answer is not asked for.
AllHealthyButRegistry(p) == {proc[p].feed, proc[p].secrets} = {"yes"}

AllHealthy(p) == {proc[p].feed, proc[p].secrets, proc[p].registry} = {"yes"}

ReportHealth(p) ==
    /\ proc[p].at = "health"
    /\ {proc[p].feed, proc[p].secrets, proc[p].registry} \subseteq Answered
    /\ Goes(p, IF AllHealthy(p) THEN "exit 0" ELSE "exit 1")
    /\ UNCHANGED <<up, outages, token, probe, strandedProbe, reach>>

-----------------------------------------------------------------------------
(* runTokenCli: without a flag the import goes on.                         *)

TokenFlags(p) == proc[p].line.flags \intersect {"store", "clear", "list"}

\* Another provider, or no name: nothing is touched.
RefuseTokenCli(p) ==
    /\ proc[p].at = "token" /\ TokenFlags(p) # {}
    /\ proc[p].line.env \/ ~proc[p].line.named
    /\ Goes(p, "exit 1")
    /\ UNCHANGED <<up, outages, token, probe, strandedProbe, reach>>

\* A runtime without Bun.secrets ends here, with or without a flag.
NoSecretsApi(p) ==
    /\ proc[p].at = "token"
    /\ ~(TokenFlags(p) # {} /\ proc[p].line.env)
    /\ Goes(p, "exit 1")
    /\ UNCHANGED <<up, outages, token, probe, strandedProbe, reach>>

Import(p) ==
    /\ proc[p].at = "token" /\ TokenFlags(p) = {}
    /\ Goes(p, "imported")
    /\ UNCHANGED <<up, outages, token, probe, strandedProbe, reach>>

Commands(p, flag) ==
    /\ proc[p].at = "token" /\ ~proc[p].line.env /\ proc[p].line.named
    /\ flag \in TokenFlags(p)
    /\ flag # "store" => "store" \notin TokenFlags(p)
    /\ flag = "list" => "clear" \notin TokenFlags(p)

\* testKeychainWrite: write the placeholder, then delete it.
WriteProbe(p) ==
    /\ Commands(p, "store")
    /\ IF "keychain" \in up THEN probe' = TRUE /\ Goes(p, "probed")
       ELSE UNCHANGED probe /\ Goes(p, "exit 1")
    /\ UNCHANGED <<up, outages, token, strandedProbe, reach>>

\* A clean-up that fails is a warning; one that finds nothing, too.
SweepProbe(p) ==
    /\ proc[p].at = "probed"
    /\ IF "keychain" \in up THEN probe' = FALSE /\ UNCHANGED strandedProbe
       ELSE UNCHANGED probe /\ strandedProbe' = TRUE
    /\ Goes(p, "swept")
    /\ UNCHANGED <<up, outages, token, reach>>

\* The token comes from the flag, the prompt or stdin; or from none of them.
AskToken(p, given) ==
    /\ proc[p].at = "swept"
    /\ Goes(p, IF given THEN "asked" ELSE "exit 1")
    /\ UNCHANGED <<up, outages, token, probe, strandedProbe, reach>>

StoreToken(p) ==
    /\ proc[p].at = "asked"
    /\ IF "keychain" \in up THEN token' = p /\ Goes(p, "exit 0")
       ELSE UNCHANGED token /\ Goes(p, "exit 1")
    /\ UNCHANGED <<up, outages, probe, strandedProbe, reach>>

\* A token that is not there is no error.
ClearToken(p) ==
    /\ Commands(p, "clear")
    /\ IF "keychain" \in up THEN token' = NoToken /\ Goes(p, "exit 0")
       ELSE UNCHANGED token /\ Goes(p, "exit 1")
    /\ UNCHANGED <<up, outages, probe, strandedProbe, reach>>

ListToken(p) ==
    /\ Commands(p, "list")
    /\ Goes(p, IF "keychain" \in up THEN "exit 0" ELSE "exit 1")
    /\ UNCHANGED <<up, outages, token, probe, strandedProbe, reach>>

KillHook(p) ==
    /\ proc[p].at \in Running
    /\ strandedProbe' = (strandedProbe \/ proc[p].at = "probed")
    /\ Goes(p, "killed")
    /\ UNCHANGED <<up, outages, token, probe, reach>>

HookNext ==
    \/ \E what \in Remote : Outage(what)
    \/ \E p \in Proc, line \in CommandLine : Begin(p, line)
    \/ \E p \in Proc : CheckRegistry(p)
    \/ \E p \in Proc : FeedToken(p) \/ FeedHealth(p) \/ SecretsHealth(p) \/ RegistryHealth(p)
    \/ \E p \in Proc : ReportHealth(p)
    \/ \E p \in Proc : RefuseTokenCli(p) \/ NoSecretsApi(p) \/ Import(p)
    \/ \E p \in Proc : WriteProbe(p) \/ SweepProbe(p)
    \/ \E p \in Proc, given \in BOOLEAN : AskToken(p, given)
    \/ \E p \in Proc : StoreToken(p) \/ ClearToken(p) \/ ListToken(p)
    \/ \E p \in Proc : KillHook(p)

HookSpec == HookInit /\ [][HookNext]_hookVars

-----------------------------------------------------------------------------
(* The placeholder of a write probe is in the keychain only while a store  *)
(* is between its write and its clean-up, unless a clean-up failed or a    *)
(* process was killed there, however several stores overlap and the        *)
(* keychain locks; an operator who gives no token leaves none behind       *)
(* (index.ts:1324-1355, 1404-1461).                                        *)
ProbeIsSwept == probe => strandedProbe \/ \E p \in Proc : proc[p].at = "probed"

(* A health check that exits with 0 found each thing it depends on         *)
(* reachable at some time since it began, and one that exits with 1 found  *)
(* one of them out of reach, though they come and go between its questions *)
(* and the store is asked once (index.ts:1125-1298, secrets-backend.ts:    *)
(* 40-56).                                                                 *)
HealthIsTrue ==
    \A p \in Proc :
        LET line == proc[p].line
            needed == (IF line.feed = "own" THEN {} ELSE {"feed"})
                        \union (IF line.env THEN {} ELSE {"keychain"})
                        \union (IF line.registry THEN {"registry"} ELSE {})
        IN "healthcheck" \in line.flags =>
            /\ proc[p].at = "exit 0" => needed \subseteq reach[p].up
            /\ proc[p].at = "exit 1" => needed \intersect reach[p].down # {}

(* What can be relied on of the hook's commands, in any order and number.  *)
HookCommandsHold == HealthIsTrue /\ ProbeIsSwept
=============================================================================
