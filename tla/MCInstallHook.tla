--------------------------- MODULE MCInstallHook ----------------------------
(***************************************************************************)
(* The scanner's own file, src/src/index.ts, as the hook of an install     *)
(* (InstallHook) and as a command (HookCli), and the audit log in a        *)
(* database (AuditSqlite).  They share no state; one of them runs in a     *)
(* behaviour, so that one run covers them.                                 *)
(*                                                                         *)
(* The install has two versions of one package, and another without        *)
(* tarballs; one feed blocks hashes and one goes by versions.              *)
(***************************************************************************)
EXTENDS InstallHook, HookCli, AuditSqlite

VARIABLE program    \* the one that runs

-----------------------------------------------------------------------------
(* The instances                                                           *)

Package(n, v, tarball) == [tarball |-> tarball, name |-> n, version |-> v]
Rule(n, vs, category, hashes) ==
    [hashes |-> hashes, package |-> n, range |-> vs, categories |-> {category}]

Lists == {<<Package("a", 1, TRUE), Package("a", 2, TRUE)>>,
          <<Package("a", 1, FALSE), Package("b", 1, FALSE)>>}

Feeds == {[rules |-> <<Rule("a", {1, 2}, "malware", {"bad"}), Rule("b", {1}, "adware", {})>>,
           allowlist |-> {}],
          [rules |-> <<Rule("a", {2}, "deprecated", {}), Rule("b", {1}, "token-stealer", {})>>,
           allowlist |-> {[package |-> "a", range |-> {1}]}]}

NoRules == [rules |-> <<>>, allowlist |-> {}]
Hashes == {"good", "bad"}

With(flags, env, titled, feeds, registered, tty) ==
    [flags |-> flags, env |-> env, named |-> titled, feed |-> feeds,
     registry |-> registered, tty |-> tty]

\* Each helper, and two of them at once.
MCCommandLine ==
    {With({"healthcheck"}, FALSE, TRUE, "remote", TRUE, FALSE),
     With({"healthcheck", "store"}, TRUE, FALSE, "remote", FALSE, TRUE),
     With({"healthcheck"}, FALSE, FALSE, "file", FALSE, TRUE),
     With({"check-registry"}, TRUE, TRUE, "own", TRUE, FALSE),
     With({"store"}, FALSE, TRUE, "own", FALSE, FALSE),
     With({"clear", "list"}, FALSE, TRUE, "own", FALSE, FALSE),
     With({"list"}, FALSE, TRUE, "own", FALSE, FALSE),
     With({}, FALSE, FALSE, "own", FALSE, FALSE)}

Built(jsonlIn, sqliteIn, lines, db, configured, env) ==
    [jsonl |-> jsonlIn, sqlite |-> sqliteIn, jsonlPath |-> lines, sqlitePath |-> db,
     masterKey |-> configured, env |-> env]

\* A database by the build and by the path, with a key each; no key; and a
\* path that the build has no backend for.
MCSetup == {Built(FALSE, TRUE, "lines", "db", "null", "key one"),
            Built(TRUE, TRUE, "db", "none", "key two", "unset"),
            Built(FALSE, TRUE, "lines", "db", "unset", "key one"),
            Built(TRUE, FALSE, "db", "none", "key one", "unset")}

Symmetry == Permutations(Task) \union Permutations(Writer)

-----------------------------------------------------------------------------
Programs == {"install", "command", "log"}

\* The install alone has more than one state to begin in.
MCInit ==
    /\ program \in Programs /\ Init /\ HookInit /\ SqliteInit
    /\ program # "install" => /\ origin = (CHOOSE f \in Feed : TRUE) /\ cache = None
                              /\ \A t \in Tarballs : registry[t] = "good"

RunInstall == program = "install" /\ Next /\ UNCHANGED <<program, hookVars, sqliteVars>>
RunCommand == program = "command" /\ HookNext /\ UNCHANGED <<program, vars, sqliteVars>>
RunLog == program = "log" /\ SqliteNext /\ UNCHANGED <<program, vars, hookVars>>

MCNext == RunInstall \/ RunCommand \/ RunLog

MCSpec == MCInit /\ [][MCNext]_<<program, vars, hookVars, sqliteVars>>

\* Every module's state has its types.
MCTypeOK == program \in Programs /\ TypeOK /\ HookTypeOK /\ SqliteTypeOK
=============================================================================
