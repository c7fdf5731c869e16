----------------------------- MODULE MCCommands ------------------------------
(***************************************************************************)
(* The commands around the scanner, checked together: `bun sp` with its    *)
(* shell and scans, the external tools, the migration of the vaults,       *)
(* `sp qr`, the secrets with the services that sign with them,             *)
(* `sp doctor`, the load of a feed from its source, and the scans of       *)
(* domains, sources, TLS endpoints and web pages.  They share no state but *)
(* the files and the keychain that each of the modules has, so that one of *)
(* them runs at a time here.                                               *)
(***************************************************************************)
EXTENDS OperatorShell, ToolRuns, VaultMigration, QrCache, CsrfSecrets, Doctor, FeedSource,
        ScanCommands, TlsScan, WebReport

VARIABLE program    \* the one that runs

-----------------------------------------------------------------------------
(* The instances                                                           *)

\* In the migration, a crash, keys that master-key changes and a load are so
\* many at most.  At the doctor, one run comes with MaxBustle less two changes
\* and kills, two one after the other with one fewer, two at a time with two
\* fewer.
CONSTANTS
    a1, a2, d1, d2,
    MaxMishaps,   \* bound on what comes together in the migration
    MaxBustle     \* bound on what comes together at the doctor

\* Two audit logs, and a domain with neither a log nor a terminal.
MCConfig == {[log |-> a1, interactive |-> TRUE], [log |-> a2, interactive |-> TRUE],
             [log |-> Nothing, interactive |-> FALSE]}

Naming(id, flaw, inlined, legacy) ==
    [id |-> id, flaw |-> flaw, inline |-> inlined, legacy |-> legacy]

MCContent == {Naming(d1, "none", FALSE, FALSE), Naming(d1, "merged", FALSE, FALSE),
              Naming(d2, "none", TRUE, FALSE), Naming(d2, "public", FALSE, TRUE)}
MCFirstFiles == <<Naming(d1, "none", FALSE, FALSE), Naming(d2, "none", TRUE, FALSE)>>

With(metadata, stored, keychain) ==
    [meta |-> metadata, store |-> stored, key |-> keychain, csrf |-> keychain]

MCFirstVaults == [i \in {d1, d2} |-> With("good", TRUE, TRUE)]
\* The vault's files are deleted, or the keychain does not answer.
MCVaultChange == {With("none", FALSE, TRUE), With("good", TRUE, FALSE)}

\* Another error, another domain, or nothing that can be read.
MCFileChange == {Naming(d1, "merged", FALSE, FALSE), Naming(d2, "public", FALSE, TRUE),
                 Unreadable, Gone}

Source(raw, built, parses) == [raw |-> raw, built |-> built, parses |-> parses, looks |-> "ts"]

\* Fatal only as it is written, and only as it transpiles; what JavaScript is
\* and what it is not.
MCText == {Source({}, {}, Loader), Source({"warn"}, {}, Loader), Source({"fatal"}, {}, {"ts"}),
           Source({}, {"fatal"}, {"ts", "tsx"}), Source({"warn"}, {"fatal"}, {})}

Html(from, to, scripts, handled) ==
    [sources |-> from, links |-> to, inline |-> scripts, handlers |-> handled]

MCPage == {Html({"good"}, {"bad"}, {<<"good", "good">>}, FALSE), Html({"bad"}, {"bad"}, {}, FALSE),
           Html({}, {"good"}, {<<"good", "bad">>}, FALSE), Html({}, {}, {}, TRUE)}

From(path, url, ttl, vetted, hard, searched, built) ==
    [local |-> path, remote |-> url, cached |-> ttl, inspected |-> vetted,
     strict |-> hard, scanned |-> searched, sockets |-> built]

\* Each source; lines that are inspected, and that are searched for scripts.
MCFeedSetting == {From("document", "http", TRUE, FALSE, FALSE, FALSE, TRUE),
                  From("lines", "none", TRUE, FALSE, FALSE, FALSE, TRUE),
                  From("none", "none", TRUE, FALSE, FALSE, FALSE, TRUE),
                  From("none", "http", TRUE, TRUE, FALSE, TRUE, TRUE),
                  From("none", "http", FALSE, TRUE, TRUE, TRUE, TRUE),
                  From("none", "lines", TRUE, TRUE, TRUE, FALSE, TRUE),
                  From("none", "lines", FALSE, FALSE, FALSE, TRUE, TRUE),
                  From("none", "socket", TRUE, TRUE, TRUE, TRUE, TRUE),
                  From("none", "socket", TRUE, FALSE, FALSE, FALSE, FALSE)}

\* Three lines, whole and cut; a bad line in the middle; a document.
MCBody == {[lines |-> <<"item", "alien", "item">>, cut |-> FALSE],
           [lines |-> <<"item", "item", "item">>, cut |-> TRUE],
           [lines |-> <<"item", "bad", "item">>, cut |-> FALSE],
           [lines |-> <<"page", "item">>, cut |-> FALSE],
           [lines |-> <<"page">>, cut |-> FALSE]}

-----------------------------------------------------------------------------
Programs == {"sp", "tools", "migrate-vault", "qr", "secrets", "doctor", "feed",
             "scan", "tls", "report"}

Init ==
    /\ program \in Programs
    /\ ShellInit /\ ToolInit /\ VaultInit
    /\ QrInit /\ CsrfInit /\ DoctorInit /\ SourceInit
    /\ ScanInit /\ TlsInit /\ ReportInit

RunShell ==
    /\ program = "sp" /\ ShellNext
    /\ UNCHANGED <<program, toolVars, vaultVars, qrVars, csrfVars, doctorVars,
                   sourceVars, scanOwnVars, tlsVars, reportVars>>

RunTools ==
    /\ program = "tools" /\ ToolNext
    /\ UNCHANGED <<program, shellVars, vaultVars, qrVars, csrfVars, doctorVars,
                   sourceVars, scanOwnVars, tlsVars, reportVars>>

RunMigration ==
    /\ program = "migrate-vault" /\ VaultNext
    /\ crashes' + keyChanges' + (IF load'.step = "idle" THEN 0 ELSE 1) <= MaxMishaps
    /\ UNCHANGED <<program, shellVars, toolVars, qrVars, csrfVars, doctorVars,
                   sourceVars, scanOwnVars, tlsVars, reportVars>>

RunQr ==
    /\ program = "qr" /\ QrNext
    /\ UNCHANGED <<program, shellVars, toolVars, vaultVars, csrfVars, doctorVars,
                   sourceVars, scanOwnVars, tlsVars, reportVars>>

RunSecrets ==
    /\ program = "secrets" /\ CsrfNext
    /\ UNCHANGED <<program, shellVars, toolVars, vaultVars, qrVars, doctorVars,
                   sourceVars, scanOwnVars, tlsVars, reportVars>>

Started == {p \in Process : doctor[p].at # "off"}

RunDoctor ==
    /\ program = "doctor" /\ DoctorNext
    /\ Cardinality(Started') + Cardinality(Alive') + fileChanges' + killed' <= MaxBustle
    /\ UNCHANGED <<program, shellVars, toolVars, vaultVars, qrVars, csrfVars,
                   sourceVars, scanOwnVars, tlsVars, reportVars>>

RunFeed ==
    /\ program = "feed" /\ SourceNext
    /\ UNCHANGED <<program, shellVars, toolVars, vaultVars, qrVars, csrfVars,
                   doctorVars, scanOwnVars, tlsVars, reportVars>>

RunScans ==
    /\ program = "scan" /\ ScanNext
    /\ UNCHANGED <<program, shellVars, toolVars, vaultVars, qrVars, csrfVars,
                   sourceVars, tlsVars, reportVars>>

RunInspections ==
    /\ program = "tls" /\ TlsNext
    /\ UNCHANGED <<program, shellVars, toolVars, vaultVars, qrVars, csrfVars,
                   doctorVars, sourceVars, scanOwnVars, reportVars>>

RunReports ==
    /\ program = "report" /\ ReportNext
    /\ UNCHANGED <<program, shellVars, toolVars, vaultVars, qrVars, csrfVars,
                   doctorVars, sourceVars, scanOwnVars, tlsVars>>

Next ==
    \/ RunShell \/ RunTools \/ RunMigration
    \/ RunQr \/ RunSecrets \/ RunDoctor \/ RunFeed
    \/ RunScans \/ RunInspections \/ RunReports

vars == <<program, shellVars, toolVars, vaultVars, qrVars, csrfVars, doctorVars,
          sourceVars, scanOwnVars, tlsVars, reportVars>>

Spec ==
    /\ Init /\ [][Next]_vars
    /\ ToolFairness /\ VaultFairness /\ SocketFairness

\* Every module's state has its types.
TypeOK ==
    /\ program \in Programs
    /\ ShellTypeOK /\ ToolTypeOK /\ VaultTypeOK
    /\ QrTypeOK /\ CsrfTypeOK /\ DoctorTypeOK /\ SourceTypeOK
    /\ ScanTypeOK /\ TlsTypeOK /\ ReportTypeOK
=============================================================================
