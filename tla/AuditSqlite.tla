---------------------------- MODULE AuditSqlite -----------------------------
(***************************************************************************)
(* The other backend of the audit log, EncryptedSQLiteSink                 *)
(* (src/src/audit/encrypted-sqlite-sink.ts): how a domain's config selects *)
(* it (src/src/domain/audit-paths.ts, src/src/audit/factory.ts), the       *)
(* appends of several processes to one database, the thumbnails that are   *)
(* added to stored entries, and `audit tail --follow`, which counts        *)
(* entries that the database sorts by the time they were decided.          *)
(***************************************************************************)
EXTENDS Naturals, FiniteSets, Sequences, SequencesExt

CONSTANTS
    LogEntry,   \* audit entries, numbered in the order they are decided
    Writer,     \* processes with a sink of their own on the database
    Setup,      \* the builds, configs and environments of a process
    MaxCalls,   \* bound on the appends under way at once
    MaxPolls    \* bound on the polls under way at once

SqlKey == {"key one", "key two"}

ASSUME SqliteAssumption ==
    /\ LogEntry \subseteq Nat /\ MaxPolls \in Nat \ {0}
    /\ Setup \subseteq [jsonl : BOOLEAN, sqlite : BOOLEAN, jsonlPath : {"lines", "db"},
                        sqlitePath : {"none", "lines", "db"},
                        masterKey : SqlKey \union {"null", "unset"},
                        env : SqlKey \union {"unset"}]

VARIABLES
    rows,       \* the table: an entry's key, and whether it has its thumbnail
    sinks,      \* sinks[w]: the key of a process with the database open
    calls,      \* the appends under way
    acked,      \* history: the appends that returned
    late,       \* history: the entries stored after one that was decided later
    tail        \* the follower

sqliteVars == <<rows, sinks, calls, acked, late, tail>>

NoTail == [by |-> "no one", following |-> FALSE, seen |-> 0, reading |-> {}, printed |-> {}]

Row == [key : SqlKey, visual : BOOLEAN]
Call == [by : Writer, entry : LogEntry, visual : BOOLEAN]
Ack == [entry : LogEntry, key : SqlKey, visual : BOOLEAN]
Read == [poll : 1 .. MaxPolls, entries : SUBSET LogEntry]
Follower == [by : Writer \union {"no one"}, following : BOOLEAN, seen : Nat,
             reading : SUBSET Read, printed : SUBSET LogEntry]

SqliteTypeOK ==
    /\ DOMAIN rows \subseteq LogEntry /\ rows \in [DOMAIN rows -> Row]
    /\ sinks \in [Writer -> SqlKey \union {"unset"}]
    /\ calls \subseteq Call /\ acked \subseteq Ack
    /\ late \subseteq LogEntry /\ tail \in Follower

SqliteInit ==
    /\ rows = <<>> /\ calls = {} /\ acked = {} /\ late = {}
    /\ sinks = [w \in Writer |-> "unset"] /\ tail = NoTail

-----------------------------------------------------------------------------
(* The backend                                                             *)

\* A path for lines there always is, as a default.
ResolveDomainAudit(s) ==
    IF s.jsonl THEN s.jsonlPath ELSE IF s.sqlite THEN s.sqlitePath ELSE "none"

\* The environment's key is for a config that says null.
ResolveDomainAuditMasterKey(s) ==
    IF ResolveDomainAudit(s) = "none" THEN "unset"
    ELSE IF s.masterKey = "null" THEN s.env ELSE s.masterKey

\* What the path ends with decides, not which backend the config names.  No
\* database is opened without a key, for a path of lines, or by a build that
\* has none; the last one throws.
CreateAuditSink(s) ==
    IF ResolveDomainAudit(s) = "db" /\ s.sqlite THEN ResolveDomainAuditMasterKey(s) ELSE "unset"

CreateDomain(w, s) ==
    /\ sinks[w] = "unset"
    /\ sinks' = [sinks EXCEPT ![w] = CreateAuditSink(s)]
    /\ UNCHANGED <<rows, calls, acked, late, tail>>

\* A shell closes its sink when it has done what it does with it.
CloseDomain(w) ==
    /\ sinks[w] # "unset" /\ tail.by # w
    /\ \A c \in calls : c.by # w
    /\ sinks' = [sinks EXCEPT ![w] = "unset"]
    /\ UNCHANGED <<rows, calls, acked, late, tail>>

KillWriter(w) ==
    /\ sinks[w] # "unset"
    /\ sinks' = [sinks EXCEPT ![w] = "unset"]
    /\ calls' = {c \in calls : c.by # w}
    /\ tail' = IF tail.by = w THEN NoTail ELSE tail
    /\ UNCHANGED <<rows, acked, late>>

-----------------------------------------------------------------------------
(* append() and stream()                                                   *)

\* A row of another key does not decrypt, and is skipped.
Decrypts(w, e) == rows[e].key = sinks[w]

Stream(w) == {e \in DOMAIN rows : Decrypts(w, e)}

\* Where an entry is in what stream() yields, which is sorted.
Place(e, stream) == Cardinality({f \in stream : f <= e})

\* An entry gets an id of its own, and is stored when it is encrypted.
CallAppend(w, e) ==
    /\ sinks[w] # "unset" /\ Cardinality(calls) < MaxCalls
    /\ e \notin DOMAIN rows /\ \A c \in calls : c.entry # e
    /\ calls' = calls \union {[by |-> w, entry |-> e, visual |-> FALSE]}
    /\ UNCHANGED <<rows, sinks, acked, late, tail>>

\* The entry is read, and appended again under its id.
AddThumbnail(w, e) ==
    /\ sinks[w] # "unset" /\ Cardinality(calls) < MaxCalls /\ e \in Stream(w)
    /\ calls' = calls \union {[by |-> w, entry |-> e, visual |-> TRUE]}
    /\ UNCHANGED <<rows, sinks, acked, late, tail>>

Stores(c, row) ==
    /\ c \in calls
    /\ rows' = [e \in DOMAIN rows \union {c.entry} |-> IF e = c.entry THEN row ELSE rows[e]]
    /\ calls' = calls \ {c}
    /\ acked' = acked \union {[entry |-> c.entry, key |-> sinks[c.by], visual |-> c.visual]}
    /\ late' = late \union {e \in {c.entry} \ DOMAIN rows : \E f \in DOMAIN rows : f > e}
    /\ UNCHANGED <<sinks, tail>>

\* Faulty variant: a row that is there stays.
InsertOrIgnore(c) ==
    Stores(c, IF c.entry \in DOMAIN rows THEN rows[c.entry]
              ELSE [key |-> sinks[c.by], visual |-> c.visual])

InsertOrReplace(c) == Stores(c, [key |-> sinks[c.by], visual |-> c.visual])

\* The database is locked by another process, or cannot grow.
InsertFails(c) ==
    /\ c \in calls /\ calls' = calls \ {c}
    /\ UNCHANGED <<rows, sinks, acked, late, tail>>

-----------------------------------------------------------------------------
(* tailAuditLog                                                            *)

StartTail(w) ==
    /\ tail = NoTail /\ sinks[w] # "unset"
    /\ tail' = [NoTail EXCEPT !.by = w, !.reading = {[poll |-> 1, entries |-> Stream(w)]}]
    /\ UNCHANGED <<rows, sinks, calls, acked, late>>

Poll(i) ==
    /\ tail.following /\ \A r \in tail.reading : r.poll # i
    /\ tail' = [tail EXCEPT !.reading = @ \union {[poll |-> i, entries |-> Stream(tail.by)]}]
    /\ UNCHANGED <<rows, sinks, calls, acked, late>>

EndRead(r) ==
    /\ r \in tail.reading
    /\ tail' = [tail EXCEPT !.following = TRUE, !.seen = Cardinality(r.entries),
                    !.reading = @ \ {r},
                    !.printed = @ \union {e \in r.entries : Place(e, r.entries) > tail.seen}]
    /\ UNCHANGED <<rows, sinks, calls, acked, late>>

StopTail ==
    /\ tail.following /\ tail' = NoTail
    /\ UNCHANGED <<rows, sinks, calls, acked, late>>

SqliteNext ==
    \/ \E w \in Writer, s \in Setup : CreateDomain(w, s)
    \/ \E w \in Writer : CloseDomain(w) \/ KillWriter(w) \/ StartTail(w)
    \/ \E w \in Writer, e \in LogEntry : CallAppend(w, e) \/ AddThumbnail(w, e)
    \/ \E c \in calls : InsertOrReplace(c) \/ InsertFails(c)
    \/ StopTail \/ \E i \in 1 .. MaxPolls : Poll(i)
    \/ \E r \in tail.reading : EndRead(r)

SqliteSpec == SqliteInit /\ [][SqliteNext]_sqliteVars

-----------------------------------------------------------------------------
(* What an append was acknowledged for stays: the entry can be read with   *)
(* the key of the process that stored it, and has its thumbnail if one was *)
(* added, although processes with different keys write and replace rows of *)
(* one table, fail and die (encrypted-sqlite-sink.ts:61-71,                *)
(* service/index.ts:245-266).                                              *)
AckedRowsStay ==
    \A a \in acked :
        /\ a.entry \in DOMAIN rows /\ rows[a.entry].key = a.key
        /\ a.visual => rows[a.entry].visual

(* The follower of a database leaves out only what was stored after an     *)
(* entry that was decided later, because it counts entries that are        *)
(* sorted: whatever it printed, it printed all the others that are sorted  *)
(* before (shell.ts:625-659, encrypted-sqlite-sink.ts:73-84).              *)
TailMissesOnlyTheLate ==
    tail # NoTail =>
        \A m, n \in Stream(tail.by) :
            m < n /\ n \in tail.printed /\ m \notin late => m \in tail.printed

(* What can be relied on of an audit log in a database.                    *)
SqliteLogHolds == AckedRowsStay /\ TailMissesOnlyTheLate
=============================================================================
