------------------------------- MODULE EventLog -------------------------------
(***************************************************************************)
(* The event log of the install hook (src/src/index.ts): a host scans one  *)
(* time after another, and every scan writes its events through a writer   *)
(* that all of the process shares.  A feed that comes from the cache is    *)
(* fetched again in the background, and the fetch logs, too.               *)
(*                                                                         *)
(* A log is configured and its path stays.  An event is written when it is *)
(* emitted; the flush after it is only a time for others to go on.         *)
(***************************************************************************)
EXTENDS Naturals, Sequences

CONSTANTS
    Scan,          \* the scans of a host, numbered as they begin
    MaxVerdicts    \* bound on the threats and exceptions of a scan

VARIABLES
    scan,      \* scan[s]: where scan s is
    verdicts,  \* verdicts[s]: how many it has logged
    refresh,   \* refresh[s]: the refresh that scan s left in the background
    open,      \* the writer is open
    log,       \* the lines written since the file was last opened
    rest       \* what older lines follow them

logVars == <<scan, verdicts, refresh, open, log, rest>>

Event == [type : {"feed.loaded", "scan.start", "threat", "scan.complete"}, scan : Scan]

LogTypeOK ==
    /\ scan \in [Scan -> {"none", "loading", "loaded", "started", "completed", "returned", "thrown"}]
    /\ verdicts \in [Scan -> 0 .. MaxVerdicts]
    /\ refresh \in [Scan -> {"none", "fetching", "over"}]
    /\ open \in BOOLEAN
    /\ log \in Seq(Event) /\ rest \in Seq(Event)

LogInit ==
    /\ scan = [s \in Scan |-> "none"]
    /\ verdicts = [s \in Scan |-> 0]
    /\ refresh = [s \in Scan |-> "none"]
    /\ open = FALSE
    /\ log = <<>> /\ rest = <<>>

Dropped(lines) == IF lines = <<>> THEN lines ELSE Tail(lines)

\* A file is opened at its head.  Whether the runtime also truncates it is its
\* choice; where it does not, a line takes the place of an older one.
Emit(type, s) ==
    \E truncates \in BOOLEAN :
        LET older == IF open THEN rest ELSE IF truncates THEN <<>> ELSE log \o rest
        IN /\ truncates => ~open
           /\ log' = Append(IF open THEN log ELSE <<>>, [type |-> type, scan |-> s])
           /\ rest' = Dropped(older)
           /\ open' = TRUE

Goes(s, to) == scan' = [scan EXCEPT ![s] = to]

StartScan(s) ==
    /\ scan[s] = "none"
    /\ \A before \in Scan : before < s => scan[before] \in {"returned", "thrown"}
    /\ Goes(s, "loading")
    /\ UNCHANGED <<verdicts, refresh, open, log, rest>>

Loaded(s) ==
    /\ scan[s] = "loading"
    /\ Emit("feed.loaded", s)
    /\ Goes(s, "loaded")
    /\ UNCHANGED <<verdicts, refresh>>

\* A remote feed without a cached one.
LoadRemote(s) == Loaded(s)
LoadStdin(s) == Loaded(s)
LoadLocal(s) == Loaded(s)

\* The default rules log when the process first reads them; the bundled ones
\* never do.
LoadDefault(s) ==
    \/ Loaded(s)
    \/ /\ scan[s] = "loading"
       /\ Goes(s, "loaded")
       /\ UNCHANGED <<verdicts, refresh, open, log, rest>>

\* Nobody waits for the refresh.
LoadCached(s) ==
    /\ scan[s] = "loading"
    /\ refresh' = [refresh EXCEPT ![s] = "fetching"]
    /\ Emit("feed.loaded", s)
    /\ Goes(s, "loaded")
    /\ UNCHANGED verdicts

LoadThrows(s) ==
    /\ scan[s] = "loading"
    /\ Goes(s, "thrown")
    /\ UNCHANGED <<verdicts, refresh, open, log, rest>>

LogStart(s) ==
    /\ scan[s] = "loaded"
    /\ Emit("scan.start", s)
    /\ Goes(s, "started")
    /\ UNCHANGED <<verdicts, refresh>>

LogVerdict(s) ==
    /\ scan[s] = "started" /\ verdicts[s] < MaxVerdicts
    /\ verdicts' = [verdicts EXCEPT ![s] = @ + 1]
    /\ Emit("threat", s)
    /\ UNCHANGED <<scan, refresh>>

LogComplete(s) ==
    /\ scan[s] = "started"
    /\ Emit("scan.complete", s)
    /\ Goes(s, "completed")
    /\ UNCHANGED <<verdicts, refresh>>

CloseLog(s) ==
    /\ scan[s] = "completed"
    /\ open' = FALSE
    /\ Goes(s, "returned")
    /\ UNCHANGED <<verdicts, refresh, log, rest>>

RefreshLoads(s) ==
    /\ refresh[s] = "fetching"
    /\ refresh' = [refresh EXCEPT ![s] = "over"]
    /\ Emit("feed.loaded", s)
    /\ UNCHANGED <<scan, verdicts>>

\* Errors of a refresh are nobody's.
RefreshFails(s) ==
    /\ refresh[s] = "fetching"
    /\ refresh' = [refresh EXCEPT ![s] = "over"]
    /\ UNCHANGED <<scan, verdicts, open, log, rest>>

LogNext ==
    \E s \in Scan :
        \/ StartScan(s)
        \/ LoadRemote(s) \/ LoadCached(s) \/ LoadLocal(s) \/ LoadStdin(s) \/ LoadDefault(s)
        \/ LoadThrows(s)
        \/ LogStart(s) \/ LogVerdict(s) \/ LogComplete(s) \/ CloseLog(s)
        \/ RefreshLoads(s) \/ RefreshFails(s)

LogSpec == LogInit /\ [][LogNext]_logVars

-----------------------------------------------------------------------------
Last(lines) == lines[Len(lines)]

(* Whoever reads the log while no scan runs finds that the event after all *)
(* others is the end of a scan, once one has returned                      *)
(* (tests/logging/events.test.ts:52, index.ts:918-930).                    *)
CompleteIsFinal ==
    /\ \A s \in Scan : scan[s] \in {"none", "returned"}
    /\ \E s \in Scan : scan[s] = "returned"
    => Last(log \o rest).type = "scan.complete"
=============================================================================
