------------------------------ MODULE ToolRuns -------------------------------
(***************************************************************************)
(* Child processes: runAvailableTools() of src/src/scan/tools.ts runs the  *)
(* external scanners side by side through spawnCaptured() of               *)
(* src/src/utils/process.ts, which waits for the exit before it reads the  *)
(* pipes, with a timeout for every child and an abort signal for all; and  *)
(* runOnTerminal() attaches a session to the operator's terminal           *)
(* (src/src/scan/terminal.ts).                                             *)
(*                                                                         *)
(* What a child prints is counted in portions; a pipe may hold Buffer of   *)
(* them (the runtime may also read ahead, and then the child never waits). *)
(* A child may handle SIGTERM, and exit by itself or go on, and nothing    *)
(* stronger follows.  A process that it leaves behind may hold its pipes;  *)
(* what that one prints is left out.                                       *)
(***************************************************************************)
EXTENDS Naturals, FiniteSets

CONSTANTS
    Tool,
    Portions,    \* what a child prints, at most
    Buffer       \* what a pipe holds

ASSUME ToolAssumption == Portions \in Nat /\ Buffer \in Nat

VARIABLES
    child,      \* child[t]
    call,       \* call[t]: the runTool() of t, and its result
    aborted,    \* the caller's signal
    all         \* runAvailableTools(): idle, under way or over

toolVars == <<child, call, aborted, all>>

Signals == {"SIGTERM", "SIGKILL"}
NoChild == [state |-> "none", printed |-> 0, code |-> "none", sent |-> "none",
            signal |-> "none", reads |-> FALSE, held |-> FALSE]
NoCall == [state |-> "none", code |-> "none", output |-> 0, timedOut |-> FALSE,
           killSignal |-> "SIGTERM"]

ToolTypeOK ==
    /\ child \in [Tool -> [state : {"none", "running", "ended"}, printed : 0 .. Portions,
                           code : {"none", "ok", "failed"}, sent : {"none"} \union Signals,
                           signal : {"none"} \union Signals, reads : BOOLEAN, held : BOOLEAN]]
    /\ call \in [Tool -> [state : {"none", "waiting", "reading", "over"},
                          code : {"none", "ok", "failed"}, output : 0 .. Portions,
                          timedOut : BOOLEAN, killSignal : Signals]]
    /\ aborted \in BOOLEAN
    /\ all \in {"idle", "under way", "over"}

ToolInit ==
    /\ child = [t \in Tool |-> NoChild]
    /\ call = [t \in Tool |-> NoCall]
    /\ aborted = FALSE
    /\ all = "idle"

-----------------------------------------------------------------------------
(* Starting: the tools that are found are run at once.                     *)

\* runAvailableTools() with the caller's killSignal; `ahead` are the children
\* whose pipes the runtime happens to empty before anybody asks.
RunAvailable(found, ahead, killSignal) ==
    /\ all = "idle"
    /\ all' = "under way"
    /\ child' = [t \in Tool |-> IF t \in found
                    THEN [NoChild EXCEPT !.state = "running", !.reads = t \in ahead]
                    ELSE NoChild]
    /\ call' = [t \in Tool |-> IF t \in found
                    THEN [NoCall EXCEPT !.state = "waiting", !.killSignal = killSignal]
                    ELSE NoCall]
    /\ UNCHANGED aborted

-----------------------------------------------------------------------------
(* The children.                                                           *)

Running(t) == child[t].state = "running"

Prints(t) ==
    /\ Running(t)
    /\ child[t].printed < Portions
    /\ child[t].reads \/ child[t].printed < Buffer
    /\ child' = [child EXCEPT ![t].printed = @ + 1]
    /\ UNCHANGED <<call, aborted, all>>

\* A child that waits for a full pipe cannot exit, but its handler of SIGTERM
\* can.
Blocked(t) ==
    /\ ~child[t].reads /\ child[t].printed = Buffer /\ Buffer < Portions
    /\ child[t].sent # "SIGTERM"

Ended(t, code, signal) == \E held \in BOOLEAN :
    child' = [child EXCEPT ![t].state = "ended", ![t].code = code, ![t].signal = signal,
                           ![t].held = held]

Exit(t, code) ==
    /\ Running(t) /\ ~Blocked(t)
    /\ Ended(t, code, "none")
    /\ UNCHANGED <<call, aborted, all>>

\* A signal has its effect.
SignalFells(t) ==
    /\ Running(t) /\ child[t].sent # "none"
    /\ Ended(t, "failed", child[t].sent)
    /\ UNCHANGED <<call, aborted, all>>

\* What a child left behind ends.
PipesClose(t) ==
    /\ child[t].held
    /\ child' = [child EXCEPT ![t].held = FALSE]
    /\ UNCHANGED <<call, aborted, all>>

\* Faulty variant: the time runs only while somebody reads the pipes.
TimeoutUnlessDefault(t) ==
    /\ Running(t) /\ child[t].reads /\ child[t].sent = "none"
    /\ child' = [child EXCEPT ![t].sent = call[t].killSignal]
    /\ UNCHANGED <<call, aborted, all>>

\* The timeout (30 s if the caller names none) sends the kill signal, once.
Timeout(t) ==
    /\ Running(t) /\ child[t].sent = "none"
    /\ child' = [child EXCEPT ![t].sent = call[t].killSignal]
    /\ UNCHANGED <<call, aborted, all>>

\* The abort signal of the caller sends it to every child.
Abort ==
    /\ all = "under way" /\ ~aborted
    /\ aborted' = TRUE
    /\ child' = [t \in Tool |-> IF Running(t)
                    THEN [child[t] EXCEPT !.sent = call[t].killSignal]
                    ELSE child[t]]
    /\ UNCHANGED <<call, all>>

-----------------------------------------------------------------------------
(* spawnCaptured(): exit, then the verdict, then both pipes to their end.  *)

\* A kill by SIGTERM under a timeout is a timeout, unless the caller aborted.
WasSpawnTimedOut(t) == child[t].signal = "SIGTERM" /\ ~aborted

Exited(t) ==
    /\ call[t].state = "waiting" /\ child[t].state = "ended"
    /\ call' = [call EXCEPT
           ![t].code = child[t].code,
           ![t].timedOut = WasSpawnTimedOut(t),
           ![t].state = IF WasSpawnTimedOut(t) THEN "over" ELSE "reading"]
    /\ UNCHANGED <<child, aborted, all>>

\* A pipe ends when nobody holds it any more.
ReadPipes(t) ==
    /\ call[t].state = "reading" /\ ~child[t].held
    /\ call' = [call EXCEPT ![t].output = child[t].printed, ![t].state = "over"]
    /\ UNCHANGED <<child, aborted, all>>

\* Promise.all of the calls.
AllOver ==
    /\ all = "under way"
    /\ \A t \in Tool : call[t].state \in {"none", "over"}
    /\ all' = "over"
    /\ UNCHANGED <<child, call, aborted>>

ToolNext ==
    \/ \E found, ahead \in SUBSET Tool, s \in Signals : RunAvailable(found, ahead, s)
    \/ \E t \in Tool : Prints(t) \/ SignalFells(t) \/ PipesClose(t)
    \/ \E t \in Tool, code \in {"ok", "failed"} : Exit(t, code)
    \/ \E t \in Tool : Timeout(t)
    \/ Abort
    \/ \E t \in Tool : Exited(t)
    \/ \E t \in Tool : ReadPipes(t)
    \/ AllOver

\* A timer that is due fires, what is awaited comes, and SIGKILL ends a child.
\* No child has to print, to exit or to heed SIGTERM.
ToolFairness ==
    WF_toolVars(\/ AllOver
                \/ \E t \in Tool : \/ Timeout(t) \/ Exited(t) \/ ReadPipes(t)
                                   \/ child[t].sent = "SIGKILL" /\ SignalFells(t))

-----------------------------------------------------------------------------
Defies(t) == Running(t) /\ child[t].sent = "SIGTERM"

(* All results are there in the end, even of a child that waits for its    *)
(* pipe to be read while spawnCaptured() waits for it to exit, unless a    *)
(* child defies SIGTERM for ever, or what one left behind holds a pipe for *)
(* ever: after those nothing asks (process.ts:418-449, tools.ts:208-214).  *)
ToolsAreReported ==
    \/ (all = "under way") ~> (all = "over")
    \/ \E t \in Tool : <>[]Defies(t) \/ <>[](call[t].state = "reading" /\ child[t].held)
=============================================================================
