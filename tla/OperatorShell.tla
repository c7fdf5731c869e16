---------------------------- MODULE OperatorShell ----------------------------
(***************************************************************************)
(* `bun sp` (src/src/cli/sp.ts): the operator shell of                     *)
(* src/src/interactive/shell.ts with its cached context and service        *)
(* (src/src/service/index.ts), `sp start` up to the interrupt, and         *)
(* `sp scan`.  The files of the domains are edited meanwhile, tools run on *)
(* the shared terminal, and signals come at any time.                      *)
(*                                                                         *)
(* A config is what the shell tells apart: the audit log it names, if any, *)
(* and whether it allows interactive scans.  The registry's own loads are  *)
(* those of DomainRegistry, here one step each: the shell awaits them.     *)
(***************************************************************************)
EXTENDS Naturals, FiniteSets, Sequences

CONSTANTS
    Domain,
    AuditFile,      \* files that configs name as their audit log
    Config,         \* what a readable domain file may hold
    Absent, Broken, \* no domain file; one that does not parse
    Nothing,
    MaxEdits,       \* bound on the edits of domain files
    MaxScans        \* bound on the scans of a session

ASSUME ShellAssumption ==
    /\ MaxEdits \in Nat /\ MaxScans \in Nat
    /\ Config \subseteq [log : AuditFile \union {Nothing}, interactive : BOOLEAN]
    /\ \E c \in Config : c.interactive /\ c.log # Nothing
    /\ Absent # Broken /\ {Absent, Broken, Nothing} \intersect Config = {}
    /\ Nothing \notin Domain \union AuditFile \union [domain : Domain, config : Config]

VARIABLES
    domainFile,  \* domainFile[d]: what the file of d holds
    edits,
    registry,    \* registry[d]: the config that loadAll() found
    active,      \* the shell's domain
    context,     \* the config of the shell's context
    service,     \* the shell's service
    open,        \* services that are initialised and not closed
    step,        \* what the process is doing
    scans,       \* the scans of the session
    trail,       \* trail[l]: the entries of audit file l
    named,       \* audit files the active domain named since it was chosen
    handlers,    \* interrupt handlers of the shell
    forwarders,  \* loops that copy stdin to the shared terminal
    server       \* a server listens

shellFiles == <<domainFile, edits>>
shellView == <<registry, active, context, service, open, named>>
shellLog == <<scans, trail>>
shellHost == <<handlers, forwarders, server>>
shellVars == <<shellFiles, shellView, step, shellLog, shellHost>>

Over == {"exit 0", "exit 1", "killed"}
AtPrompt == step \in {"prompt", "input"}

ShellTypeOK ==
    /\ domainFile \in [Domain -> Config \union {Absent, Broken}]
    /\ edits \in 0 .. MaxEdits
    /\ registry \in [Domain -> Config \union {Absent}]
    /\ active \in Domain \union {Nothing}
    /\ context \in Config \union {Nothing}
    /\ service = Nothing \/ (service.domain \in Domain /\ service.config \in Config)
    /\ open \in Nat
    /\ step \in {"off", "prompt", "input", "tool", "recording", "following",
                 "one shot", "serving", "returned"} \union Over
    /\ Len(scans) <= MaxScans
    /\ \A i \in 1 .. Len(scans) :
          scans[i].domain \in Domain /\ scans[i].ended \in {"no", "ok", "failed"}
    /\ DOMAIN trail = AuditFile
    /\ named \subseteq AuditFile \union {Nothing}
    /\ handlers \in Nat /\ forwarders \in 0 .. MaxScans /\ server \in BOOLEAN

FirstConfig == CHOOSE c \in Config : c.interactive /\ c.log # Nothing

ShellInit ==
    /\ domainFile = [d \in Domain |-> FirstConfig]
    /\ edits = 0
    /\ registry = [d \in Domain |-> Absent]
    /\ active = Nothing /\ context = Nothing /\ service = Nothing /\ open = 0
    /\ step = "off"
    /\ scans = <<>> /\ trail = [l \in AuditFile |-> <<>>] /\ named = {}
    /\ handlers = 0 /\ forwarders = 0 /\ server = FALSE

-----------------------------------------------------------------------------
(* The files, the registry and the ends of the process.                    *)

EditDomainFile(d, content) ==
    /\ step \notin Over \union {"off"}
    /\ edits < MaxEdits /\ content # domainFile[d]
    /\ edits' = edits + 1
    /\ domainFile' = [domainFile EXCEPT ![d] = content]
    /\ UNCHANGED <<shellView, step, shellLog, shellHost>>

\* loadAll() empties the registry, and one file that does not parse rejects it.
LoadFails == \E d \in Domain : domainFile[d] = Broken
LoadAll == registry' = IF LoadFails THEN [d \in Domain |-> Absent] ELSE domainFile
Known(d) == ~LoadFails /\ domainFile[d] # Absent

\* start()'s finally: the tail, the service, the terminal and the reader.
EndSession(status) ==
    /\ step' = status
    /\ service' = Nothing
    /\ open' = IF service = Nothing THEN open ELSE open - 1
    /\ handlers' = 0
    /\ UNCHANGED <<active, context, named, forwarders, server>>

-----------------------------------------------------------------------------
(* main() of sp: what a command line does before the shell reads a line.   *)

InvokeShell(d) ==
    /\ step = "off"
    /\ IF d = Nothing
         THEN step' = "prompt" /\ UNCHANGED shellView
         ELSE /\ LoadAll
              /\ UNCHANGED <<service, open>>
              /\ IF Known(d)
                   THEN /\ step' = "prompt" /\ active' = d /\ context' = domainFile[d]
                        /\ named' = {domainFile[d].log}
                   ELSE step' = "exit 1" /\ UNCHANGED <<active, context, named>>
    /\ UNCHANGED <<shellFiles, shellLog, shellHost>>

InvokeStart(d) ==
    /\ step = "off"
    /\ LoadAll
    /\ step' = IF Known(d) THEN "serving" ELSE "exit 1"
    /\ open' = IF Known(d) THEN open + 1 ELSE open
    /\ server' = Known(d)
    /\ handlers' = IF Known(d) THEN 1 ELSE 0
    /\ UNCHANGED <<shellFiles, active, context, service, named, shellLog, forwarders>>

\* runInteractiveScanner(): there is a terminal and the config allows its use.
InteractiveAllowed(config, tty) == tty /\ config.interactive

\* `--json` captures the tool; without it the tool gets a terminal of its own.
InvokeScan(d, json, tty) ==
    /\ step = "off"
    /\ LoadAll
    /\ step' = IF Known(d) /\ (json \/ InteractiveAllowed(domainFile[d], tty))
                 THEN "one shot" ELSE "exit 1"
    /\ UNCHANGED <<shellFiles, active, context, service, open, named, shellLog, shellHost>>

OneShotEnds(code) ==
    /\ step = "one shot"
    /\ step' = IF code = "ok" THEN "exit 0" ELSE "exit 1"
    /\ UNCHANGED <<shellFiles, shellView, shellLog, shellHost>>

\* qr, report, tls, bench, doctor and the visual commands: what they do is not
\* the shell's, and their exit code is the process's.
InvokeOther(code) ==
    /\ step = "off"
    /\ step' = IF code = "ok" THEN "exit 0" ELSE "exit 1"
    /\ UNCHANGED <<shellFiles, shellView, shellLog, shellHost>>

InvokeUnknown ==
    /\ step = "off"
    /\ step' = "exit 1"
    /\ UNCHANGED <<shellFiles, shellView, shellLog, shellHost>>

-----------------------------------------------------------------------------
(* The loop of the shell: prompt, line, command.                           *)

\* The prompt of an active domain reloads every file, outside the try that
\* turns a command's error into a message.
Prompt ==
    /\ step = "prompt"
    /\ IF active = Nothing
         THEN step' = "input" /\ UNCHANGED <<shellView, shellHost>>
         ELSE /\ LoadAll
              /\ IF LoadFails
                   THEN EndSession("exit 1")
                   ELSE /\ step' = "input"
                        /\ named' = named \union
                             {IF domainFile[active] = Absent THEN Nothing
                              ELSE domainFile[active].log}
                        /\ UNCHANGED <<active, context, service, open, shellHost>>
    /\ UNCHANGED <<shellFiles, shellLog>>

\* The end of the input, `exit` or `quit`.
Leave ==
    /\ step = "input"
    /\ EndSession("exit 0")
    /\ UNCHANGED <<shellFiles, registry, shellLog>>

\* `domain <name>`: an unknown name is an error and changes nothing.
SetDomain(d) ==
    /\ step = "input"
    /\ LoadAll
    /\ IF Known(d)
         THEN /\ active' = d /\ context' = domainFile[d] /\ named' = {domainFile[d].log}
              /\ service' = Nothing
              /\ open' = IF service = Nothing THEN open ELSE open - 1
         ELSE UNCHANGED <<active, context, service, open, named>>
    /\ step' = "prompt"
    /\ UNCHANGED <<shellFiles, shellLog, shellHost>>

\* A command that prints and leaves nothing; its error is a message, too.
Replies(reloads) ==
    /\ step = "input"
    /\ IF reloads THEN LoadAll ELSE UNCHANGED registry
    /\ step' = "prompt"
    /\ UNCHANGED <<shellFiles, active, context, service, open, named, shellLog, shellHost>>

ListDomains == Replies(TRUE)
ShowDomain == Replies(TRUE)      \* status, branding, matrix, colors
WriteBadge == Replies(TRUE)
HandleSecrets == Replies(TRUE)
RunDomainQr == Replies(TRUE)     \* QrCache has the rest
RunTls == Replies(TRUE)
PrintHelp == Replies(FALSE)
ShowFeatures == Replies(FALSE)   \* and profiles
RunBuild == Replies(FALSE)       \* a child on the terminal

-----------------------------------------------------------------------------
(* Commands with a service: getService() reuses the shell's, or makes and  *)
(* keeps one from the registry's config.                                   *)

Serviceable == active # Nothing /\ (service # Nothing \/ registry[active] # Absent)

ServiceNow ==
    IF service # Nothing THEN service
    ELSE [domain |-> active, config |-> registry[active]]

GetService ==
    /\ service' = ServiceNow
    /\ open' = IF service = Nothing THEN open + 1 ELSE open
    /\ UNCHANGED <<registry, active, context, named>>

\* audit tail without --follow, qr --text and report: they leave no state.
UseService ==
    /\ step = "input"
    /\ Serviceable /\ GetService
    /\ step' = "prompt"
    /\ UNCHANGED <<shellFiles, shellLog, shellHost>>

\* service.audit(): the entry is appended where the service's config says.
Audited(file, entry) ==
    IF file = Nothing THEN trail ELSE [trail EXCEPT ![file] = Append(@, entry)]

\* audit thumbnail: the entry with the scan's id is appended again.
AuditThumbnail(i) ==
    /\ step = "input"
    /\ Serviceable /\ GetService
    /\ LET file == ServiceNow.config.log
       IN /\ file # Nothing
          /\ \E n \in 1 .. Len(trail[file]) : trail[file][n].scan = i /\ ~trail[file][n].visual
          /\ \A n \in 1 .. Len(trail[file]) : ~(trail[file][n].scan = i /\ trail[file][n].visual)
          /\ trail' = Audited(file, [scan |-> i, domain |-> ServiceNow.domain, visual |-> TRUE])
    /\ step' = "prompt"
    /\ UNCHANGED <<shellFiles, scans, shellHost>>

\* attachPty(): a new loop copies stdin, and nothing stops those before it.
AttachPty == forwarders' = forwarders + 1

\* scan: the service may be an old one, the interactive flag is the registry's.
StartScan ==
    /\ step = "input" /\ Len(scans) < MaxScans
    /\ Serviceable /\ GetService
    /\ registry[active] # Absent /\ registry[active].interactive
    /\ scans' = Append(scans, [domain |-> active, log |-> ServiceNow.config.log,
                               named |-> named, ended |-> "no", lost |-> FALSE])
    /\ step' = "tool"
    /\ AttachPty
    /\ UNCHANGED <<shellFiles, trail, handlers, server>>

\* The flag is off, the domain is gone, or there is no such tool: an error.
RefuseScan ==
    /\ step = "input"
    /\ Serviceable /\ GetService
    /\ step' = "prompt"
    /\ UNCHANGED <<shellFiles, shellLog, shellHost>>

\* The tool ends; the resize listener and raw mode go, and the loop that
\* copies stdin stays.
ToolEnds(how) ==
    /\ step = "tool"
    /\ scans' = [scans EXCEPT ![Len(scans)].ended = how]
    /\ step' = "recording"
    /\ UNCHANGED <<shellFiles, shellView, trail, shellHost>>

LastScan == scans[Len(scans)]
Entry == [scan |-> Len(scans), domain |-> service.domain, visual |-> FALSE]

\* Faulty variant: the exit code is looked at before the entry is written.
RecordScanIfOk(stored) ==
    /\ step = "recording"
    /\ LET file == service.config.log
           writes == stored /\ LastScan.ended = "ok"
       IN /\ trail' = IF writes THEN Audited(file, Entry) ELSE trail
          /\ scans' = [scans EXCEPT ![Len(scans)].lost = file # Nothing /\ ~stored]
    /\ step' = "prompt"
    /\ UNCHANGED <<shellFiles, shellView, shellHost>>

\* service.audit(), then the error for an exit code; a write that fails is an
\* error, too, and the operator is told.
RecordScan(stored) ==
    /\ step = "recording"
    /\ LET file == service.config.log
       IN /\ trail' = IF stored THEN Audited(file, Entry) ELSE trail
          /\ scans' = [scans EXCEPT ![Len(scans)].lost = file # Nothing /\ ~stored]
    /\ step' = "prompt"
    /\ UNCHANGED <<shellFiles, shellView, shellHost>>

\* audit tail --follow, until an interrupt; AuditJsonl has the polls.
FollowLog ==
    /\ step = "input"
    /\ Serviceable /\ GetService
    /\ registry[active] # Absent
    /\ step' = "following"
    /\ handlers' = handlers + 1
    /\ UNCHANGED <<shellFiles, shellLog, forwarders, server>>

\* Faulty variant: only the tail is stopped, its handler stays.
StopFollowingOnly ==
    /\ step = "following"
    /\ step' = "prompt"
    /\ UNCHANGED <<shellFiles, shellView, shellLog, shellHost>>

\* An interrupt aborts the tail, and its finally takes the handlers away.
StopFollowing ==
    /\ step = "following"
    /\ step' = "prompt"
    /\ handlers' = handlers - 1
    /\ UNCHANGED <<shellFiles, shellView, shellLog, forwarders, server>>

\* waitForInterruptSignal() resolves and runStart() returns; nobody stops the
\* server, and a listening server keeps the process alive.
InterruptServer ==
    /\ step = "serving"
    /\ step' = "returned"
    /\ handlers' = 0
    /\ UNCHANGED <<shellFiles, shellView, shellLog, forwarders, server>>

\* Without a handler a signal ends the process.
Killed ==
    /\ step \notin Over \union {"off"} /\ handlers = 0
    /\ step' = "killed"
    /\ server' = FALSE
    /\ UNCHANGED <<shellFiles, shellView, shellLog, handlers, forwarders>>

ShellNext ==
    \/ \E d \in Domain, content \in Config \union {Absent, Broken} : EditDomainFile(d, content)
    \/ \E d \in Domain \union {Nothing} : InvokeShell(d)
    \/ \E d \in Domain : InvokeStart(d)
    \/ \E d \in Domain, json, tty \in BOOLEAN : InvokeScan(d, json, tty)
    \/ \E code \in {"ok", "failed"} : OneShotEnds(code) \/ InvokeOther(code)
    \/ InvokeUnknown
    \/ Prompt \/ Leave
    \/ \E d \in Domain : SetDomain(d)
    \/ ListDomains \/ ShowDomain \/ WriteBadge \/ HandleSecrets \/ RunDomainQr \/ RunTls
    \/ PrintHelp \/ ShowFeatures \/ RunBuild
    \/ UseService
    \/ \E i \in 1 .. MaxScans : AuditThumbnail(i)
    \/ StartScan \/ RefuseScan
    \/ \E how \in {"ok", "failed"} : ToolEnds(how)
    \/ \E stored \in BOOLEAN : RecordScan(stored)
    \/ FollowLog \/ StopFollowing
    \/ InterruptServer \/ Killed

ShellSpec == ShellInit /\ [][ShellNext]_shellVars

-----------------------------------------------------------------------------
\* Where the scan i is recorded.
Copies(i) ==
    UNION {{<<l, n>> : n \in {n \in DOMAIN trail[l] :
                                 trail[l][n].scan = i /\ ~trail[l][n].visual}} : l \in AuditFile}

(* Every scan that ended is in one audit log exactly once, under the       *)
(* domain it was typed for, in a file which that domain has named since    *)
(* it was chosen, whatever its exit code; unless the domain keeps no log   *)
(* or the operator was told of the failed write.  The service is reused,   *)
(* the registry is reloaded at each prompt, and domains change             *)
(* (shell.ts:212-235, 295-305, 559-595).                                   *)
EveryScanIsAccounted ==
    AtPrompt => \A i \in 1 .. Len(scans) :
        /\ scans[i].log \in scans[i].named
        /\ \A c \in Copies(i) :
              trail[c[1]][c[2]].domain = scans[i].domain /\ c[1] \in scans[i].named
        /\ Cardinality(Copies(i)) = IF scans[i].log = Nothing \/ scans[i].lost THEN 0 ELSE 1

(* Back at the prompt the shell holds its one service and no interrupt     *)
(* handler, so an interrupt ends it; a session that ended has closed what  *)
(* it opened (shell.ts:107-112, 228, 295-305, 643-672).                    *)
PromptHoldsNothing ==
    /\ AtPrompt => handlers = 0 /\ open = IF service = Nothing THEN 0 ELSE 1
    /\ step \in {"exit 0", "exit 1"} => open = 0 /\ handlers = 0
=============================================================================
