------------------------------ MODULE SpStart -------------------------------
(***************************************************************************)
(* `bun sp start --domain <served> --watch` (src/src/cli/sp.ts, runStart): *)
(* the process that loads the registry, builds one Service on it, arms the *)
(* watcher and waits for Ctrl+C, while somebody edits the config files and *)
(* code in the process asks the registry for security contexts.            *)
(***************************************************************************)
EXTENDS DomainRegistry

CONSTANTS
    Served,      \* the domain given by --domain
    NoSecret     \* the csrfSecret argument when it is left out

ASSUME ServedAssumption == Served \in Domain /\ NoSecret \in Secret

VARIABLES
    phase,       \* where runStart is
    bound,       \* Service: the config its Domain was created from
    listening    \* Service: the config its serve options were resolved from

serviceVars == <<bound, listening>>
vars == <<registryVars, phase, serviceVars>>

Phases == {"boot", "loading", "loaded", "binding", "serving", "watching", "exited"}

TypeOK ==
    /\ RegistryTypeOK
    /\ phase \in Phases
    /\ bound \in Config \union {None}
    /\ listening \in Config \union {None}

Init ==
    /\ RegistryInit
    /\ phase = "boot"
    /\ bound = None
    /\ listening = None

-----------------------------------------------------------------------------
(* runStart, one action per stretch between two awaits.                    *)

LoadRegistry ==
    /\ phase = "boot"
    /\ LoadAllStart
    /\ phase' = "loading"
    /\ UNCHANGED serviceVars

ReadDomainFile(p) ==
    /\ phase = "loading"
    /\ LoadAllRead(p)
    /\ UNCHANGED <<phase, serviceVars>>

\* A file that does not load rejects loadAll(); an unknown domain exits too.
RegistryLoaded ==
    /\ phase = "loading"
    /\ LoadAllFinish
    /\ phase' = IF domains'[Served] = None THEN "exited" ELSE "loaded"
    /\ UNCHANGED serviceVars

\* registry.service(): Service.initialize up to its first await.
InitializeService ==
    /\ phase = "loaded"
    /\ domains[Served] # None
    /\ phase' = "binding"
    /\ bound' = domains[Served]
    /\ security' = CacheSecurity(Served, NoSecret)
    /\ UNCHANGED <<disk, writes, domains, loader, watching, timers, task, track, listening>>

\* Service.start after initialize: the config is looked up a second time for
\* the serve options.  Domain.create or Bun.serve may throw instead.
StartService ==
    /\ phase = "binding"
    /\ \/ /\ domains[Served] # None
          /\ phase' = "serving"
          /\ listening' = domains[Served]
          /\ UNCHANGED bound
       \/ /\ phase' = "exited"
          /\ UNCHANGED serviceVars
    /\ UNCHANGED registryVars

\* Faulty variant: the watcher is armed while the service still starts.
WatchDomainsEarly ==
    /\ phase \in {"binding", "serving"}
    /\ StartWatch
    /\ phase' = IF phase = "serving" THEN "watching" ELSE phase
    /\ UNCHANGED serviceVars

WatchDomains ==
    /\ phase = "serving"
    /\ StartWatch
    /\ phase' = "watching"
    /\ UNCHANGED serviceVars

\* Ctrl+C: waitForInterruptSignal returns and the process ends.
Interrupt ==
    /\ phase \in {"serving", "watching"}
    /\ phase' = "exited"
    /\ UNCHANGED <<registryVars, serviceVars>>

-----------------------------------------------------------------------------
(* What happens around runStart while the process is alive.                *)

EditFile(p) ==
    /\ phase # "exited"
    /\ ChangeFile(p)
    /\ UNCHANGED <<phase, serviceVars>>

AskSecurity(d, s) ==
    /\ phase # "exited"
    /\ GetSecurity(d, s)
    /\ UNCHANGED <<phase, serviceVars>>

DebounceOver(p) ==
    /\ phase # "exited"
    /\ \E t \in Task : FireTimer(p, t)
    /\ UNCHANGED <<phase, serviceVars>>

Reload(t) ==
    /\ phase # "exited"
    /\ ReloadStep(t)
    /\ UNCHANGED <<phase, serviceVars>>

Next ==
    \/ LoadRegistry
    \/ \E p \in Path : ReadDomainFile(p)
    \/ RegistryLoaded
    \/ InitializeService
    \/ StartService
    \/ WatchDomains
    \/ Interrupt
    \/ \E p \in Path : EditFile(p)
    \/ \E d \in Domain, s \in Secret : AskSecurity(d, s)
    \/ \E p \in Path : DebounceOver(p)
    \/ \E t \in Task : Reload(t)

Spec == Init /\ [][Next]_vars

\* Timers fire and the promises of a reload settle.  Nobody has to edit a
\* file, ask for a context or press Ctrl+C.
Fairness ==
    /\ \A p \in Path : WF_vars(DebounceOver(p))
    /\ \A t \in Task : WF_vars(Reload(t))

FairSpec == Spec /\ Fairness

-----------------------------------------------------------------------------
\* Every domain id is written to one file only.
UniqueIds == \A p, q \in Path : p # q => IdsOf[p] \cap IdsOf[q] = {}

(* A cached security context is the one of the config the registry holds:  *)
(* whoever replaces or removes a domain, whatever reloads are in flight,   *)
(* drops the domain's contexts in the same step, and no context is made    *)
(* from a config that loadAll() then replaces (registry.ts:38-45, 55-71,   *)
(* registry-watch.ts:103-147).                                             *)
SecurityCoherent ==
    \A d \in Domain, s \in Secret :
        security[d][s] # None => /\ domains[d] # None
                                 /\ security[d][s] = domains[d]

(* A running service listens with the options of the very config its       *)
(* security domain was created from, although the registry is read twice,  *)
(* before and after an await (service/index.ts:62, 98): no reload can come *)
(* in between because sp.ts arms the watcher last.                         *)
ServiceCoherent ==
    phase \in {"serving", "watching"} => /\ bound # None
                                         /\ listening = bound

(* Once every change has been reloaded, the registry holds of each file    *)
(* the watcher reported what the file now holds, provided no two reloads   *)
(* of that file overlapped.  Reloads of other files may overlap with it,   *)
(* a file may change its id, break or vanish while it is read              *)
(* (registry-watch.ts:103-147).                                            *)
ReloadsConverge ==
    phase = "watching" /\ Settled =>
        \A p \in Path : track[p] = "seen" => MatchesDisk(p)

(* Where ids are unique, a reload touches no domain that another file      *)
(* defines, although it acts on a `previous` looked up before its file was *)
(* read (registry-watch.ts:109, 121-124, 135-138).                         *)
ReloadsStayInTheirFile ==
    [][\A d \in Domain :
          phase = "watching" /\ domains[d] # None /\ domains'[d] # domains[d]
            => \E t \in Task : task[t].path = domains[d].path /\ task'[t] # task[t]]_vars

(* A change the watcher reported reaches the registry in the end, unless   *)
(* reloads of the file overlapped (registry-watch.ts:56-75).               *)
ChangesArrive ==
    \A p \in Path :
        (phase = "watching" /\ track[p] = "seen")
          ~> (MatchesDisk(p) \/ track[p] = "overlapped" \/ phase = "exited")

-----------------------------------------------------------------------------
(* registry-watch.ts:42-44 promises that startDomainWatch will "Watch      *)
(* `domains/` recursively and hot-reload `*.security.json5` configs": when *)
(* all is quiet the registry holds what the reported files hold.  The code *)
(* breaks it when two reloads of one file complete in the other order.     *)
HotReload ==
    phase = "watching" /\ Settled =>
        \A p \in Path : track[p] # "unseen" => MatchesDisk(p)
=============================================================================
