--------------------------- MODULE DomainRegistry ---------------------------
(***************************************************************************)
(* The domain registry of src/src/config/registry.ts and its hot reload,   *)
(* src/src/config/registry-watch.ts: two maps (the loaded domains and the  *)
(* cache of security contexts), a loader that fills the first from disk,   *)
(* and one asynchronous reload per settled file change.  Every `await` is  *)
(* the end of an action, so reloads of one file, reloads of other files    *)
(* and writes to the disk interleave between the steps of a reload.        *)
(*                                                                         *)
(* This module holds the state and the operations; the modules that        *)
(* extend it say who calls them and in which order.                        *)
(***************************************************************************)
EXTENDS Naturals, FiniteSets

CONSTANTS
    Path,        \* the domains/*.security.json5 files
    Domain,      \* reverse-DNS domain ids
    IdsOf,       \* IdsOf[p]: the ids the file p is ever written with
    Secret,      \* values of the csrfSecret argument of security()
    Task,        \* slots for reloads in flight
    MaxWrites,   \* bound on the number of writes to the disk
    Absent,      \* there is no file
    Broken,      \* the file exists and loadDomainFile throws on it
    None         \* no entry in a map

ASSUME IdsAssumption == IdsOf \in [Path -> SUBSET Domain]
ASSUME BoundAssumption == MaxWrites \in Nat
\* A LoadedDomain (src/src/config/types.ts): its id, the file it came from and
\* which write of that file it reflects.
Config == [domain : Domain, path : Path, rev : Nat]
Content == Config \union {Absent, Broken}

ASSUME SentinelAssumption ==
    /\ {Absent, Broken, None} \cap Config = {}
    /\ None \notin Path \union {Absent, Broken}

\* What the file p may hold after its r-th write.
FileContent(p, r) ==
    {Absent, Broken} \union [domain : IdsOf[p], path : {p}, rev : {r}]

VARIABLES
    disk,       \* disk[p]: what the file holds now
    writes,     \* number of writes so far; the revision of the last one
    domains,    \* registry.ts `domains`
    security,   \* registry.ts `securityCache`, keyed by domain and secret
    loader,     \* the loadAll() in flight
    watching,   \* whether an fs.watch is armed
    timers,     \* registry-watch.ts `pending`: files with a debounce timer
    task,       \* the reloadDomainFile() calls in flight
    track       \* history: files seen by the watcher, and files whose
                \* reloads have overlapped

registryVars == <<disk, writes, domains, security, loader, watching, timers, task, track>>

IdleLoader == [pc |-> "idle", todo |-> {}, got |-> [p \in Path |-> None]]
IdleTask == [pc |-> "idle", path |-> None, exists |-> FALSE,
             previous |-> None, read |-> None]

TaskState == [pc : {"idle", "stat", "resume", "load", "finish"},
              path : Path \union {None}, exists : BOOLEAN,
              previous : Config \union {None}, read : Content \union {None}]

DiskTypeOK ==
    /\ disk \in [Path -> Content]
    /\ \A p \in Path : disk[p] \in Config => disk[p].path = p

TaskTypeOK ==
    /\ task \in [Task -> TaskState]
    /\ \A t \in Task :
         /\ (task[t].pc = "idle") <=> (task[t].path = None)
         /\ (task[t].pc = "finish") <=> (task[t].read # None)
         /\ task[t].previous # None => task[t].previous.path = task[t].path
         /\ task[t].read \in Config => task[t].read.path = task[t].path

LoaderTypeOK ==
    loader \in [pc : {"idle", "loading"}, todo : SUBSET Path,
                got : [Path -> Content \union {None}]]

RegistryTypeOK ==
    /\ DiskTypeOK
    /\ writes \in 0 .. MaxWrites
    /\ domains \in [Domain -> Config \union {None}]
    /\ security \in [Domain -> [Secret -> Config \union {None}]]
    /\ LoaderTypeOK
    /\ watching \in BOOLEAN
    /\ timers \in SUBSET Path
    /\ TaskTypeOK
    /\ track \in [Path -> {"unseen", "seen", "overlapped"}]

RegistryInit ==
    /\ disk \in {f \in [Path -> UNION {FileContent(p, 0) : p \in Path}] :
                    \A p \in Path : f[p] \in FileContent(p, 0)}
    /\ writes = 0
    /\ domains = [d \in Domain |-> None]
    /\ security = [d \in Domain |-> [s \in Secret |-> None]]
    /\ loader = IdleLoader
    /\ watching = FALSE
    /\ timers = {}
    /\ task = [t \in Task |-> IdleTask]
    /\ track = [p \in Path |-> "unseen"]

-----------------------------------------------------------------------------
(* The disk.  Somebody edits, breaks, creates or removes a config file;    *)
(* fs.watch reports it and `schedule` (re)arms the timer of that file.     *)

\* Faulty variant: a change during a reload of the file arms no timer.
ChangeFileUnheard(p) ==
    /\ writes < MaxWrites
    /\ writes' = writes + 1
    /\ \E c \in FileContent(p, writes + 1) : disk' = [disk EXCEPT ![p] = c]
    /\ timers' = IF watching /\ \A t \in Task : task[t].path # p
                 THEN timers \union {p} ELSE timers
    /\ track' = IF watching /\ track[p] = "unseen"
                THEN [track EXCEPT ![p] = "seen"] ELSE track
    /\ UNCHANGED <<domains, security, loader, watching, task>>

ChangeFile(p) ==
    /\ writes < MaxWrites
    /\ writes' = writes + 1
    /\ \E c \in FileContent(p, writes + 1) : disk' = [disk EXCEPT ![p] = c]
    /\ timers' = IF watching THEN timers \union {p} ELSE timers
    /\ track' = IF watching /\ track[p] = "unseen"
                THEN [track EXCEPT ![p] = "seen"] ELSE track
    /\ UNCHANGED <<domains, security, loader, watching, task>>

-----------------------------------------------------------------------------
(* loadAll(): the maps are cleared and the files listed in one synchronous *)
(* step, then every file is read at a time of its own, then the results    *)
(* are entered, unless one of the files failed.                            *)

LoadAllStart ==
    /\ loader.pc = "idle"
    /\ domains' = [d \in Domain |-> None]
    /\ security' = [d \in Domain |-> [s \in Secret |-> None]]
    /\ loader' = [pc |-> "loading",
                  todo |-> {p \in Path : disk[p] # Absent},
                  got |-> [p \in Path |-> None]]
    /\ UNCHANGED <<disk, writes, watching, timers, task, track>>

LoadAllRead(p) ==
    /\ loader.pc = "loading"
    /\ p \in loader.todo
    /\ loader' = [loader EXCEPT !.todo = @ \ {p}, !.got[p] = disk[p]]
    /\ UNCHANGED <<disk, writes, domains, security, watching, timers, task, track>>

LoadFailed == \E p \in Path : loader.got[p] \in {Absent, Broken}

\* The files that loadAll() found to define the domain d.
Defining(d) == {p \in Path : loader.got[p] \in Config /\ loader.got[p].domain = d}

\* Two files with one id: the one listed later stays, and the order in which
\* Bun.Glob lists them is the file system's.
LoadAllFinish ==
    /\ loader.pc = "loading"
    /\ loader.todo = {}
    /\ IF LoadFailed
         THEN UNCHANGED domains
         ELSE \E last \in [Domain -> Path] :
                /\ \A d \in Domain : Defining(d) # {} => last[d] \in Defining(d)
                /\ domains' = [d \in Domain |->
                                 IF Defining(d) = {} THEN domains[d]
                                 ELSE loader.got[last[d]]]
    /\ loader' = IdleLoader
    /\ UNCHANGED <<disk, writes, security, watching, timers, task, track>>

-----------------------------------------------------------------------------
(* security(): the context is made from the config of the moment and the   *)
(* promise is cached at once, so a second caller shares it.  The entry is  *)
(* modelled by the config it was made from.                                *)

CacheSecurity(d, s) ==
    IF security[d][s] = None
      THEN [security EXCEPT ![d][s] = domains[d]]
      ELSE security

GetSecurity(d, s) ==
    /\ domains[d] # None            \* else: throws "Unknown domain"
    /\ security' = CacheSecurity(d, s)
    /\ UNCHANGED <<disk, writes, domains, loader, watching, timers, task, track>>

\* clearSecurityCacheForDomain, for each of the domains ds.
ClearedSecurity(ds) ==
    [d \in Domain |-> IF d \in ds THEN [s \in Secret |-> None] ELSE security[d]]

-----------------------------------------------------------------------------
(* watch() and the reload of one file.                                     *)

StartWatch ==
    /\ ~watching
    /\ watching' = TRUE
    /\ UNCHANGED <<disk, writes, domains, security, loader, timers, task, track>>

\* The debounce timer of p expires.  The timer is forgotten, so a later change
\* of p arms a new one while this reload is still running.
FireTimer(p, t) ==
    /\ p \in timers
    /\ task[t].pc = "idle"
    /\ timers' = timers \ {p}
    /\ task' = [task EXCEPT ![t] = [IdleTask EXCEPT !.pc = "stat", !.path = p]]
    /\ track' = IF \E u \in Task : task[u].path = p
                THEN [track EXCEPT ![p] = "overlapped"] ELSE track
    /\ UNCHANGED <<disk, writes, domains, security, loader, watching>>

\* reloadDomainFile: `await Bun.file(filePath).exists()`.
ReloadStat(t) ==
    /\ task[t].pc = "stat"
    /\ task' = [task EXCEPT ![t].pc = "resume",
                            ![t].exists = disk[task[t].path] # Absent]
    /\ UNCHANGED <<disk, writes, domains, security, loader, watching, timers, track>>

\* Faulty variant: the first entry is taken, whatever file it came from.
AnyEntry(p) == {d \in Domain : domains[d] \in Config}

\* The entries that came from the file p; the code takes the first of them.
EntriesOf(p) == {d \in Domain : domains[d] \in Config /\ domains[d].path = p}
PreviousOf(p) ==
    IF EntriesOf(p) = {} THEN {None} ELSE {domains[d] : d \in EntriesOf(p)}

\* `previous` is looked up, and a file that was not there is forgotten.
ReloadResume(t) ==
    /\ task[t].pc = "resume"
    /\ \E previous \in PreviousOf(task[t].path) :
         IF task[t].exists
           THEN /\ task' = [task EXCEPT ![t].pc = "load", ![t].previous = previous]
                /\ UNCHANGED <<domains, security>>
           ELSE /\ task' = [task EXCEPT ![t] = IdleTask]
                /\ IF previous = None
                     THEN UNCHANGED <<domains, security>>
                     ELSE /\ domains' = [domains EXCEPT ![previous.domain] = None]
                          /\ security' = ClearedSecurity({previous.domain})
    /\ UNCHANGED <<disk, writes, loader, watching, timers, track>>

\* loadDomainFile: the file is read; decrypting its inventory takes time after.
ReloadRead(t) ==
    /\ task[t].pc = "load"
    /\ task' = [task EXCEPT ![t].pc = "finish", ![t].read = disk[task[t].path]]
    /\ UNCHANGED <<disk, writes, domains, security, loader, watching, timers, track>>

\* What is removed from the registry when the reload of t comes to its end: the
\* entry found before the file was read, if its id changed or loading failed.
Evicted(t) ==
    IF task[t].previous = None \/ task[t].previous.domain = task[t].read.domain
      THEN {} ELSE {task[t].previous.domain}

\* Faulty variants: only the contexts of an evicted id are dropped; the timer
\* is forgotten when the reload ends and not when it begins.
ReloadLoadedKeepsContexts(t) ==
    /\ task[t].pc = "finish"
    /\ task[t].read \in Config
    /\ domains' = [d \in Domain |->
                     IF d = task[t].read.domain THEN task[t].read
                     ELSE IF d \in Evicted(t) THEN None ELSE domains[d]]
    /\ security' = ClearedSecurity(Evicted(t))
    /\ task' = [task EXCEPT ![t] = IdleTask]
    /\ UNCHANGED <<disk, writes, loader, watching, timers, track>>

ReloadLoadedDropsTimer(t) ==
    /\ task[t].pc = "finish"
    /\ task[t].read \in Config
    /\ domains' = [d \in Domain |->
                     IF d = task[t].read.domain THEN task[t].read
                     ELSE IF d \in Evicted(t) THEN None ELSE domains[d]]
    /\ security' = ClearedSecurity({task[t].read.domain} \union Evicted(t))
    /\ task' = [task EXCEPT ![t] = IdleTask]
    /\ timers' = timers \ {task[t].path}
    /\ UNCHANGED <<disk, writes, loader, watching, track>>

ReloadLoaded(t) ==
    /\ task[t].pc = "finish"
    /\ task[t].read \in Config
    /\ domains' = [d \in Domain |->
                     IF d = task[t].read.domain THEN task[t].read
                     ELSE IF d \in Evicted(t) THEN None ELSE domains[d]]
    /\ security' = ClearedSecurity({task[t].read.domain} \union Evicted(t))
    /\ task' = [task EXCEPT ![t] = IdleTask]
    /\ UNCHANGED <<disk, writes, loader, watching, timers, track>>

ReloadFailed(t) ==
    /\ task[t].pc = "finish"
    /\ task[t].read \in {Absent, Broken}
    /\ IF task[t].previous = None
         THEN UNCHANGED <<domains, security>>
         ELSE /\ domains' = [domains EXCEPT ![task[t].previous.domain] = None]
              /\ security' = ClearedSecurity({task[t].previous.domain})
    /\ task' = [task EXCEPT ![t] = IdleTask]
    /\ UNCHANGED <<disk, writes, loader, watching, timers, track>>

ReloadStep(t) ==
    \/ ReloadStat(t)
    \/ ReloadResume(t)
    \/ ReloadRead(t)
    \/ ReloadLoaded(t)
    \/ ReloadFailed(t)

\* No change waits for its timer and no reload or load is under way.
Settled ==
    /\ timers = {}
    /\ loader.pc = "idle"
    /\ \A t \in Task : task[t].pc = "idle"

\* The registry holds of the file p what is on disk.
MatchesDisk(p) ==
    {domains[d] : d \in EntriesOf(p)} = {disk[p]} \cap Config
=============================================================================
