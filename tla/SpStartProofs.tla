--------------------------- MODULE SpStartProofs ----------------------------
(***************************************************************************)
(* Proofs about `sp start --watch`: type correctness, that no cached       *)
(* security context outlives the config it was made from, that a service   *)
(* never mixes two revisions of its domain, that a reload keeps to the     *)
(* domains of its own file, and that reloads leave the registry with what  *)
(* the files hold.                                                         *)
(***************************************************************************)
EXTENDS SpStart, TLAPS

LEMMA Sentinels ==
    /\ None \notin Config /\ Absent \notin Config /\ Broken \notin Config
    /\ None \notin Path /\ None # Absent /\ None # Broken
  BY SentinelAssumption

LEMMA FileContentType ==
  ASSUME NEW p \in Path, NEW r \in Nat, NEW c \in FileContent(p, r)
  PROVE  /\ c \in Content
         /\ c \in Config => c.path = p /\ c.domain \in IdsOf[p]
  BY Sentinels, IdsAssumption DEF FileContent, Content, Config

LEMMA IdleTaskType ==
    /\ IdleTask \in TaskState
    /\ IdleTask.pc = "idle" /\ IdleTask.path = None
    /\ IdleTask.previous = None /\ IdleTask.read = None
  BY DEF IdleTask, TaskState

LEMMA IdleLoaderType ==
    /\ IdleLoader \in [pc : {"idle", "loading"}, todo : SUBSET Path,
                       got : [Path -> Content \union {None}]]
    /\ IdleLoader.pc = "idle"
    /\ \A p \in Path : IdleLoader.got[p] = None
  BY DEF IdleLoader

LEMMA InitType == Init => TypeOK
  <1> SUFFICES ASSUME Init PROVE TypeOK
    OBVIOUS
  <1>1. DiskTypeOK
    <2>1. PICK f \in [Path -> UNION {FileContent(p, 0) : p \in Path}] :
              disk = f /\ \A p \in Path : f[p] \in FileContent(p, 0)
      BY DEF Init, RegistryInit
    <2>2. \A p \in Path : /\ disk[p] \in Content
                          /\ disk[p] \in Config => disk[p].path = p
      BY <2>1, FileContentType
    <2> QED
      BY <2>1, <2>2 DEF DiskTypeOK
  <1>2. TaskTypeOK
    <2>1. task = [t \in Task |-> IdleTask]
      BY DEF Init, RegistryInit
    <2> QED
      BY <2>1, IdleTaskType, Sentinels DEF TaskTypeOK
  <1>3. LoaderTypeOK
    BY IdleLoaderType DEF Init, RegistryInit, LoaderTypeOK
  <1>4. security \in [Domain -> [Secret -> Config \union {None}]]
    BY DEF Init, RegistryInit
  <1>5. writes \in 0 .. MaxWrites
    BY BoundAssumption DEF Init, RegistryInit
  <1>6. /\ domains \in [Domain -> Config \union {None}]
        /\ watching \in BOOLEAN
        /\ timers \in SUBSET Path
        /\ track \in [Path -> {"unseen", "seen", "overlapped"}]
    BY DEF Init, RegistryInit
  <1>7. /\ phase \in Phases
        /\ bound \in Config \union {None}
        /\ listening \in Config \union {None}
    BY DEF Init, Phases
  <1> QED
    BY <1>1, <1>2, <1>3, <1>4, <1>5, <1>6, <1>7 DEF TypeOK, RegistryTypeOK

-----------------------------------------------------------------------------
(* Each operation of the registry keeps its state well typed.              *)

LEMMA ChangeFileType ==
  ASSUME RegistryTypeOK, NEW p \in Path, ChangeFile(p)
  PROVE  RegistryTypeOK'
  <1>1. writes' \in 0 .. MaxWrites /\ writes + 1 \in Nat
    BY BoundAssumption DEF RegistryTypeOK, ChangeFile
  <1>2. PICK c \in FileContent(p, writes + 1) : disk' = [disk EXCEPT ![p] = c]
    BY DEF ChangeFile
  <1>3. c \in Content /\ (c \in Config => c.path = p)
    BY <1>1, FileContentType
  <1>4. DiskTypeOK'
    BY <1>2, <1>3 DEF RegistryTypeOK, DiskTypeOK
  <1>5. timers' \in SUBSET Path /\ track' \in [Path -> {"unseen", "seen", "overlapped"}]
    BY DEF RegistryTypeOK, ChangeFile
  <1> QED
    BY <1>1, <1>4, <1>5 DEF RegistryTypeOK, LoaderTypeOK, TaskTypeOK, ChangeFile

LEMMA LoadAllStartType ==
  ASSUME RegistryTypeOK, LoadAllStart PROVE RegistryTypeOK'
  BY DEF LoadAllStart, RegistryTypeOK, LoaderTypeOK, TaskTypeOK, DiskTypeOK

LEMMA LoadAllReadType ==
  ASSUME RegistryTypeOK, NEW p \in Path, LoadAllRead(p) PROVE RegistryTypeOK'
  BY DEF LoadAllRead, RegistryTypeOK, LoaderTypeOK, TaskTypeOK, DiskTypeOK

LEMMA LoadAllFinishType ==
  ASSUME RegistryTypeOK, LoadAllFinish PROVE RegistryTypeOK'
  <1>1. domains' \in [Domain -> Config \union {None}]
    BY DEF LoadAllFinish, Defining, RegistryTypeOK
  <1> QED
    BY <1>1, IdleLoaderType
    DEF LoadAllFinish, RegistryTypeOK, LoaderTypeOK, TaskTypeOK, DiskTypeOK

LEMMA CacheSecurityType ==
  ASSUME RegistryTypeOK, NEW d \in Domain, NEW s \in Secret
  PROVE  CacheSecurity(d, s) \in [Domain -> [Secret -> Config \union {None}]]
  BY DEF CacheSecurity, RegistryTypeOK

LEMMA ClearedSecurityType ==
  ASSUME RegistryTypeOK, NEW ds
  PROVE  ClearedSecurity(ds) \in [Domain -> [Secret -> Config \union {None}]]
  BY DEF ClearedSecurity, RegistryTypeOK

LEMMA FireTimerType ==
  ASSUME RegistryTypeOK, NEW p \in Path, NEW t \in Task, FireTimer(p, t)
  PROVE  RegistryTypeOK'
  <1> DEFINE new == [IdleTask EXCEPT !.pc = "stat", !.path = p]
  <1>1. /\ new \in TaskState /\ new.pc = "stat" /\ new.path = p
        /\ new.previous = None /\ new.read = None
    BY DEF IdleTask, TaskState
  <1> HIDE DEF new
  <1>2. task' = [task EXCEPT ![t] = new]
    BY DEF FireTimer, new
  <1>3. TaskTypeOK'
    BY <1>1, <1>2, Sentinels DEF RegistryTypeOK, TaskTypeOK
  <1> QED
    BY <1>3 DEF FireTimer, RegistryTypeOK, LoaderTypeOK, DiskTypeOK

LEMMA TaskDoneType ==
  ASSUME RegistryTypeOK, NEW t \in Task, task' = [task EXCEPT ![t] = IdleTask]
  PROVE  TaskTypeOK'
  BY IdleTaskType, Sentinels DEF RegistryTypeOK, TaskTypeOK

LEMMA ReloadStatType ==
  ASSUME RegistryTypeOK, NEW t \in Task, ReloadStat(t) PROVE RegistryTypeOK'
  <1>1. PICK here \in BOOLEAN :
            task' = [task EXCEPT ![t].pc = "resume", ![t].exists = here]
    BY DEF ReloadStat
  <1>2. /\ task[t] \in TaskState /\ task[t].pc = "stat"
        /\ task \in [Task -> TaskState]
    BY DEF ReloadStat, RegistryTypeOK, TaskTypeOK
  <1> DEFINE new == [task[t] EXCEPT !.pc = "resume", !.exists = here]
  <1>3. /\ new \in TaskState /\ new.pc = "resume" /\ new.path = task[t].path
        /\ new.previous = task[t].previous /\ new.read = task[t].read
    BY <1>2 DEF TaskState
  <1>4. task' = [task EXCEPT ![t] = new]
    BY <1>1, <1>2
  <1> HIDE DEF new
  <1>5. TaskTypeOK'
    BY <1>2, <1>3, <1>4 DEF RegistryTypeOK, TaskTypeOK
  <1> QED
    BY <1>5 DEF ReloadStat, RegistryTypeOK, LoaderTypeOK, DiskTypeOK

LEMMA PreviousType ==
  ASSUME RegistryTypeOK, NEW p \in Path, NEW c \in PreviousOf(p)
  PROVE  c = None \/ (c \in Config /\ c.path = p)
  BY DEF RegistryTypeOK, PreviousOf, EntriesOf

LEMMA EvictionType ==
  ASSUME RegistryTypeOK, NEW d \in Domain,
         domains' = [domains EXCEPT ![d] = None],
         security' = ClearedSecurity({d})
  PROVE  /\ domains' \in [Domain -> Config \union {None}]
         /\ security' \in [Domain -> [Secret -> Config \union {None}]]
  BY ClearedSecurityType DEF RegistryTypeOK

LEMMA ReloadResumeType ==
  ASSUME RegistryTypeOK, NEW t \in Task, ReloadResume(t) PROVE RegistryTypeOK'
  <1>1. task[t].path \in Path
    BY DEF ReloadResume, RegistryTypeOK, TaskTypeOK, TaskState
  <1>2. PICK c \in PreviousOf(task[t].path) :
          IF task[t].exists
            THEN /\ task' = [task EXCEPT ![t].pc = "load", ![t].previous = c]
                 /\ UNCHANGED <<domains, security>>
            ELSE /\ task' = [task EXCEPT ![t] = IdleTask]
                 /\ IF c = None
                      THEN UNCHANGED <<domains, security>>
                      ELSE /\ domains' = [domains EXCEPT ![c.domain] = None]
                           /\ security' = ClearedSecurity({c.domain})
    BY DEF ReloadResume
  <1>3. c = None \/ (c \in Config /\ c.path = task[t].path)
    BY <1>1, PreviousType
  <1>4. TaskTypeOK'
    <2>1. CASE task[t].exists
      <3> DEFINE new == [task[t] EXCEPT !.pc = "load", !.previous = c]
      <3>1. /\ task[t] \in TaskState /\ task[t].pc = "resume"
            /\ task \in [Task -> TaskState]
        BY DEF ReloadResume, RegistryTypeOK, TaskTypeOK
      <3>2. /\ new \in TaskState /\ new.pc = "load" /\ new.path = task[t].path
            /\ new.previous = c /\ new.read = task[t].read
        BY <1>3, <3>1 DEF TaskState
      <3>3. task' = [task EXCEPT ![t] = new]
        BY <1>2, <2>1, <3>1
      <3> HIDE DEF new
      <3> QED
        BY <1>3, <3>1, <3>2, <3>3 DEF RegistryTypeOK, TaskTypeOK
    <2>2. CASE ~task[t].exists
      BY <1>2, <2>2, TaskDoneType
    <2> QED
      BY <2>1, <2>2
  <1>5. /\ domains' \in [Domain -> Config \union {None}]
        /\ security' \in [Domain -> [Secret -> Config \union {None}]]
    <2>1. CASE ~task[t].exists /\ c # None
      <3>1. c.domain \in Domain
        BY <1>3, <2>1 DEF Config
      <3> QED
        BY <1>2, <2>1, <3>1, EvictionType
    <2>2. CASE task[t].exists \/ c = None
      BY <1>2, <2>2 DEF RegistryTypeOK
    <2> QED
      BY <2>1, <2>2
  <1> QED
    BY <1>4, <1>5 DEF ReloadResume, RegistryTypeOK, LoaderTypeOK, DiskTypeOK

LEMMA ReloadReadType ==
  ASSUME RegistryTypeOK, NEW t \in Task, ReloadRead(t) PROVE RegistryTypeOK'
  <1>1. task[t].path \in Path /\ task[t].pc = "load"
    BY DEF ReloadRead, RegistryTypeOK, TaskTypeOK, TaskState
  <1>2. /\ disk[task[t].path] \in Content
        /\ disk[task[t].path] # None
        /\ disk[task[t].path] \in Config => disk[task[t].path].path = task[t].path
    BY <1>1, Sentinels DEF RegistryTypeOK, DiskTypeOK, Content
  <1>3. TaskTypeOK'
    BY <1>1, <1>2 DEF ReloadRead, RegistryTypeOK, TaskTypeOK, TaskState
  <1> QED
    BY <1>3 DEF ReloadRead, RegistryTypeOK, LoaderTypeOK, DiskTypeOK

LEMMA ReloadLoadedType ==
  ASSUME RegistryTypeOK, NEW t \in Task, ReloadLoaded(t) PROVE RegistryTypeOK'
  <1>1. domains' \in [Domain -> Config \union {None}]
    BY DEF ReloadLoaded, RegistryTypeOK
  <1>2. security' \in [Domain -> [Secret -> Config \union {None}]]
    BY ClearedSecurityType DEF ReloadLoaded
  <1>3. TaskTypeOK'
    BY TaskDoneType DEF ReloadLoaded
  <1> QED
    BY <1>1, <1>2, <1>3 DEF ReloadLoaded, RegistryTypeOK, LoaderTypeOK, DiskTypeOK

LEMMA ReloadFailedType ==
  ASSUME RegistryTypeOK, NEW t \in Task, ReloadFailed(t) PROVE RegistryTypeOK'
  <1>1. /\ domains' \in [Domain -> Config \union {None}]
        /\ security' \in [Domain -> [Secret -> Config \union {None}]]
    <2>1. CASE task[t].previous = None
      BY <2>1 DEF ReloadFailed, RegistryTypeOK
    <2>2. CASE task[t].previous # None
      <3>1. task[t].previous.domain \in Domain
        BY <2>2 DEF RegistryTypeOK, TaskTypeOK, TaskState, Config
      <3> QED
        BY <2>2, <3>1, EvictionType DEF ReloadFailed
    <2> QED
      BY <2>1, <2>2
  <1>2. TaskTypeOK'
    BY TaskDoneType DEF ReloadFailed
  <1> QED
    BY <1>1, <1>2 DEF ReloadFailed, RegistryTypeOK, LoaderTypeOK, DiskTypeOK

-----------------------------------------------------------------------------
(* The type invariant.                                                     *)

LEMMA ReloadStepType ==
  ASSUME RegistryTypeOK, NEW t \in Task, ReloadStep(t) PROVE RegistryTypeOK'
  BY ReloadStatType, ReloadResumeType, ReloadReadType, ReloadLoadedType,
     ReloadFailedType DEF ReloadStep

LEMMA StepType == TypeOK /\ [Next]_vars => TypeOK'
  <1> SUFFICES ASSUME TypeOK, [Next]_vars PROVE TypeOK'
    OBVIOUS
  <1>0. /\ RegistryTypeOK
        /\ phase \in Phases
        /\ bound \in Config \union {None}
        /\ listening \in Config \union {None}
    BY DEF TypeOK
  <1>1. CASE LoadRegistry
    BY <1>0, <1>1, LoadAllStartType DEF LoadRegistry, TypeOK, Phases, serviceVars
  <1>2. ASSUME NEW p \in Path, ReadDomainFile(p) PROVE TypeOK'
    BY <1>0, <1>2, LoadAllReadType DEF ReadDomainFile, TypeOK, serviceVars
  <1>3. CASE RegistryLoaded
    BY <1>0, <1>3, LoadAllFinishType DEF RegistryLoaded, TypeOK, Phases, serviceVars
  <1>4. CASE InitializeService
    <2>1. security' \in [Domain -> [Secret -> Config \union {None}]]
      BY <1>0, <1>4, CacheSecurityType, ServedAssumption DEF InitializeService
    <2>2. RegistryTypeOK'
      BY <1>0, <1>4, <2>1 DEF InitializeService, RegistryTypeOK, LoaderTypeOK,
         TaskTypeOK, DiskTypeOK
    <2> QED
      BY <1>0, <1>4, <2>2, ServedAssumption
      DEF InitializeService, TypeOK, RegistryTypeOK, Phases
  <1>5. CASE StartService
    <2>1. RegistryTypeOK'
      BY <1>0, <1>5 DEF StartService, registryVars, RegistryTypeOK, LoaderTypeOK,
         TaskTypeOK, DiskTypeOK
    <2> QED
      BY <1>0, <1>5, <2>1, ServedAssumption
      DEF StartService, TypeOK, RegistryTypeOK, Phases, serviceVars
  <1>6. CASE WatchDomains
    BY <1>0, <1>6 DEF WatchDomains, StartWatch, TypeOK, RegistryTypeOK, LoaderTypeOK,
       TaskTypeOK, DiskTypeOK, Phases, serviceVars
  <1>7. CASE Interrupt
    BY <1>0, <1>7 DEF Interrupt, registryVars, TypeOK, RegistryTypeOK, LoaderTypeOK,
       TaskTypeOK, DiskTypeOK, Phases, serviceVars
  <1>8. ASSUME NEW p \in Path, EditFile(p) PROVE TypeOK'
    BY <1>0, <1>8, ChangeFileType DEF EditFile, TypeOK, serviceVars
  <1>9. ASSUME NEW d \in Domain, NEW s \in Secret, AskSecurity(d, s) PROVE TypeOK'
    <2>1. security' \in [Domain -> [Secret -> Config \union {None}]]
      BY <1>0, <1>9, CacheSecurityType DEF AskSecurity, GetSecurity
    <2> QED
      BY <1>0, <1>9, <2>1 DEF AskSecurity, GetSecurity, TypeOK, RegistryTypeOK,
         LoaderTypeOK, TaskTypeOK, DiskTypeOK, serviceVars
  <1>10. ASSUME NEW p \in Path, DebounceOver(p) PROVE TypeOK'
    BY <1>0, <1>10, FireTimerType DEF DebounceOver, TypeOK, serviceVars
  <1>11. ASSUME NEW t \in Task, Reload(t) PROVE TypeOK'
    BY <1>0, <1>11, ReloadStepType DEF Reload, TypeOK, serviceVars
  <1>12. CASE UNCHANGED vars
    BY <1>0, <1>12 DEF vars, registryVars, serviceVars, TypeOK, RegistryTypeOK,
       LoaderTypeOK, TaskTypeOK, DiskTypeOK
  <1> QED
    BY <1>1, <1>2, <1>3, <1>4, <1>5, <1>6, <1>7, <1>8, <1>9, <1>10, <1>11, <1>12
    DEF Next

(* Every variable keeps its type, a reload in flight only ever remembers   *)
(* entries and contents of its own file (registry-watch.ts:103-147).       *)
THEOREM TypeCorrect == Spec => []TypeOK
  BY InitType, StepType, PTL DEF Spec

-----------------------------------------------------------------------------
(* Coherence of the security cache and of the service.                     *)

\* Until the watcher is armed no reload is in flight, and until loadAll() has
\* finished the registry is empty.
Quiet ==
    phase \notin {"watching", "exited"} =>
        /\ ~watching
        /\ timers = {}
        /\ \A t \in Task : task[t].pc = "idle"

EmptyWhileLoading ==
    phase \in {"boot", "loading"} => \A d \in Domain : domains[d] = None

\* The service found its domain, and while it starts nothing replaces it.
BoundToRegistry ==
    /\ phase \in {"binding", "serving", "watching"} => bound # None
    /\ phase = "binding" => bound = domains[Served]

IInv ==
    /\ TypeOK
    /\ Quiet
    /\ EmptyWhileLoading
    /\ SecurityCoherent
    /\ BoundToRegistry
    /\ ServiceCoherent

LEMMA InitInv == Init => IInv
  <1> SUFFICES ASSUME Init PROVE IInv
    OBVIOUS
  <1>1. TypeOK
    BY InitType
  <1>2. Quiet
    BY IdleTaskType DEF Init, RegistryInit, Quiet
  <1> QED
    BY <1>1, <1>2 DEF Init, RegistryInit, IInv, EmptyWhileLoading, SecurityCoherent,
       BoundToRegistry, ServiceCoherent

\* A step that replaces or removes the domains ds and drops their contexts.
LEMMA ReplaceCoherent ==
  ASSUME RegistryTypeOK, SecurityCoherent, NEW ds,
         security' = ClearedSecurity(ds),
         \A d \in Domain : d \notin ds => domains'[d] = domains[d]
  PROVE  SecurityCoherent'
  BY DEF SecurityCoherent, ClearedSecurity, RegistryTypeOK

LEMMA CacheCoherent ==
  ASSUME RegistryTypeOK, SecurityCoherent, NEW d \in Domain, NEW s \in Secret,
         domains[d] # None, security' = CacheSecurity(d, s), domains' = domains
  PROVE  SecurityCoherent'
  BY DEF SecurityCoherent, CacheSecurity, RegistryTypeOK

LEMMA ReloadCoherent ==
  ASSUME RegistryTypeOK, SecurityCoherent, NEW t \in Task, ReloadStep(t)
  PROVE  SecurityCoherent'
  <1>1. CASE ReloadStat(t) \/ ReloadRead(t)
    BY <1>1 DEF ReloadStat, ReloadRead, SecurityCoherent
  <1>2. CASE ReloadResume(t)
    <2>1. PICK c \in PreviousOf(task[t].path) :
            \/ UNCHANGED <<domains, security>>
            \/ /\ domains' = [domains EXCEPT ![c.domain] = None]
               /\ security' = ClearedSecurity({c.domain})
      BY <1>2 DEF ReloadResume
    <2>2. CASE UNCHANGED <<domains, security>>
      BY <2>2 DEF SecurityCoherent
    <2>3. CASE /\ domains' = [domains EXCEPT ![c.domain] = None]
               /\ security' = ClearedSecurity({c.domain})
      <3>1. \A d \in Domain : d \notin {c.domain} => domains'[d] = domains[d]
        BY <2>3 DEF RegistryTypeOK
      <3> QED
        BY <2>3, <3>1, ReplaceCoherent
    <2> QED
      BY <2>1, <2>2, <2>3
  <1>3. CASE ReloadLoaded(t)
    <2> DEFINE ds == {task[t].read.domain} \union Evicted(t)
    <2>1. /\ security' = ClearedSecurity(ds)
          /\ \A d \in Domain : d \notin ds => domains'[d] = domains[d]
      BY <1>3 DEF ReloadLoaded
    <2> QED
      BY <2>1, ReplaceCoherent
  <1>4. CASE ReloadFailed(t)
    <2> DEFINE ds == {task[t].previous.domain}
    <2>1. CASE UNCHANGED <<domains, security>>
      BY <2>1 DEF SecurityCoherent
    <2>2. CASE /\ domains' = [domains EXCEPT ![task[t].previous.domain] = None]
               /\ security' = ClearedSecurity(ds)
      <3>1. \A d \in Domain : d \notin ds => domains'[d] = domains[d]
        BY <2>2 DEF RegistryTypeOK
      <3> QED
        BY <2>2, <3>1, ReplaceCoherent
    <2> QED
      BY <1>4, <2>1, <2>2 DEF ReloadFailed
  <1> QED
    BY <1>1, <1>2, <1>3, <1>4 DEF ReloadStep

LEMMA StepInv == IInv /\ [Next]_vars => IInv'
  <1> SUFFICES ASSUME IInv, [Next]_vars PROVE IInv'
    OBVIOUS
  <1>0. /\ TypeOK /\ TypeOK' /\ RegistryTypeOK
        /\ Quiet /\ EmptyWhileLoading /\ SecurityCoherent
        /\ BoundToRegistry /\ ServiceCoherent
    BY StepType DEF IInv, TypeOK
  <1> USE <1>0
  <1>1. CASE LoadRegistry
    BY <1>1 DEF LoadRegistry, LoadAllStart, serviceVars, IInv, Quiet, EmptyWhileLoading,
       SecurityCoherent, BoundToRegistry, ServiceCoherent
  <1>2. ASSUME NEW p \in Path, ReadDomainFile(p) PROVE IInv'
    BY <1>2 DEF ReadDomainFile, LoadAllRead, serviceVars, IInv, Quiet, EmptyWhileLoading,
       SecurityCoherent, BoundToRegistry, ServiceCoherent
  <1>3. CASE RegistryLoaded
    <2>1. \A d \in Domain, s \in Secret : security[d][s] = None
      BY <1>3 DEF RegistryLoaded, EmptyWhileLoading, SecurityCoherent
    <2> QED
      BY <1>3, <2>1 DEF RegistryLoaded, LoadAllFinish, serviceVars, IInv, Quiet,
         EmptyWhileLoading, SecurityCoherent, BoundToRegistry, ServiceCoherent
  <1>4. CASE InitializeService
    <2>1. SecurityCoherent'
      BY <1>4, CacheCoherent, ServedAssumption DEF InitializeService
    <2> QED
      BY <1>4, <2>1 DEF InitializeService, IInv, Quiet, EmptyWhileLoading,
         BoundToRegistry, ServiceCoherent
  <1>5. CASE StartService
    BY <1>5 DEF StartService, registryVars, serviceVars, IInv, Quiet, EmptyWhileLoading,
       SecurityCoherent, BoundToRegistry, ServiceCoherent
  <1>6. CASE WatchDomains
    BY <1>6 DEF WatchDomains, StartWatch, serviceVars, IInv, Quiet, EmptyWhileLoading,
       SecurityCoherent, BoundToRegistry, ServiceCoherent
  <1>7. CASE Interrupt
    BY <1>7 DEF Interrupt, registryVars, serviceVars, IInv, Quiet, EmptyWhileLoading,
       SecurityCoherent, BoundToRegistry, ServiceCoherent
  <1>8. ASSUME NEW p \in Path, EditFile(p) PROVE IInv'
    BY <1>8 DEF EditFile, ChangeFile, serviceVars, IInv, Quiet, EmptyWhileLoading,
       SecurityCoherent, BoundToRegistry, ServiceCoherent
  <1>9. ASSUME NEW d \in Domain, NEW s \in Secret, AskSecurity(d, s) PROVE IInv'
    <2>1. SecurityCoherent'
      BY <1>9, CacheCoherent DEF AskSecurity, GetSecurity
    <2> QED
      BY <1>9, <2>1 DEF AskSecurity, GetSecurity, serviceVars, IInv, Quiet,
         EmptyWhileLoading, BoundToRegistry, ServiceCoherent
  <1>10. ASSUME NEW p \in Path, DebounceOver(p) PROVE IInv'
    BY <1>10 DEF DebounceOver, FireTimer, serviceVars, IInv, Quiet, EmptyWhileLoading,
       SecurityCoherent, BoundToRegistry, ServiceCoherent
  <1>11. ASSUME NEW t \in Task, Reload(t) PROVE IInv'
    <2>1. phase = "watching" /\ phase' = phase
      BY <1>11 DEF Reload, Quiet, ReloadStep, ReloadStat, ReloadResume, ReloadRead,
         ReloadLoaded, ReloadFailed, TypeOK, Phases
    <2>2. SecurityCoherent'
      BY <1>11, ReloadCoherent DEF Reload
    <2> QED
      BY <1>11, <2>1, <2>2 DEF Reload, serviceVars, IInv, Quiet, EmptyWhileLoading,
         BoundToRegistry, ServiceCoherent
  <1>12. CASE UNCHANGED vars
    BY <1>12 DEF vars, registryVars, serviceVars, IInv, Quiet, EmptyWhileLoading,
       SecurityCoherent, BoundToRegistry, ServiceCoherent
  <1> QED
    BY <1>1, <1>2, <1>3, <1>4, <1>5, <1>6, <1>7, <1>8, <1>9, <1>10, <1>11, <1>12
    DEF Next

LEMMA Invariance == Spec => []IInv
  BY InitInv, StepInv, PTL DEF Spec

(* No cached security context differs from the config the registry holds,  *)
(* for any number of files, domains and overlapping reloads                *)
(* (registry.ts:55-71, registry-watch.ts:92-147).                          *)
THEOREM SecurityNeverStale == Spec => []SecurityCoherent
  <1>1. IInv => SecurityCoherent
    BY DEF IInv
  <1> QED
    BY <1>1, Invariance, PTL

(* A running service listens with the options of the config its security   *)
(* domain was created from (service/index.ts:61-69, 93-106, sp.ts:75-97).  *)
THEOREM ServiceNeverMixed == Spec => []ServiceCoherent
  <1>1. IInv => ServiceCoherent
    BY DEF IInv
  <1> QED
    BY <1>1, Invariance, PTL

-----------------------------------------------------------------------------
(* Reloads keep to their file.                                             *)

\* A loaded config stands under its own id, and the id belongs to its file.
Owned(c) == c \in Config => c.domain \in IdsOf[c.path]

OwnIds ==
    /\ \A p \in Path : Owned(disk[p]) /\ Owned(loader.got[p])
    /\ \A d \in Domain : Owned(domains[d]) /\ (domains[d] # None => domains[d].domain = d)
    /\ \A t \in Task : Owned(task[t].previous) /\ Owned(task[t].read)

LEMMA OwnedContent ==
  ASSUME NEW p \in Path, NEW r \in Nat, NEW c \in FileContent(p, r)
  PROVE  Owned(c)
  BY FileContentType DEF Owned

LEMMA OwnedNone == Owned(None)
  BY Sentinels DEF Owned

LEMMA InitIds == Init => OwnIds
  <1> SUFFICES ASSUME Init PROVE OwnIds
    OBVIOUS
  <1>1. PICK f \in [Path -> UNION {FileContent(p, 0) : p \in Path}] :
            disk = f /\ \A p \in Path : f[p] \in FileContent(p, 0)
    BY DEF Init, RegistryInit
  <1>2. \A p \in Path : Owned(disk[p])
    BY <1>1, OwnedContent
  <1> QED
    BY <1>2, OwnedNone, IdleTaskType, IdleLoaderType DEF Init, RegistryInit, OwnIds

\* Removing one entry keeps the rest in order.
LEMMA EvictionIds ==
  ASSUME RegistryTypeOK, OwnIds, NEW e, domains' = [domains EXCEPT ![e] = None]
  PROVE  \A d \in Domain : Owned(domains'[d]) /\ (domains'[d] # None => domains'[d].domain = d)
  BY OwnedNone DEF OwnIds, RegistryTypeOK

LEMMA ReloadIds ==
  ASSUME RegistryTypeOK, OwnIds, NEW t \in Task, ReloadStep(t)
  PROVE  OwnIds'
  <1>0. /\ task \in [Task -> TaskState] /\ task[t].path \in Path \union {None}
        /\ \A p \in Path : Owned(disk[p]) /\ Owned(loader.got[p])
        /\ \A d \in Domain : Owned(domains[d]) /\ (domains[d] # None => domains[d].domain = d)
        /\ \A u \in Task : Owned(task[u].previous) /\ Owned(task[u].read)
    BY DEF RegistryTypeOK, TaskTypeOK, TaskState, OwnIds
  <1>1. UNCHANGED <<disk, loader>>
    BY DEF ReloadStep, ReloadStat, ReloadResume, ReloadRead, ReloadLoaded, ReloadFailed
  <1>2. \A p \in Path : (Owned(disk[p]) /\ Owned(loader.got[p]))'
    BY <1>0, <1>1 DEF Owned
  <1> DEFINE Kept(r) == /\ Owned(r.previous) /\ Owned(r.read)
  <1>3. \E r : task' = [task EXCEPT ![t] = r] /\ Kept(r)
    <2>1. CASE ReloadStat(t)
      <3>1. PICK here \in BOOLEAN :
                task' = [task EXCEPT ![t].pc = "resume", ![t].exists = here]
        BY <2>1 DEF ReloadStat
      <3> DEFINE new == [task[t] EXCEPT !.pc = "resume", !.exists = here]
      <3>2. Kept(new)
        BY <1>0 DEF TaskState
      <3> QED
        BY <1>0, <3>1, <3>2
    <2>2. CASE ReloadResume(t)
      <3>1. PICK c \in PreviousOf(task[t].path) :
              \/ task' = [task EXCEPT ![t].pc = "load", ![t].previous = c]
              \/ task' = [task EXCEPT ![t] = IdleTask]
        BY <2>2 DEF ReloadResume
      <3>2. Owned(c)
        BY <1>0, <3>1, OwnedNone DEF PreviousOf, EntriesOf
      <3> DEFINE new == [task[t] EXCEPT !.pc = "load", !.previous = c]
      <3>3. Kept(new) /\ Kept(IdleTask)
        BY <1>0, <3>2, OwnedNone, IdleTaskType DEF TaskState
      <3> QED
        BY <1>0, <3>1, <3>3
    <2>3. CASE ReloadRead(t)
      <3>1. task[t].path \in Path
        BY <2>3 DEF ReloadRead, RegistryTypeOK, TaskTypeOK, TaskState
      <3> DEFINE new == [task[t] EXCEPT !.pc = "finish", !.read = disk[task[t].path]]
      <3>2. Kept(new)
        BY <1>0, <3>1 DEF TaskState
      <3>3. task' = [task EXCEPT ![t] = new]
        BY <1>0, <2>3 DEF ReloadRead
      <3> QED
        BY <3>2, <3>3
    <2>4. CASE ReloadLoaded(t) \/ ReloadFailed(t)
      BY <2>4, OwnedNone, IdleTaskType DEF ReloadLoaded, ReloadFailed
    <2> QED
      BY <2>1, <2>2, <2>3, <2>4 DEF ReloadStep
  <1>4. PICK r : task' = [task EXCEPT ![t] = r] /\ Kept(r)
    BY <1>3
  <1>5. \A u \in Task : (Owned(task[u].previous) /\ Owned(task[u].read))'
    BY <1>0, <1>4 DEF Owned
  <1>6. \A d \in Domain : Owned(domains'[d]) /\ (domains'[d] # None => domains'[d].domain = d)
    <2>1. CASE ReloadLoaded(t)
      BY <1>0, <2>1, OwnedNone DEF ReloadLoaded, RegistryTypeOK
    <2>2. CASE ReloadFailed(t)
      BY <1>0, <2>2, EvictionIds DEF ReloadFailed
    <2>3. CASE ReloadResume(t)
      BY <1>0, <2>3, EvictionIds DEF ReloadResume
    <2>4. CASE ReloadStat(t) \/ ReloadRead(t)
      BY <1>0, <2>4 DEF ReloadStat, ReloadRead
    <2> QED
      BY <2>1, <2>2, <2>3, <2>4 DEF ReloadStep
  <1> QED
    BY <1>2, <1>5, <1>6 DEF OwnIds, Owned

LEMMA StepIds == TypeOK /\ OwnIds /\ [Next]_vars => OwnIds'
  <1> SUFFICES ASSUME TypeOK, OwnIds, [Next]_vars PROVE OwnIds'
    OBVIOUS
  <1>0. RegistryTypeOK /\ writes \in Nat
    BY BoundAssumption DEF TypeOK, RegistryTypeOK
  <1>1. CASE LoadRegistry
    BY <1>0, <1>1, OwnedNone DEF LoadRegistry, LoadAllStart, OwnIds, Owned
  <1>2. ASSUME NEW p \in Path, ReadDomainFile(p) PROVE OwnIds'
    BY <1>0, <1>2 DEF ReadDomainFile, LoadAllRead, OwnIds, Owned, RegistryTypeOK, LoaderTypeOK
  <1>3. CASE RegistryLoaded
    <2>1. disk' = disk /\ task' = task /\ loader' = IdleLoader
      BY <1>3 DEF RegistryLoaded, LoadAllFinish
    <2>2. ASSUME NEW d \in Domain
          PROVE  Owned(domains'[d]) /\ (domains'[d] # None => domains'[d].domain = d)
      <3>1. \/ domains'[d] = domains[d]
            \/ \E p \in Path : p \in Defining(d) /\ domains'[d] = loader.got[p]
        BY <1>3 DEF RegistryLoaded, LoadAllFinish
      <3> QED
        BY <3>1 DEF OwnIds, Defining
    <2> QED
      BY <2>1, <2>2, OwnedNone, IdleLoaderType DEF OwnIds, Owned
  <1>4. ASSUME NEW p \in Path, EditFile(p) PROVE OwnIds'
    <2>1. PICK c \in FileContent(p, writes + 1) : disk' = [disk EXCEPT ![p] = c]
      BY <1>4 DEF EditFile, ChangeFile
    <2>2. Owned(c)
      BY <1>0, OwnedContent
    <2> QED
      BY <1>0, <1>4, <2>1, <2>2 DEF EditFile, ChangeFile, OwnIds, Owned,
         RegistryTypeOK, DiskTypeOK
  <1>5. ASSUME NEW p \in Path, DebounceOver(p) PROVE OwnIds'
    <2>1. PICK t \in Task : FireTimer(p, t)
      BY <1>5 DEF DebounceOver
    <2> DEFINE new == [IdleTask EXCEPT !.pc = "stat", !.path = p]
    <2>2. new.previous = None /\ new.read = None
      BY DEF IdleTask
    <2>3. task' = [task EXCEPT ![t] = new] /\ UNCHANGED <<disk, loader, domains>>
      BY <2>1 DEF FireTimer
    <2> HIDE DEF new
    <2>4. \A u \in Task : \/ task'[u] = task[u]
                          \/ task'[u].previous = None /\ task'[u].read = None
      BY <1>0, <2>2, <2>3 DEF RegistryTypeOK, TaskTypeOK
    <2> QED
      BY <2>3, <2>4, OwnedNone DEF OwnIds, Owned
  <1>6. ASSUME NEW t \in Task, Reload(t) PROVE OwnIds'
    BY <1>0, <1>6, ReloadIds DEF Reload
  <1>7. CASE \/ InitializeService \/ StartService \/ WatchDomains \/ Interrupt
             \/ UNCHANGED vars
             \/ \E d \in Domain, s \in Secret : AskSecurity(d, s)
    BY <1>7 DEF InitializeService, StartService, WatchDomains, StartWatch, Interrupt,
       AskSecurity, GetSecurity, vars, registryVars, OwnIds, Owned
  <1> QED
    BY <1>1, <1>2, <1>3, <1>4, <1>5, <1>6, <1>7 DEF Next

LEMMA IdsInvariance == Spec => []OwnIds
  BY InitIds, StepIds, TypeCorrect, PTL DEF Spec

\* With unique ids, a config with the id of another one is of the same file.
LEMMA SameFile ==
  ASSUME UniqueIds, NEW c \in Config, NEW e \in Config, Owned(c), Owned(e),
         c.domain = e.domain
  PROVE  c.path = e.path
  BY DEF UniqueIds, Owned, Config

LEMMA ReloadStays ==
  ASSUME UniqueIds, RegistryTypeOK, OwnIds, NEW t \in Task, ReloadStep(t),
         NEW d \in Domain, domains[d] # None, domains'[d] # domains[d]
  PROVE  task[t].path = domains[d].path /\ task'[t] # task[t]
  <1>0. /\ domains[d] \in Config /\ domains[d].domain = d /\ Owned(domains[d])
        /\ task[t] \in TaskState /\ task \in [Task -> TaskState]
        /\ Owned(task[t].previous) /\ Owned(task[t].read)
        /\ task[t].previous # None => task[t].previous.path = task[t].path
        /\ task[t].read \in Config => task[t].read.path = task[t].path
    BY DEF RegistryTypeOK, TaskTypeOK, OwnIds
  <1>1. CASE ReloadStat(t) \/ ReloadRead(t)
    BY <1>1 DEF ReloadStat, ReloadRead
  <1>2. CASE ReloadResume(t)
    <2>1. PICK c \in PreviousOf(task[t].path) :
            /\ c # None
            /\ domains' = [domains EXCEPT ![c.domain] = None]
            /\ task' = [task EXCEPT ![t] = IdleTask]
      BY <1>2 DEF ReloadResume
    <2>2. PICK e \in Domain : c = domains[e] /\ domains[e].path = task[t].path
      BY <2>1 DEF PreviousOf, EntriesOf
    <2>3. c.domain = e /\ d = e
      BY <2>1, <2>2 DEF OwnIds, RegistryTypeOK
    <2>4. task'[t].pc = "idle" /\ task[t].pc = "resume"
      BY <1>0, <1>2, <2>1, IdleTaskType DEF ReloadResume
    <2> QED
      BY <2>2, <2>3, <2>4
  <1>3. CASE ReloadLoaded(t)
    <2>1. task'[t].pc = "idle" /\ task[t].pc = "finish" /\ task[t].read \in Config
      BY <1>0, <1>3, IdleTaskType DEF ReloadLoaded
    <2>2. d = task[t].read.domain \/ d \in Evicted(t)
      BY <1>3 DEF ReloadLoaded
    <2>3. CASE d = task[t].read.domain
      BY <1>0, <2>1, <2>3, SameFile
    <2>4. CASE d \in Evicted(t)
      <3>1. task[t].previous # None /\ d = task[t].previous.domain
        BY <2>4 DEF Evicted
      <3>2. task[t].previous \in Config
        BY <1>0, <3>1 DEF TaskState
      <3> QED
        BY <1>0, <2>1, <3>1, <3>2, SameFile
    <2> QED
      BY <2>2, <2>3, <2>4
  <1>4. CASE ReloadFailed(t)
    <2>1. task'[t].pc = "idle" /\ task[t].pc = "finish"
      BY <1>0, <1>4, IdleTaskType DEF ReloadFailed
    <2>2. task[t].previous # None /\ d = task[t].previous.domain
      BY <1>4 DEF ReloadFailed, RegistryTypeOK
    <2>3. task[t].previous \in Config
      BY <1>0, <2>2 DEF TaskState
    <2> QED
      BY <1>0, <2>1, <2>2, <2>3, SameFile
  <1> QED
    BY <1>1, <1>2, <1>3, <1>4 DEF ReloadStep

(* Where every id is written to one file, a reload never replaces or       *)
(* removes the entry of another file, however reloads overlap and whatever *)
(* the files are changed to while they are read (registry-watch.ts:92-147).*)
THEOREM ReloadsOwnTheirFile ==
  ASSUME UniqueIds PROVE Spec => ReloadsStayInTheirFile
  <1> DEFINE Stays(d) ==
        phase = "watching" /\ domains[d] # None /\ domains'[d] # domains[d]
          => \E t \in Task : task[t].path = domains[d].path /\ task'[t] # task[t]
  <1>1. IInv /\ OwnIds /\ [Next]_vars => [\A d \in Domain : Stays(d)]_vars
    <2> SUFFICES ASSUME IInv, OwnIds, Next, NEW d \in Domain,
                        phase = "watching", domains[d] # None, domains'[d] # domains[d]
                 PROVE  \E t \in Task : task[t].path = domains[d].path /\ task'[t] # task[t]
      OBVIOUS
    <2>1. RegistryTypeOK
      BY DEF IInv, TypeOK
    <2>2. PICK t \in Task : Reload(t)
      BY DEF Next, LoadRegistry, ReadDomainFile, RegistryLoaded, InitializeService,
         StartService, WatchDomains, StartWatch, Interrupt, EditFile, ChangeFile,
         AskSecurity, GetSecurity, DebounceOver, FireTimer, registryVars
    <2> QED
      BY <2>1, <2>2, ReloadStays DEF Reload
  <1>2. IInv /\ OwnIds /\ [Next]_vars =>
          [\A d \in Domain :
             phase = "watching" /\ domains[d] # None /\ domains'[d] # domains[d]
               => \E t \in Task : task[t].path = domains[d].path /\ task'[t] # task[t]]_vars
    BY <1>1
  <1> QED
    BY <1>2, Invariance, IdsInvariance, PTL DEF Spec, ReloadsStayInTheirFile

-----------------------------------------------------------------------------
(* Reloads converge.                                                       *)

\* The entries that a registry f holds of the file p: c and nothing else, or
\* none when c is no config.
EntriesIn(f, p) == {d \in Domain : f[d] \in Config /\ f[d].path = p}

Holds(f, p, c) ==
    IF c \in Config
      THEN EntriesIn(f, p) = {c.domain} /\ f[c.domain] = c
      ELSE EntriesIn(f, p) = {}

\* The reload t knows what the registry holds of its file p, which no other
\* reload changes; and what is on disk, unless a timer waits for the change.
Knows(t, p) ==
    /\ task[t].pc \in {"load", "finish"} => Holds(domains, p, task[t].previous)
    /\ p \notin timers /\ task[t].pc = "resume" => (task[t].exists <=> disk[p] # Absent)
    /\ p \notin timers /\ task[t].pc = "finish" => task[t].read = disk[p]

Reloading(p) == {t \in Task : task[t].path = p}

ConvergesAt(p) ==
    /\ loader.got[p] \in Config => loader.got[p].path = p
    /\ track[p] = "unseen" => p \notin timers /\ Reloading(p) = {}
    /\ track[p] # "overlapped" =>
        /\ \A t, u \in Reloading(p) : t = u
        /\ \E c \in Config \union {None} : Holds(domains, p, c)
        /\ \A t \in Reloading(p) : Knows(t, p)
        /\ track[p] = "seen" /\ p \notin timers /\ Reloading(p) = {}
             => Holds(domains, p, disk[p])

\* Nothing is seen before the watcher is armed.
UnseenAtFirst == ~watching => \A p \in Path : track[p] = "unseen"

ConvInv == UnseenAtFirst /\ \A p \in Path : ConvergesAt(p)

\* A lookup finds what the registry holds of p.
LEMMA HeldIsFound ==
  ASSUME NEW p \in Path, NEW c \in Config \union {None}, Holds(domains, p, c),
         NEW e \in PreviousOf(p)
  PROVE  e \in Config \union {None} /\ Holds(domains, p, e)
  BY Sentinels DEF PreviousOf, EntriesOf, EntriesIn, Holds

LEMMA HeldMatchesDisk ==
  ASSUME RegistryTypeOK, NEW p \in Path, Holds(domains, p, disk[p])
  PROVE  MatchesDisk(p)
  <1>1. EntriesOf(p) = EntriesIn(domains, p)
    BY DEF EntriesOf, EntriesIn
  <1>2. CASE disk[p] \in Config
    BY <1>1, <1>2 DEF Holds, MatchesDisk
  <1>3. CASE disk[p] \notin Config
    BY <1>1, <1>3 DEF Holds, MatchesDisk
  <1> QED
    BY <1>2, <1>3

\* What a file's entries come to depends on these entries only.
LEMMA HoldsStays ==
  ASSUME NEW p \in Path, NEW f, NEW g, NEW c, Holds(f, p, c),
         \A d \in Domain : f[d] = g[d] \/ ~(\/ f[d] \in Config /\ f[d].path = p
                                            \/ g[d] \in Config /\ g[d].path = p)
  PROVE  Holds(g, p, c)
  <1>1. EntriesIn(g, p) = EntriesIn(f, p)
    BY DEF EntriesIn
  <1>2. \A d \in EntriesIn(f, p) : g[d] = f[d]
    BY DEF EntriesIn
  <1> QED
    BY <1>1, <1>2 DEF Holds

\* A step that leaves alone all that ConvergesAt(p) speaks of keeps it.
LEMMA ConvergesStays ==
  ASSUME NEW p \in Path, ConvergesAt(p),
         loader'.got[p] \in Config => loader'.got[p].path = p,
         track'[p] = track[p], p \in timers' <=> p \in timers, disk'[p] = disk[p],
         \A u \in Task : task'[u] = task[u] \/ (task[u].path # p /\ task'[u].path # p),
         \A c : Holds(domains, p, c) => Holds(domains', p, c)
  PROVE  ConvergesAt(p)'
  <1>1. Reloading(p)' = Reloading(p) /\ \A u \in Reloading(p) : task'[u] = task[u]
    BY DEF Reloading
  <1>2. ASSUME NEW u \in Reloading(p), Knows(u, p) PROVE Knows(u, p)'
    <2>1. task'[u] = task[u]
      BY <1>1, <1>2
    <2> QED
      BY <1>2, <2>1 DEF Knows
  <1>3. Holds(domains, p, disk[p]) => Holds(domains, p, disk[p])'
    BY DEF Holds
  <1> QED
    BY <1>1, <1>2, <1>3 DEF ConvergesAt

-----------------------------------------------------------------------------
(* A reload and its file.                                                  *)

\* A reload of another file changes nothing of p's entries.
LEMMA ReloadElsewhere ==
  ASSUME UniqueIds, RegistryTypeOK, OwnIds, NEW t \in Task, ReloadStep(t),
         NEW p \in Path, task[t].path # p, ConvergesAt(p)
  PROVE  ConvergesAt(p)'
  <1>1. UNCHANGED <<disk, loader, timers, track>>
    BY DEF ReloadStep, ReloadStat, ReloadResume, ReloadRead, ReloadLoaded, ReloadFailed
  <1>2. /\ \A u \in Task : u # t => task'[u] = task[u]
        /\ task'[t].path # p
    <2>1. task \in [Task -> TaskState] /\ None # p
      BY Sentinels DEF RegistryTypeOK, TaskTypeOK
    <2>2. CASE ReloadStat(t)
      BY <2>1, <2>2 DEF ReloadStat, TaskState
    <2>3. CASE ReloadRead(t)
      BY <2>1, <2>3 DEF ReloadRead, TaskState
    <2>4. CASE ReloadResume(t)
      BY <2>1, <2>4, IdleTaskType DEF ReloadResume, TaskState
    <2>5. CASE ReloadLoaded(t) \/ ReloadFailed(t)
      BY <2>1, <2>5, IdleTaskType DEF ReloadLoaded, ReloadFailed
    <2> QED
      BY <2>2, <2>3, <2>4, <2>5 DEF ReloadStep
  <1>3. ASSUME NEW d \in Domain, domains'[d] # domains[d]
        PROVE  /\ domains[d] \in Config => domains[d].path # p
               /\ domains'[d] \in Config => domains'[d].path # p
    <2>1. domains[d] \in Config => domains[d].path # p
      BY <1>3, Sentinels, ReloadStays
    <2>2. domains'[d] = None \/ domains'[d].path = task[t].path
      <3>1. CASE ReloadLoaded(t)
        BY <1>3, <3>1 DEF ReloadLoaded, RegistryTypeOK, TaskTypeOK
      <3>2. CASE ~ReloadLoaded(t)
        BY <1>3, <3>2 DEF ReloadStep, ReloadStat, ReloadResume, ReloadRead,
           ReloadFailed, RegistryTypeOK
      <3> QED
        BY <3>1, <3>2
    <2> QED
      BY <2>1, <2>2, Sentinels
  <1>4. \A c : Holds(domains, p, c) => Holds(domains', p, c)
    BY <1>3, HoldsStays
  <1>5. \A u \in Task : task'[u] = task[u] \/ (task[u].path # p /\ task'[u].path # p)
    BY <1>2
  <1>6. loader'.got[p] \in Config => loader'.got[p].path = p
    BY <1>1 DEF ConvergesAt
  <1> QED
    BY <1>1, <1>4, <1>5, <1>6, ConvergesStays

\* A reload of p that goes on has learnt what it should know.
LEMMA ReloadGoesOn ==
  ASSUME RegistryTypeOK, NEW p \in Path, ConvergesAt(p), NEW t \in Task, task[t].path = p,
         NEW new \in TaskState, new.path = p, task' = [task EXCEPT ![t] = new],
         UNCHANGED <<disk, loader, domains, timers, track>>,
         track[p] # "overlapped" => Knows(t, p)'
  PROVE  ConvergesAt(p)'
  <1>1. task \in [Task -> TaskState]
    BY DEF RegistryTypeOK, TaskTypeOK
  <1>2. Reloading(p)' = Reloading(p) /\ t \in Reloading(p)
    BY <1>1 DEF Reloading
  <1>3. track[p] # "overlapped" => \A u \in Reloading(p)' : u = t
    BY <1>2 DEF ConvergesAt
  <1>4. (\E c \in Config \union {None} : Holds(domains, p, c))
          => (\E c \in Config \union {None} : Holds(domains, p, c))'
    BY DEF Holds
  <1> QED
    BY <1>2, <1>3, <1>4 DEF ConvergesAt

\* A reload of p that ends leaves c of it, which is what is on disk unless a
\* timer waits for the change.
LEMMA ReloadEnds ==
  ASSUME RegistryTypeOK, NEW p \in Path, ConvergesAt(p), NEW t \in Task, task[t].path = p,
         task' = [task EXCEPT ![t] = IdleTask],
         UNCHANGED <<disk, loader, timers, track>>,
         NEW c,
         track[p] # "overlapped" =>
            /\ Holds(domains', p, c)
            /\ p \notin timers => c = disk[p] \/ (c \notin Config /\ disk[p] \notin Config)
  PROVE  ConvergesAt(p)'
  <1>1. task \in [Task -> TaskState] /\ None # p
    BY Sentinels DEF RegistryTypeOK, TaskTypeOK
  <1>2. t \in Reloading(p) /\ Reloading(p)' = Reloading(p) \ {t}
    BY <1>1, IdleTaskType DEF Reloading
  <1>3. track[p] # "overlapped" => Reloading(p)' = {}
    BY <1>2 DEF ConvergesAt
  <1>4. track[p] # "overlapped" => (\E e \in Config \union {None} : Holds(domains', p, e))
    BY Sentinels DEF Holds
  <1>5. track[p] # "overlapped" /\ p \notin timers => Holds(domains', p, disk[p])
    BY DEF Holds
  <1>6. (loader.got[p] \in Config => loader.got[p].path = p)' /\ track[p] # "unseen"
    BY <1>2 DEF ConvergesAt
  <1> QED
    BY <1>2, <1>3, <1>4, <1>5, <1>6 DEF ConvergesAt

\* Taking out what the registry held of p leaves nothing of it.
LEMMA HeldIsRemoved ==
  ASSUME NEW f \in [Domain -> Config \union {None}], NEW p \in Path,
         NEW c \in Config, Holds(f, p, c)
  PROVE  Holds([f EXCEPT ![c.domain] = None], p, None)
  BY Sentinels DEF Holds, EntriesIn

LEMMA ReloadAtHome ==
  ASSUME RegistryTypeOK, OwnIds, NEW t \in Task, ReloadStep(t),
         NEW p \in Path, task[t].path = p, ConvergesAt(p)
  PROVE  ConvergesAt(p)'
  <1>0. /\ task \in [Task -> TaskState] /\ task[t] \in TaskState /\ t \in Reloading(p)
        /\ domains \in [Domain -> Config \union {None}]
        /\ disk[p] \in Content
    BY DEF RegistryTypeOK, TaskTypeOK, DiskTypeOK, Reloading
  <1>1. UNCHANGED <<disk, loader, timers, track>>
    BY DEF ReloadStep, ReloadStat, ReloadResume, ReloadRead, ReloadLoaded, ReloadFailed
  <1>2. track[p] # "overlapped" =>
          /\ Knows(t, p)
          /\ \E c \in Config \union {None} : Holds(domains, p, c)
    BY <1>0 DEF ConvergesAt
  <1>3. CASE ReloadStat(t)
    <2>1. PICK here \in BOOLEAN : /\ here <=> disk[p] # Absent
                                  /\ task' = [task EXCEPT ![t].pc = "resume", ![t].exists = here]
      BY <1>3 DEF ReloadStat
    <2>2. PICK new : new = [task[t] EXCEPT !.pc = "resume", !.exists = here]
      OBVIOUS
    <2>3. new \in TaskState /\ new.path = p /\ new.pc = "resume" /\ new.exists = here
      BY <1>0, <2>2 DEF TaskState
    <2>4. task' = [task EXCEPT ![t] = new] /\ task'[t] = new
      BY <1>0, <2>1, <2>2
    <2>5. Knows(t, p)'
      BY <1>1, <2>1, <2>3, <2>4 DEF Knows
    <2>6. UNCHANGED domains
      BY <1>3 DEF ReloadStat
    <2> QED
      BY <1>1, <2>3, <2>4, <2>5, <2>6, ReloadGoesOn
  <1>4. CASE ReloadResume(t)
    <2>1. PICK e \in PreviousOf(p) :
            IF task[t].exists
              THEN /\ task' = [task EXCEPT ![t].pc = "load", ![t].previous = e]
                   /\ UNCHANGED domains
              ELSE /\ task' = [task EXCEPT ![t] = IdleTask]
                   /\ IF e = None THEN UNCHANGED domains
                      ELSE domains' = [domains EXCEPT ![e.domain] = None]
      BY <1>4 DEF ReloadResume
    <2>2. e \in Config \union {None}
      BY <1>0 DEF PreviousOf, EntriesOf
    <2>3. track[p] # "overlapped" => Holds(domains, p, e)
      BY <1>2, HeldIsFound
    <2>4. CASE task[t].exists
      <3>1. PICK new : new = [task[t] EXCEPT !.pc = "load", !.previous = e]
        OBVIOUS
      <3>2. new \in TaskState /\ new.path = p /\ new.pc = "load" /\ new.previous = e
        BY <1>0, <2>2, <3>1 DEF TaskState
      <3>3. task' = [task EXCEPT ![t] = new] /\ task'[t] = new /\ UNCHANGED domains
        BY <1>0, <2>1, <2>4, <3>1
      <3>4. track[p] # "overlapped" => Holds(domains, p, e)'
        BY <2>3, <3>3 DEF Holds
      <3>5. track[p] # "overlapped" => Knows(t, p)'
        BY <3>2, <3>3, <3>4 DEF Knows, Holds
      <3> QED
        BY <1>1, <3>2, <3>3, <3>5, ReloadGoesOn
    <2>5. CASE ~task[t].exists
      <3>1. task[t].pc = "resume"
        BY <1>4 DEF ReloadResume
      <3>2. track[p] # "overlapped" /\ p \notin timers => disk[p] \notin Config
        BY <1>2, <2>5, <3>1, Sentinels DEF Knows
      <3>3. track[p] # "overlapped" => Holds(domains', p, None)
        <4>1. CASE e = None
          BY <2>1, <2>3, <2>5, <4>1
        <4>2. CASE e # None
          BY <1>0, <2>1, <2>2, <2>3, <2>5, <4>2, HeldIsRemoved
        <4> QED
          BY <4>1, <4>2
      <3>4. task' = [task EXCEPT ![t] = IdleTask]
        BY <2>1, <2>5
      <3> QED
        BY <1>1, <3>2, <3>3, <3>4, Sentinels, ReloadEnds
    <2> QED
      BY <2>4, <2>5
  <1>5. CASE ReloadRead(t)
    <2>1. PICK content \in Content :
            content = disk[p] /\ task' = [task EXCEPT ![t].pc = "finish", ![t].read = content]
      BY <1>0, <1>5 DEF ReloadRead
    <2>2. PICK new : new = [task[t] EXCEPT !.pc = "finish", !.read = content]
      OBVIOUS
    <2>3. /\ new \in TaskState /\ new.path = p /\ new.pc = "finish"
          /\ new.previous = task[t].previous /\ new.read = content
      BY <1>0, <2>2 DEF TaskState
    <2>4. task' = [task EXCEPT ![t] = new] /\ task'[t] = new
      BY <1>0, <2>1, <2>2
    <2>5. UNCHANGED domains /\ task[t].pc = "load"
      BY <1>5 DEF ReloadRead
    <2>6. PICK e : e = task[t].previous
      OBVIOUS
    <2>7. track[p] # "overlapped" => Holds(domains, p, e)'
      BY <1>2, <2>5, <2>6 DEF Knows, Holds
    <2>8. track[p] # "overlapped" => Knows(t, p)'
      BY <1>1, <2>1, <2>3, <2>4, <2>6, <2>7 DEF Knows, Holds
    <2> QED
      BY <1>1, <2>3, <2>4, <2>5, <2>8, ReloadGoesOn
  <1>6. CASE ReloadLoaded(t)
    <2>1. PICK e : e = task[t].previous
      OBVIOUS
    <2>2. PICK c : c = task[t].read
      OBVIOUS
    <2>3. /\ e \in Config \union {None} /\ c \in Config /\ c.path = p /\ c.domain \in Domain
          /\ task[t].pc = "finish" /\ task' = [task EXCEPT ![t] = IdleTask]
      BY <1>0, <1>6, <2>1, <2>2 DEF ReloadLoaded, TaskState, RegistryTypeOK, TaskTypeOK, Config
    <2>4. domains' = [d \in Domain |->
                        IF d = c.domain THEN c
                        ELSE IF e # None /\ d = e.domain THEN None ELSE domains[d]]
      BY <1>6, <2>1, <2>2 DEF ReloadLoaded, Evicted
    <2>5. track[p] # "overlapped" => Holds(domains, p, e) /\ (p \notin timers => c = disk[p])
      BY <1>2, <2>1, <2>2, <2>3 DEF Knows
    <2>6. track[p] # "overlapped" => Holds(domains', p, c)
      BY <2>3, <2>4, <2>5, Sentinels DEF Holds, EntriesIn
    <2> QED
      BY <1>1, <2>3, <2>5, <2>6, ReloadEnds
  <1>7. CASE ReloadFailed(t)
    <2>1. PICK e : e = task[t].previous
      OBVIOUS
    <2>2. /\ e \in Config \union {None} /\ task[t].read \notin Config
          /\ task[t].pc = "finish" /\ task' = [task EXCEPT ![t] = IdleTask]
      BY <1>0, <1>7, <2>1, Sentinels DEF ReloadFailed, TaskState
    <2>3. IF e = None THEN UNCHANGED domains
          ELSE domains' = [domains EXCEPT ![e.domain] = None]
      BY <1>7, <2>1 DEF ReloadFailed
    <2>4. track[p] # "overlapped" =>
            Holds(domains, p, e) /\ (p \notin timers => disk[p] \notin Config)
      BY <1>2, <2>1, <2>2 DEF Knows
    <2>5. track[p] # "overlapped" => Holds(domains', p, None)
      <3>1. CASE e = None
        BY <2>3, <2>4, <3>1
      <3>2. CASE e # None
        BY <1>0, <2>2, <2>3, <2>4, <3>2, HeldIsRemoved
      <3> QED
        BY <3>1, <3>2
    <2> QED
      BY <1>1, <2>2, <2>4, <2>5, Sentinels, ReloadEnds
  <1> QED
    BY <1>3, <1>4, <1>5, <1>6, <1>7 DEF ReloadStep

-----------------------------------------------------------------------------
(* The other steps of the process.                                         *)

LEMMA InitConv == Init => ConvInv
  <1> SUFFICES ASSUME Init PROVE ConvInv
    OBVIOUS
  <1>1. \A p \in Path : EntriesIn(domains, p) = {}
    BY Sentinels DEF Init, RegistryInit, EntriesIn
  <1>2. \A p \in Path : Reloading(p) = {} /\ loader.got[p] \notin Config
    BY Sentinels, IdleTaskType, IdleLoaderType DEF Init, RegistryInit, Reloading
  <1>3. timers = {} /\ \A p \in Path : track[p] = "unseen"
    BY DEF Init, RegistryInit
  <1>4. \A p \in Path : Holds(domains, p, None)
    BY <1>1, Sentinels DEF Holds
  <1> QED
    BY <1>2, <1>3, <1>4 DEF ConvInv, UnseenAtFirst, ConvergesAt

\* loadAll() enters at most one config of a file.
LEMMA LoadedConv ==
  ASSUME ConvInv, IInv, RegistryLoaded, NEW p \in Path
  PROVE  ConvergesAt(p)'
  <1>1. /\ \A d \in Domain : domains[d] = None
        /\ timers = {} /\ \A t \in Task : task[t].pc = "idle"
        /\ ~watching /\ RegistryTypeOK
    BY DEF IInv, EmptyWhileLoading, Quiet, RegistryLoaded, TypeOK
  <1>2. UNCHANGED <<disk, timers, task, track>> /\ loader' = IdleLoader
    BY DEF RegistryLoaded, LoadAllFinish
  <1>3. track[p] = "unseen" /\ Reloading(p)' = {} /\ p \notin timers'
    BY <1>1, <1>2, Sentinels DEF ConvInv, UnseenAtFirst, Reloading, RegistryTypeOK, TaskTypeOK
  <1>4. \E c \in Config \union {None} : Holds(domains', p, c)
    <2>1. CASE LoadFailed
      <3>1. EntriesIn(domains', p) = {}
        BY <1>1, <2>1, Sentinels DEF RegistryLoaded, LoadAllFinish, EntriesIn
      <3> QED
        BY <3>1, Sentinels DEF Holds
    <2>2. CASE ~LoadFailed
      <3>1. PICK last \in [Domain -> Path] :
              /\ \A d \in Domain : Defining(d) # {} => last[d] \in Defining(d)
              /\ domains' = [d \in Domain |-> IF Defining(d) = {} THEN domains[d]
                                              ELSE loader.got[last[d]]]
        BY <2>2 DEF RegistryLoaded, LoadAllFinish
      <3>2. \A d \in Domain : domains'[d] \in Config /\ domains'[d].path = p
              => /\ domains'[d] = loader.got[p]
                 /\ loader.got[p].domain = d
        <4> SUFFICES ASSUME NEW d \in Domain, domains'[d] \in Config, domains'[d].path = p
                     PROVE  domains'[d] = loader.got[p] /\ loader.got[p].domain = d
          OBVIOUS
        <4>1. Defining(d) # {} /\ last[d] \in Defining(d) /\ domains'[d] = loader.got[last[d]]
          BY <1>1, <3>1, Sentinels
        <4>2. loader.got[last[d]].path = last[d] /\ loader.got[last[d]].domain = d
          BY <4>1 DEF Defining, ConvInv, ConvergesAt
        <4> QED
          BY <4>1, <4>2
      <3>3. CASE EntriesIn(domains', p) = {}
        BY <3>3, Sentinels DEF Holds
      <3>4. CASE EntriesIn(domains', p) # {}
        <4>1. PICK d \in Domain : domains'[d] \in Config /\ domains'[d].path = p
          BY <3>4 DEF EntriesIn
        <4>2. EntriesIn(domains', p) = {d}
          BY <3>2, <4>1 DEF EntriesIn
        <4> QED
          BY <3>2, <4>1, <4>2 DEF Holds
      <3> QED
        BY <3>3, <3>4
    <2> QED
      BY <2>1, <2>2
  <1>5. (loader.got[p])' \notin Config
    BY <1>2, IdleLoaderType, Sentinels
  <1>6. track'[p] = "unseen"
    BY <1>2, <1>3
  <1> QED
    BY <1>3, <1>4, <1>5, <1>6 DEF ConvergesAt

LEMMA EditConv ==
  ASSUME ConvInv, RegistryTypeOK, NEW q \in Path, ChangeFile(q), NEW p \in Path
  PROVE  ConvergesAt(p)'
  <1>0. /\ disk \in [Path -> Content]
        /\ track \in [Path -> {"unseen", "seen", "overlapped"}]
        /\ ConvergesAt(p)
        /\ UNCHANGED <<domains, loader, watching, task>>
    BY DEF ConvInv, RegistryTypeOK, DiskTypeOK, ChangeFile
  <1>1. CASE p # q
    <2>1. disk'[p] = disk[p] /\ track'[p] = track[p] /\ (p \in timers' <=> p \in timers)
      BY <1>0, <1>1 DEF ChangeFile
    <2>2. loader'.got[p] \in Config => loader'.got[p].path = p
      BY <1>0 DEF ConvergesAt
    <2> QED
      BY <1>0, <2>1, <2>2, ConvergesStays
  <1>3. CASE ~watching
    <2>1. track[p] = "unseen" /\ UNCHANGED <<timers, track>>
      BY <1>3 DEF ConvInv, UnseenAtFirst, ChangeFile
    <2>2. Reloading(p)' = Reloading(p)
      BY <1>0 DEF Reloading
    <2>3. (\E c \in Config \union {None} : Holds(domains, p, c))
            => (\E c \in Config \union {None} : Holds(domains, p, c))'
      BY <1>0 DEF Holds
    <2> QED
      BY <1>0, <2>1, <2>2, <2>3 DEF ConvergesAt
  <1>2. CASE p = q /\ watching
    <2>1. p \in timers'
      BY <1>2 DEF ChangeFile
    <2>2. track'[p] # "unseen" /\ (track'[p] # "overlapped" => track[p] # "overlapped")
      BY <1>0, <1>2 DEF ChangeFile
    <2>3. Reloading(p)' = Reloading(p)
      BY <1>0 DEF Reloading
    <2>4. ASSUME NEW t \in Reloading(p), Knows(t, p) PROVE Knows(t, p)'
      BY <1>0, <2>1, <2>4 DEF Knows, Holds
    <2>5. (\E c \in Config \union {None} : Holds(domains, p, c))
            => (\E c \in Config \union {None} : Holds(domains, p, c))'
      BY <1>0 DEF Holds
    <2> QED
      BY <1>0, <2>1, <2>2, <2>3, <2>4, <2>5 DEF ConvergesAt
  <1> QED
    BY <1>1, <1>2, <1>3

LEMMA DebounceConv ==
  ASSUME ConvInv, RegistryTypeOK, NEW q \in Path, NEW t \in Task, FireTimer(q, t),
         NEW p \in Path
  PROVE  ConvergesAt(p)'
  <1> DEFINE new == [IdleTask EXCEPT !.pc = "stat", !.path = q]
  <1>0. /\ task \in [Task -> TaskState] /\ task[t].path = None /\ None # p
        /\ track \in [Path -> {"unseen", "seen", "overlapped"}]
        /\ ConvergesAt(p)
        /\ UNCHANGED <<disk, domains, loader>>
    BY Sentinels DEF ConvInv, RegistryTypeOK, TaskTypeOK, FireTimer
  <1>1. new.path = q /\ new.pc = "stat"
    BY DEF IdleTask
  <1> HIDE DEF new
  <1>2. task' = [task EXCEPT ![t] = new] /\ timers' = timers \ {q} /\ q \in timers
    BY DEF FireTimer, new
  <1>3. CASE p # q
    <2>1. track'[p] = track[p] /\ (p \in timers' <=> p \in timers)
      BY <1>0, <1>2, <1>3 DEF FireTimer
    <2>2. \A u \in Task : task'[u] = task[u] \/ (task[u].path # p /\ task'[u].path # p)
      BY <1>0, <1>1, <1>2, <1>3
    <2>3. loader'.got[p] \in Config => loader'.got[p].path = p
      BY <1>0 DEF ConvergesAt
    <2> QED
      BY <1>0, <2>1, <2>2, <2>3, ConvergesStays
  <1>4. CASE p = q
    <2>1. Reloading(p)' = Reloading(p) \union {t} /\ t \notin Reloading(p)
      BY <1>0, <1>1, <1>2, <1>4 DEF Reloading
    <2>2. track[p] # "unseen"
      BY <1>0, <1>2, <1>4 DEF ConvergesAt
    <2>3. CASE Reloading(p) # {}
      <3>1. track'[p] = "overlapped"
        BY <1>0, <1>4, <2>3 DEF FireTimer, Reloading
      <3> QED
        BY <1>0, <3>1 DEF ConvergesAt
    <2>4. CASE Reloading(p) = {}
      <3>1. UNCHANGED track
        BY <1>4, <2>4 DEF FireTimer, Reloading
      <3>2. Knows(t, p)'
        BY <1>0, <1>1, <1>2 DEF Knows
      <3>3. (\E c \in Config \union {None} : Holds(domains, p, c))
              => (\E c \in Config \union {None} : Holds(domains, p, c))'
        BY <1>0 DEF Holds
      <3> QED
        BY <1>0, <2>1, <2>2, <2>4, <3>1, <3>2, <3>3 DEF ConvergesAt
    <2> QED
      BY <2>3, <2>4
  <1> QED
    BY <1>3, <1>4

\* What no file, watcher or reload does leaves every file's entries alone.
LEMMA OthersConv ==
  ASSUME ConvInv, NEW p \in Path,
         UNCHANGED <<disk, domains, loader, timers, task, track>>
  PROVE  ConvergesAt(p)'
  <1>1. ConvergesAt(p) /\ (loader'.got[p] \in Config => loader'.got[p].path = p)
    BY DEF ConvInv, ConvergesAt
  <1> QED
    BY <1>1, ConvergesStays

LEMMA StepConv ==
  ASSUME UniqueIds, IInv, OwnIds, ConvInv, [Next]_vars
  PROVE  ConvInv'
  <1>0. RegistryTypeOK
    BY DEF IInv, TypeOK
  <1>10. UnseenAtFirst'
    <2>1. CASE watching'
      BY <2>1 DEF UnseenAtFirst
    <2>2. CASE ~watching'
      <3>1. /\ watching => watching'
            /\ \/ UNCHANGED track
               \/ watching
               \/ \E q \in Path : q \in timers
        <4>1. CASE LoadRegistry \/ RegistryLoaded \/ \E q \in Path : ReadDomainFile(q)
          <5>1. LoadRegistry => UNCHANGED <<watching, track>>
            BY DEF LoadRegistry, LoadAllStart
          <5>2. RegistryLoaded => UNCHANGED <<watching, track>>
            BY DEF RegistryLoaded, LoadAllFinish
          <5>3. (\E q \in Path : ReadDomainFile(q)) => UNCHANGED <<watching, track>>
            BY DEF ReadDomainFile, LoadAllRead
          <5> QED
            BY <4>1, <5>1, <5>2, <5>3
        <4>6. CASE InitializeService \/ StartService \/ Interrupt
          BY <4>6 DEF InitializeService, StartService, Interrupt, registryVars
        <4>7. CASE (\E d \in Domain, s \in Secret : AskSecurity(d, s)) \/ UNCHANGED vars
          BY <4>7 DEF AskSecurity, GetSecurity, vars, registryVars
        <4>2. CASE WatchDomains
          BY <4>2 DEF WatchDomains, StartWatch
        <4>3. CASE \E q \in Path : EditFile(q)
          BY <4>3 DEF EditFile, ChangeFile
        <4>4. CASE \E q \in Path : DebounceOver(q)
          BY <4>4 DEF DebounceOver, FireTimer
        <4>5. CASE \E t \in Task : Reload(t)
          BY <4>5 DEF Reload, ReloadStep, ReloadStat, ReloadResume, ReloadRead,
             ReloadLoaded, ReloadFailed
        <4> QED
          BY <4>1, <4>2, <4>3, <4>4, <4>5, <4>6, <4>7 DEF Next
      <3>2. \A q \in Path : track[q] = "unseen" /\ q \notin timers
        BY <2>2, <3>1 DEF ConvInv, UnseenAtFirst, ConvergesAt
      <3> QED
        BY <2>2, <3>1, <3>2 DEF UnseenAtFirst
    <2> QED
      BY <2>1, <2>2
  <1> SUFFICES ASSUME NEW p \in Path PROVE ConvergesAt(p)'
    BY <1>10 DEF ConvInv
  <1>1. CASE LoadRegistry
    <2>1. (\A d \in Domain : domains'[d] = domains[d]) /\ (loader.got[p])' = None
      BY <1>1 DEF LoadRegistry, LoadAllStart, IInv, EmptyWhileLoading
    <2>2. \A c : Holds(domains, p, c) => Holds(domains', p, c)
      BY <2>1, HoldsStays
    <2>3. UNCHANGED <<disk, timers, task, track>>
      BY <1>1 DEF LoadRegistry, LoadAllStart
    <2> QED
      BY <2>1, <2>2, <2>3, Sentinels, ConvergesStays DEF ConvInv
  <1>2. CASE \E q \in Path : ReadDomainFile(q)
    <2>1. PICK q \in Path : LoadAllRead(q)
      BY <1>2 DEF ReadDomainFile
    <2>2. UNCHANGED <<disk, domains, timers, task, track>>
      BY <2>1 DEF LoadAllRead
    <2>3. loader'.got[p] \in Config => loader'.got[p].path = p
      BY <1>0, <2>1 DEF LoadAllRead, RegistryTypeOK, LoaderTypeOK, DiskTypeOK, ConvInv, ConvergesAt
    <2> QED
      BY <2>2, <2>3, ConvergesStays DEF ConvInv
  <1>3. CASE RegistryLoaded
    BY <1>3, LoadedConv
  <1>4. CASE InitializeService \/ StartService \/ WatchDomains \/ Interrupt
             \/ (\E d \in Domain, s \in Secret : AskSecurity(d, s)) \/ UNCHANGED vars
    <2>1. UNCHANGED <<disk, domains, loader, timers, task, track>>
      BY <1>4 DEF InitializeService, StartService, WatchDomains, StartWatch, Interrupt,
         AskSecurity, GetSecurity, vars, registryVars
    <2> QED
      BY <2>1, OthersConv
  <1>5. CASE \E q \in Path : EditFile(q)
    BY <1>0, <1>5, EditConv DEF EditFile
  <1>6. CASE \E q \in Path : DebounceOver(q)
    BY <1>0, <1>6, DebounceConv DEF DebounceOver
  <1>7. CASE \E t \in Task : Reload(t)
    <2>1. PICK t \in Task : ReloadStep(t)
      BY <1>7 DEF Reload
    <2>2. ConvergesAt(p)
      BY DEF ConvInv
    <2> QED
      BY <1>0, <2>1, <2>2, ReloadElsewhere, ReloadAtHome
  <1> QED
    BY <1>1, <1>2, <1>3, <1>4, <1>5, <1>6, <1>7 DEF Next

(* Where every id is written to one file, the registry has caught up with  *)
(* every reported file once no timer and no reload is left, unless two     *)
(* reloads of that file overlapped: files that break, vanish, come back or *)
(* change their id while they are read included (registry-watch.ts:56-75,  *)
(* 92-147).                                                                *)
THEOREM ReloadsReachTheRegistry ==
  ASSUME UniqueIds PROVE Spec => []ReloadsConverge
  <1>1. IInv /\ ConvInv => ReloadsConverge
    <2> SUFFICES ASSUME IInv, ConvInv, Settled, NEW p \in Path, track[p] = "seen"
                 PROVE  MatchesDisk(p)
      BY DEF ReloadsConverge
    <2>1. RegistryTypeOK
      BY DEF IInv, TypeOK
    <2>2. Reloading(p) = {} /\ p \notin timers
      BY <2>1, Sentinels DEF Settled, Reloading, RegistryTypeOK, TaskTypeOK
    <2>3. Holds(domains, p, disk[p])
      BY <2>2 DEF ConvInv, ConvergesAt
    <2> QED
      BY <2>1, <2>3, HeldMatchesDisk
  <1>2. IInv /\ OwnIds /\ ConvInv /\ [Next]_vars => ConvInv'
    BY StepConv
  <1> QED
    BY <1>1, <1>2, InitConv, Invariance, IdsInvariance, PTL DEF Spec
=============================================================================
