------------------------------- MODULE Doctor --------------------------------
(***************************************************************************)
(* `sp doctor`: the check of every domain file (checkAllDomains of         *)
(* src/src/config/doctor.ts) and its snapshots                             *)
(* (src/src/domain/doctor-snapshot.ts), run by src/src/cli/config-         *)
(* doctor.ts, while the files are edited, by several processes, each of    *)
(* which may be killed.                                                    *)
(*                                                                         *)
(* A file's content is the domain that it names, whether its inventory is  *)
(* inline or in a legacy encrypted file (whose key is not set), and the    *)
(* error a check finds in it: one in the file as it is written ("public"), *)
(* one in the config made from it ("merged"), or none.  A domain's vault   *)
(* is its private file (its metadata), the store, and the master key and   *)
(* the CSRF secret in the keychain, which are not there either while the   *)
(* keychain does not answer.  Every await between two reads lets others    *)
(* in.                                                                     *)
(*                                                                         *)
(* What is reported depends, in its warnings, also on how doctor is run:   *)
(* on its flags (--matrix-section), on the terminal, the environment and   *)
(* the operating system (doctor.ts:434-500).  That is a run's setting,     *)
(* and so is the template that configs are compared with, which nobody     *)
(* edits meanwhile.  CSRF is enabled in every config.  Files are numbered  *)
(* in the order of their paths.                                            *)
(***************************************************************************)
EXTENDS Naturals, FiniteSets, Sequences

CONSTANTS
    Process,
    RunSetting,       \* how doctor may be run
    Id,               \* what files name as their domain
    Content,          \* readable contents of a domain file
    NoId,             \* the name of what cannot be parsed, "<unknown>"
    Unreadable, Gone, \* a file that does not parse; no file
    FirstFiles,       \* the domain files at first
    FirstVaults,      \* the vaults at first
    FileChange,       \* what may become of a file
    VaultChange,      \* what may become of a vault
    MaxFileChanges,   \* bound on the edits of files and vaults
    MaxDoctorKills    \* bound on the processes killed

Path == DOMAIN FirstFiles
Vault == [meta : {"none", "broken", "wrong", "good"}, key : BOOLEAN, store : BOOLEAN,
          csrf : BOOLEAN]

ASSUME DoctorAssumption ==
    /\ MaxFileChanges \in Nat /\ MaxDoctorKills \in Nat /\ NoId \notin Id
    /\ \A c \in Content : c.id \in Id /\ c.flaw \in {"none", "public", "merged"}
    /\ FirstFiles \in Seq(Content) /\ FirstVaults \in [Id -> Vault]
    /\ FileChange \subseteq Content \union {Unreadable, Gone} /\ VaultChange \subseteq Vault

VARIABLES
    file,       \* the domain files
    vault,      \* vault[i]: the vault of domain i
    fileChanges,
    snapshot,   \* the index of the snapshots
    doctor,     \* the processes
    seen,       \* history, seen[p]: the files and vaults there were since p began
    killed

doctorVars == <<file, vault, fileChanges, snapshot, doctor, seen, killed>>

Anyhow == "any"    \* the setting of what depends on none

DoctorOver == {"exit 0", "exit 1", "killed"}
NotRun == [at |-> "off", setting |-> Anyhow, todo |-> {}, raw |-> Gone, stored |-> FALSE,
           config |-> Gone, inventory |-> "none", issues |-> {}, reports |-> {},
           drift |-> "unknown", began |-> 0, baseline |-> [began |-> 0, setting |-> Anyhow]]
NoSnapshot == [is |-> "none", reports |-> {}, began |-> 0, setting |-> Anyhow]

Warning == {"inline", "no master key", "key not set", "no csrf secret"}
Error == {"parse", "public", "not moved", "config", "private", "domain", "no store", "merged"}
Report == [file : Path, id : Id \union {NoId}, issues : SUBSET (Warning \union Error),
           config : Content \union {Gone}, inventory : {"none", "public", "private"},
           setting : RunSetting \union {Anyhow}]
LoadStep == {"exists", "text", "key", "store"}

DoctorTypeOK ==
    /\ file \in [Path -> Content \union {Unreadable, Gone}]
    /\ vault \in [Id -> Vault]
    /\ fileChanges \in 0 .. MaxFileChanges /\ killed \in 0 .. MaxDoctorKills
    /\ snapshot.is \in {"none", "torn", "whole"} /\ snapshot.reports \subseteq Report
    /\ \A p \in Process :
        /\ doctor[p].at \in {"off", "public", "private", "load", "metadata", "secrets", "master key",
                             "rest", "pages", "index", "exit"} \union LoadStep \union DoctorOver
        /\ doctor[p].drift \in {"unknown", "no baseline", "drift", "quiet"}
        /\ doctor[p].todo \subseteq Path
        /\ doctor[p].reports \subseteq Report
        /\ \A s \in seen[p] : s.vault \in [Id -> Vault] /\ DOMAIN s.file = Path

-----------------------------------------------------------------------------
(* What the checks find                                                    *)

Readable(content) == content \notin {Unreadable, Gone}

When(condition, issue) == IF condition THEN {issue} ELSE {}

\* validatePublicFile: an inline inventory without a private file is an error.
PublicErrors(content, there) ==
    When(content.flaw = "public", "public")
        \union When(content.inline /\ ~there /\ ~content.legacy, "not moved")

\* validateDomain.
MergedErrors(content) == When(content.flaw = "merged", "merged")

\* validateDomainSecurity: of a config that was loaded it asks for the secret.
SecurityWarnings(config, vaults) ==
    When(config # Gone /\ ~vaults[config.id].csrf, "no csrf secret")

\* loadPrivateInventory, which asks for the private file, reads it, the key and
\* the store: what the next step is.  Without a private file the inventory is
\* the public file's.
ReadVault(step, private) ==
    CASE step = "exists" -> IF private.meta = "none" THEN "loaded" ELSE "text"
      [] step = "text" -> IF private.meta \in {"none", "broken"} THEN "throws" ELSE "key"
      [] step = "key" -> IF private.key THEN "store" ELSE "throws"
      [] step = "store" -> IF private.store THEN "loaded" ELSE "throws"

\* Whether loadDomainFile gets as far as that.
Inventoried(content) == Readable(content) /\ ~content.legacy

DoctorInit ==
    /\ file = FirstFiles /\ vault = FirstVaults /\ fileChanges = 0
    /\ snapshot = NoSnapshot
    /\ doctor = [p \in Process |-> NotRun]
    /\ seen = [p \in Process |-> {}]
    /\ killed = 0

-----------------------------------------------------------------------------
(* The project                                                             *)

Alive == {p \in Process : doctor[p].at \notin DoctorOver \union {"off"}}

OnDisk == [file |-> file, vault |-> vault]

Changed ==
    /\ fileChanges < MaxFileChanges /\ fileChanges' = fileChanges + 1
    /\ seen' = [p \in Process |-> IF p \in Alive THEN seen[p] \union {OnDisk'} ELSE seen[p]]
    /\ UNCHANGED <<snapshot, doctor, killed>>

ChangeFile(f, content) ==
    /\ content # file[f]
    /\ file' = [file EXCEPT ![f] = content]
    /\ UNCHANGED vault
    /\ Changed

ChangeVault(i, private) ==
    /\ private # vault[i]
    /\ vault' = [vault EXCEPT ![i] = private]
    /\ UNCHANGED file
    /\ Changed

-----------------------------------------------------------------------------
(* checkAllDomains                                                         *)

Project == <<file, vault, fileChanges, killed>>
\* The files are discovered once, by name.
BeginDoctor(p, setting) ==
    /\ doctor[p].at = "off"
    /\ doctor' = [doctor EXCEPT ![p] = [NotRun EXCEPT
           !.at = "public", !.setting = setting, !.began = fileChanges,
           !.todo = {f \in Path : file[f] # Gone}]]
    /\ seen' = [seen EXCEPT ![p] = {OnDisk}]
    /\ UNCHANGED <<Project, snapshot>>

\* The end of a result that is printed.
RunConfigDoctor(p, ok) ==
    doctor' = [doctor EXCEPT ![p] = [NotRun EXCEPT !.at = IF ok THEN "exit 0" ELSE "exit 1"]]

\* --check-peer-meta asks for nothing but the peers: their warnings fail it.
PeerMetaOnly(p, warnings) ==
    /\ doctor[p].at = "off"
    /\ RunConfigDoctor(p, ~warnings)
    /\ UNCHANGED <<Project, snapshot, seen>>

\* They are checked in the order of their paths.
Current(todo) == CHOOSE f \in todo : \A g \in todo : f <= g

NextPath(p, report) ==
    doctor' = [doctor EXCEPT ![p] =
        [doctor[p] EXCEPT !.at = "public", !.todo = @ \ {Current(doctor[p].todo)},
                          !.raw = Gone, !.stored = FALSE, !.config = Gone,
                          !.inventory = "none", !.issues = {},
                          !.reports = @ \union {report}]]

\* What does not parse is reported under no name, and is done with.
ReadPublicFile(p) ==
    /\ doctor[p].at = "public" /\ doctor[p].todo # {}
    /\ LET content == file[Current(doctor[p].todo)]
       IN IF Readable(content)
            THEN doctor' = [doctor EXCEPT ![p].at = "private", ![p].raw = content]
            ELSE NextPath(p, [file |-> Current(doctor[p].todo), id |-> NoId, issues |-> {"parse"},
                              config |-> Gone, inventory |-> "none", setting |-> Anyhow])
    /\ UNCHANGED <<Project, snapshot, seen>>

CheckPublic(p) ==
    /\ doctor[p].at = "private"
    /\ LET d == doctor[p]
           there == vault[d.raw.id].meta # "none"
       IN doctor' = [doctor EXCEPT
              ![p].at = "load", ![p].stored = there,
              ![p].issues = PublicErrors(d.raw, there) \union When(d.raw.inline, "inline")]
    /\ UNCHANGED <<Project, snapshot, seen>>

\* The private file is read next if there was one.
AfterLoad(p) == IF doctor[p].stored THEN "metadata" ELSE "rest"

NotLoaded(p, issue) ==
    doctor' = [doctor EXCEPT ![p].at = AfterLoad(p), ![p].config = Gone,
                             ![p].issues = @ \union {issue}]

\* The file is read a second time.  A legacy inventory whose key is not set is
\* only a warning.
LoadConfig(p) ==
    /\ doctor[p].at = "load"
    /\ LET content == file[Current(doctor[p].todo)]
       IN IF Inventoried(content)
            THEN doctor' = [doctor EXCEPT ![p].at = "exists", ![p].config = content]
            ELSE NotLoaded(p, IF Readable(content) THEN "key not set" ELSE "config")
    /\ UNCHANGED <<Project, snapshot, seen>>

ReadNext(p, issue) ==
    /\ doctor[p].at \in LoadStep
    /\ LET next == ReadVault(doctor[p].at, vault[doctor[p].config.id])
       IN CASE next = "throws" -> NotLoaded(p, issue)
            [] next = "loaded" -> doctor' = [doctor EXCEPT
                   ![p].at = AfterLoad(p),
                   ![p].inventory = IF doctor[p].at = "exists" THEN "public" ELSE "private"]
            [] OTHER -> doctor' = [doctor EXCEPT ![p].at = next]
    /\ UNCHANGED <<Project, snapshot, seen>>

\* Faulty variant: any load that throws is taken for one whose key is not set.
LoadInventoryForgiving(p) == ReadNext(p, "key not set")

LoadInventory(p) == ReadNext(p, "config")

\* validatePrivateFile: a key that is missing is only a warning.
CheckPrivateFile(p) ==
    /\ doctor[p].at = "metadata"
    /\ LET meta == vault[doctor[p].raw.id].meta
           parses == meta \notin {"none", "broken"}
       IN doctor' = [doctor EXCEPT
              ![p].at = IF parses THEN "secrets" ELSE "rest",
              ![p].issues = @ \union When(~parses, "private") \union When(meta = "wrong", "domain")]
    /\ UNCHANGED <<Project, snapshot, seen>>

CheckEncryptedStore(p) ==
    /\ doctor[p].at = "secrets"
    /\ doctor' = [doctor EXCEPT
           ![p].at = "master key",
           ![p].issues = @ \union When(~vault[doctor[p].raw.id].store, "no store")]
    /\ UNCHANGED <<Project, snapshot, seen>>

CheckMasterKey(p) ==
    /\ doctor[p].at = "master key"
    /\ doctor' = [doctor EXCEPT
           ![p].at = "rest",
           ![p].issues = @ \union When(~vault[doctor[p].raw.id].key, "no master key")]
    /\ UNCHANGED <<Project, snapshot, seen>>

\* Without a loaded config it is the public file that is checked, on defaults.
CheckRest(p) ==
    /\ doctor[p].at = "rest"
    /\ LET d == doctor[p]
           checked == IF d.config = Gone THEN d.raw ELSE d.config
       IN NextPath(p, [file |-> Current(d.todo), id |-> d.raw.id,
                       issues |-> d.issues \union MergedErrors(checked)
                                      \union SecurityWarnings(d.config, vault),
                       config |-> d.config, inventory |-> d.inventory, setting |-> d.setting])
    /\ UNCHANGED <<Project, snapshot, seen>>

-----------------------------------------------------------------------------
(* Snapshots                                                               *)

Ids(reports) == {r.id : r \in reports}
FirstOf(reports, id) ==
    CHOOSE r \in reports : r.id = id /\ \A q \in reports : q.id = id => r.file <= q.file

\* compareDoctorSnapshots: of the reports under one name it compares the first,
\* with all that it reports, warnings included.
Same(reports, previous) ==
    /\ Ids(reports) = Ids(previous)
    /\ \A id \in Ids(reports) : FirstOf(reports, id) = FirstOf(previous, id)

\* Drift, and an index that is not there or not readable, are warnings.
CompareSnapshot(p, update) ==
    /\ doctor[p].at = "public" /\ doctor[p].todo = {}
    /\ doctor' = [doctor EXCEPT
           ![p].at = IF update THEN "pages" ELSE "exit",
           ![p].drift = IF snapshot.is # "whole" THEN "no baseline"
                        ELSE IF Same(doctor[p].reports, snapshot.reports) THEN "quiet" ELSE "drift",
           ![p].baseline = [began |-> snapshot.began, setting |-> snapshot.setting]]
    /\ UNCHANGED <<Project, snapshot, seen>>

\* The index is written in place, after a page for each domain that nothing
\* ever reads.
OpenSnapshot(p) ==
    /\ doctor[p].at = "pages"
    /\ snapshot' = [NoSnapshot EXCEPT !.is = "torn"]
    /\ doctor' = [doctor EXCEPT ![p].at = "index"]
    /\ UNCHANGED <<Project, seen>>

Document(p, reports) == [is |-> "whole", reports |-> reports, began |-> doctor[p].began,
                         setting |-> doctor[p].setting]

Written(p, reports) ==
    /\ doctor[p].at = "index"
    /\ snapshot' = Document(p, reports)
    /\ doctor' = [doctor EXCEPT ![p].at = "exit"]
    /\ UNCHANGED <<Project, seen>>

\* Faulty variant: what is written is the document of the last page.
CloseSnapshotOfLast(p) ==
    Written(p, {r \in doctor[p].reports : \A q \in doctor[p].reports : q.file <= r.file})

CloseSnapshot(p) == Written(p, doctor[p].reports)

\* Without a domain file a doctor is never content.
Satisfied(p) ==
    /\ \A r \in doctor[p].reports : r.issues \subseteq Warning
    /\ doctor[p].reports # {}

\* The template, the lockfile, the config formats and the runtime may have
\* errors of their own.
ExitDoctor(p, errors) ==
    /\ \/ doctor[p].at = "exit"
       \/ doctor[p].at = "public" /\ doctor[p].todo = {}
    /\ RunConfigDoctor(p, Satisfied(p) /\ ~errors)
    /\ seen' = [seen EXCEPT ![p] = {}]
    /\ UNCHANGED <<Project, snapshot>>

KillDoctor(p) ==
    /\ p \in Alive /\ killed < MaxDoctorKills
    /\ killed' = killed + 1
    /\ doctor' = [doctor EXCEPT ![p] = [NotRun EXCEPT !.at = "killed"]]
    /\ seen' = [seen EXCEPT ![p] = {}]
    /\ UNCHANGED <<file, vault, fileChanges, snapshot>>

DoctorNext ==
    \/ \E f \in Path, content \in FileChange : ChangeFile(f, content)
    \/ \E i \in Id, private \in VaultChange : ChangeVault(i, private)
    \/ \E p \in Process, setting \in RunSetting : BeginDoctor(p, setting)
    \/ \E p \in Process, warnings \in BOOLEAN : PeerMetaOnly(p, warnings)
    \/ \E p \in Process, errors \in BOOLEAN : ExitDoctor(p, errors)
    \/ \E p \in Process, update \in BOOLEAN : CompareSnapshot(p, update)
    \/ \E p \in Process :
        \/ ReadPublicFile(p) \/ CheckPublic(p) \/ LoadConfig(p) \/ LoadInventory(p)
        \/ CheckPrivateFile(p) \/ CheckEncryptedStore(p) \/ CheckMasterKey(p) \/ CheckRest(p)
        \/ OpenSnapshot(p) \/ CloseSnapshot(p) \/ KillDoctor(p)

DoctorSpec == DoctorInit /\ [][DoctorNext]_doctorVars

-----------------------------------------------------------------------------
\* What was to be seen of the vault of i at some time of `disks`.
Away(disks, i) == \E d \in disks : d.vault[i].meta = "none"
Parses(disks, i) == \E d \in disks : d.vault[i].meta \in {"wrong", "good"}
Fits(disks, i) == \E d \in disks : d.vault[i].meta = "good"
Keyed(disks, i) == \E d \in disks : d.vault[i].key
Kept(disks, i) == \E d \in disks : d.vault[i].store

\* Its inventory could be loaded, and a check of `content` found no error in it.
Loadable(disks, i) == Away(disks, i) \/ (Parses(disks, i) /\ Keyed(disks, i) /\ Kept(disks, i))
Faultless(disks, content, i) ==
    \/ PublicErrors(content, FALSE) = {} /\ Away(disks, i)
    \/ PublicErrors(content, TRUE) = {} /\ Fits(disks, i) /\ Kept(disks, i)

(* A doctor that is content vouches for every file it found.  Since it     *)
(* began there was a version of the file without an error as it is         *)
(* written, with a vault without one or none, and a version that made a    *)
(* config without an error, whose vault could be loaded.  These need not   *)
(* be one version, for it reads each file twice, and the private file, the *)
(* key and the store each at a time of its own (doctor.ts:627-800,         *)
(* loader.ts:60-191).                                                      *)
CleanExitMeansClean ==
    \A p \in Process : doctor[p].at \notin DoctorOver /\ doctor[p].todo = {} /\ Satisfied(p) =>
        \A r \in doctor[p].reports : \E s, u \in seen[p] :
            LET raw == s.file[r.file]
                config == u.file[r.file]
            IN /\ Readable(raw) /\ raw.id = r.id /\ Faultless(seen[p], raw, r.id)
               /\ Readable(config)
               /\ IF config.legacy THEN MergedErrors(raw) = {}
                  ELSE MergedErrors(config) = {} /\ Loadable(seen[p], config.id)

(* Drift is never a false alarm: where nothing changed since the run that  *)
(* compares and the update that made the index began, and both were run    *)
(* the same way, the comparison is quiet, whatever other updates did       *)
(* meanwhile, however they were run and wherever they died                 *)
(* (doctor-snapshot.ts:109-208).                                           *)
UnchangedIsQuiet ==
    \A p \in Process : doctor[p].drift = "drift" =>
        \/ doctor[p].began < fileChanges \/ doctor[p].baseline.began < fileChanges
        \/ doctor[p].baseline.setting # doctor[p].setting
=============================================================================
