--------------------------- MODULE VaultMigration ---------------------------
(***************************************************************************)
(* Moving the inline secret inventories of domain files into the vault     *)
(* (scripts/migrate-vault.ts): a master key in the OS keychain, an         *)
(* encrypted store, private metadata, and last the public file without the *)
(* inventory.  The migration may die at any step and be run again, with or *)
(* without --force; master-key init and delete (src/src/cli/master-key.ts) *)
(* may be run before it or after, and another process loads a domain       *)
(* meanwhile (src/src/config/loader.ts).  The keychain may fail to answer  *)
(* any read, which then finds no key.                                      *)
(*                                                                         *)
(* An operator runs one command at a time, and domains have names of their *)
(* own.  A master key is told from others only by being another one, so a  *)
(* new one is any that nobody holds.                                       *)
(***************************************************************************)
EXTENDS Naturals, FiniteSets

CONSTANTS
    File,          \* domain files, each with an inline inventory at first
    Key,           \* master keys
    NoKey,
    NoFile,
    MaxCrashes,    \* bound on the number of crashes
    MaxKeyChanges  \* bound on the keys that master-key makes or deletes

ASSUME VaultAssumption ==
    /\ MaxCrashes \in Nat /\ MaxKeyChanges \in Nat /\ NoFile \notin File
    /\ Key \intersect {NoKey, "none", "torn"} = {}

\* There is always a key that nobody holds.
ASSUME KeyAssumption == \A a, b, c \in Key \union {NoKey} : Key \ {a, b, c} # {}

VARIABLES
    public,      \* public[f]: the inventory is inline or stripped; or the file is torn
    private,     \* private[f]: the metadata file: none, torn, or complete
    store,       \* store[f]: the encrypted store: none, torn, or the key it was made with
    key,         \* key[f]: the master key in the keychain
    ignored,     \* .gitignore names the vault
    command,     \* the command under way
    load,        \* a load of a domain by another process
    replaced,    \* replaced[f]: the key was replaced by force, over a vault
    unkeyed,     \* unkeyed[f]: master-key took the key of a whole vault away,
                 \* and no migration gave it one since
    crashes,
    keyChanges

files == <<public, private, store, key, ignored>>
histories == <<replaced, unkeyed, crashes, keyChanges>>
vaultVars == <<files, command, load, histories>>

Torn == "torn"
NoneYet == "none"
Idle == [step |-> "idle", force |-> FALSE, file |-> NoFile, todo |-> {}, key |-> NoKey]
NotLoading == [step |-> "idle", file |-> NoFile, inline |-> FALSE, key |-> NoKey, result |-> "none"]

MigrationStep == {"idle", "next", "read", "check", "set key", "save store", "store torn",
                  "write private", "private torn", "write public", "public torn"}

VaultTypeOK ==
    /\ public \in [File -> {"inline", "stripped", Torn}]
    /\ private \in [File -> {NoneYet, Torn, "complete"}]
    /\ store \in [File -> {NoneYet, Torn} \union Key]
    /\ key \in [File -> Key \union {NoKey}]
    /\ ignored \in BOOLEAN
    /\ command \in [step : MigrationStep, force : BOOLEAN, file : File \union {NoFile},
                    todo : SUBSET File, key : Key \union {NoKey}]
    /\ command.key # NoKey => command.file \in File /\ key[command.file] = command.key
    /\ load \in [step : {"idle", "private", "key", "store", "over"}, file : File \union {NoFile},
                 inline : BOOLEAN, key : Key \union {NoKey},
                 result : {"none", "full", "partial", "empty", "throws"}]
    /\ load.step # "idle" => load.file \in File
    /\ replaced \in [File -> BOOLEAN] /\ unkeyed \in [File -> BOOLEAN]
    /\ crashes \in 0 .. MaxCrashes /\ keyChanges \in 0 .. MaxKeyChanges

VaultInit ==
    /\ public = [f \in File |-> "inline"]
    /\ private = [f \in File |-> NoneYet]
    /\ store = [f \in File |-> NoneYet]
    /\ key = [f \in File |-> NoKey]
    /\ ignored = FALSE
    /\ command = Idle
    /\ load = NotLoading
    /\ replaced = [f \in File |-> FALSE] /\ unkeyed = [f \in File |-> FALSE]
    /\ crashes = 0 /\ keyChanges = 0

-----------------------------------------------------------------------------
(* migrate                                                                 *)

StartMigration(force) ==
    /\ command = Idle
    /\ command' = [Idle EXCEPT !.step = "next", !.force = force, !.todo = File]
    /\ UNCHANGED <<files, load, histories>>

NextFile(f) ==
    /\ command.step = "next"
    /\ f \in command.todo
    /\ command' = [command EXCEPT !.step = "read", !.file = f, !.todo = @ \ {f}]
    /\ UNCHANGED <<files, load, histories>>

Skip == command' = [command EXCEPT !.step = "next", !.file = NoFile, !.key = NoKey]

\* A torn file does not parse, and that ends the whole migration; a file
\* without an inline inventory is skipped.
ReadPublic(f) ==
    /\ command.step = "read" /\ command.file = f
    /\ CASE public[f] = Torn -> command' = Idle
         [] public[f] = "stripped" -> Skip
         [] public[f] = "inline" -> command' = [command EXCEPT !.step = "check"]
    /\ UNCHANGED <<files, load, histories>>

VaultExists(f) == private[f] # NoneYet \/ store[f] # NoneYet

\* hasMasterKey: a keychain that does not answer has no key.
HasMasterKey(f, answers) == answers /\ key[f] # NoKey

\* Faulty variant: --force is not asked for.
CheckVaultAlways(f, answers) ==
    /\ command.step = "check" /\ command.file = f
    /\ IF VaultExists(f) \/ HasMasterKey(f, answers) THEN Skip
       ELSE command' = [command EXCEPT !.step = "set key"]
    /\ UNCHANGED <<files, load, histories>>

CheckVault(f, answers) ==
    /\ command.step = "check" /\ command.file = f
    /\ IF ~command.force /\ (VaultExists(f) \/ HasMasterKey(f, answers)) THEN Skip
       ELSE command' = [command EXCEPT !.step = "set key"]
    /\ UNCHANGED <<files, load, histories>>

FreshKey(f) == CHOOSE k \in Key : k \notin {key[f], store[f], load.key}

\* Faulty variant: a key that is there is left, and the new one is used.
SetKeyIfNone(f) ==
    /\ command.step = "set key" /\ command.file = f
    /\ key' = [key EXCEPT ![f] = IF @ = NoKey THEN FreshKey(f) ELSE @]
    /\ command' = [command EXCEPT !.step = "save store", !.key = FreshKey(f)]
    /\ replaced' = [replaced EXCEPT ![f] = @ \/ VaultExists(f)]
    /\ unkeyed' = [unkeyed EXCEPT ![f] = FALSE]
    /\ UNCHANGED <<public, private, store, ignored, load, crashes, keyChanges>>

SetKey(f) ==
    /\ command.step = "set key" /\ command.file = f
    /\ key' = [key EXCEPT ![f] = FreshKey(f)]
    /\ command' = [command EXCEPT !.step = "save store", !.key = FreshKey(f)]
    /\ replaced' = [replaced EXCEPT ![f] = @ \/ VaultExists(f)]
    /\ unkeyed' = [unkeyed EXCEPT ![f] = FALSE]
    /\ UNCHANGED <<public, private, store, ignored, load, crashes, keyChanges>>

\* The keychain refuses, and that ends the whole migration.
SetKeyFails(f) ==
    /\ command.step = "set key" /\ command.file = f
    /\ command' = Idle
    /\ UNCHANGED <<files, load, histories>>

\* A file is written in place: it is torn until it is complete.
OpenStore(f) ==
    /\ command.step = "save store" /\ command.file = f
    /\ store' = [store EXCEPT ![f] = Torn]
    /\ command' = [command EXCEPT !.step = "store torn"]
    /\ UNCHANGED <<public, private, key, ignored, load, histories>>

\* Faulty variant: the public file is rewritten first.
CloseStorePublicNext(f) ==
    /\ command.step = "store torn" /\ command.file = f
    /\ store' = [store EXCEPT ![f] = command.key]
    /\ public' = [public EXCEPT ![f] = "stripped"]
    /\ command' = [command EXCEPT !.step = "write private"]
    /\ UNCHANGED <<private, key, ignored, load, histories>>

CloseStore(f) ==
    /\ command.step = "store torn" /\ command.file = f
    /\ store' = [store EXCEPT ![f] = command.key]
    /\ command' = [command EXCEPT !.step = "write private"]
    /\ UNCHANGED <<public, private, key, ignored, load, histories>>

OpenPrivate(f) ==
    /\ command.step = "write private" /\ command.file = f
    /\ private' = [private EXCEPT ![f] = Torn]
    /\ command' = [command EXCEPT !.step = "private torn"]
    /\ UNCHANGED <<public, store, key, ignored, load, histories>>

ClosePrivate(f) ==
    /\ command.step = "private torn" /\ command.file = f
    /\ private' = [private EXCEPT ![f] = "complete"]
    /\ command' = [command EXCEPT !.step = "write public"]
    /\ UNCHANGED <<public, store, key, ignored, load, histories>>

OpenPublic(f) ==
    /\ command.step = "write public" /\ command.file = f
    /\ public' = [public EXCEPT ![f] = Torn]
    /\ command' = [command EXCEPT !.step = "public torn"]
    /\ UNCHANGED <<private, store, key, ignored, load, histories>>

ClosePublic(f) ==
    /\ command.step = "public torn" /\ command.file = f
    /\ public' = [public EXCEPT ![f] = "stripped"]
    /\ Skip
    /\ UNCHANGED <<private, store, key, ignored, load, histories>>

Migrate(f) ==
    \/ NextFile(f) \/ ReadPublic(f) \/ SetKey(f) \/ \E answers \in BOOLEAN : CheckVault(f, answers)
    \/ OpenStore(f) \/ CloseStore(f) \/ OpenPrivate(f) \/ ClosePrivate(f)
    \/ OpenPublic(f) \/ ClosePublic(f)

EndMigration ==
    /\ command.step = "next" /\ command.todo = {}
    /\ ignored' = TRUE
    /\ command' = Idle
    /\ UNCHANGED <<public, private, store, key, load, histories>>

Crash ==
    /\ command # Idle
    /\ crashes < MaxCrashes
    /\ crashes' = crashes + 1
    /\ command' = Idle
    /\ UNCHANGED <<files, load, replaced, unkeyed, keyChanges>>

-----------------------------------------------------------------------------
(* master-key                                                              *)

Stored(f) == store[f] \in Key /\ store[f] = key[f]

ChangeKey(f, new) ==
    /\ command = Idle
    /\ keyChanges < MaxKeyChanges /\ keyChanges' = keyChanges + 1
    /\ key' = [key EXCEPT ![f] = new]
    /\ unkeyed' = [unkeyed EXCEPT ![f] = @ \/ Stored(f)]
    /\ UNCHANGED <<public, private, store, ignored, command, load, replaced, crashes>>

\* A key that is there is left, but it is overwritten if the keychain takes the
\* new one and did not answer when it was asked for the old.
InitMasterKey(f, answers) == ~HasMasterKey(f, answers) /\ ChangeKey(f, FreshKey(f))

DeleteMasterKey(f) == ChangeKey(f, NoKey)

-----------------------------------------------------------------------------
(* loadDomainFile                                                          *)

Loaded(result) == load' = [NotLoading EXCEPT !.step = "over", !.file = load.file, !.result = result]

LoadPublic(f) ==
    /\ load = NotLoading
    /\ load' = IF public[f] = Torn
                 THEN [NotLoading EXCEPT !.step = "over", !.file = f, !.result = "throws"]
                 ELSE [NotLoading EXCEPT !.step = "private", !.file = f,
                                         !.inline = public[f] = "inline"]
    /\ UNCHANGED <<files, command, histories>>

\* Without private metadata the inventory is the one of the public file.  No
\* command removes them, so that what asks for the file and what reads it are one.
LoadPrivate(f) ==
    /\ load.step = "private" /\ load.file = f
    /\ CASE private[f] = NoneYet -> Loaded(IF load.inline THEN "full" ELSE "empty")
         [] private[f] = Torn -> Loaded("throws")
         [] private[f] = "complete" -> load' = [load EXCEPT !.step = "key"]
    /\ UNCHANGED <<files, command, histories>>

LoadKey(f, answers) ==
    /\ load.step = "key" /\ load.file = f
    /\ IF HasMasterKey(f, answers) THEN load' = [load EXCEPT !.step = "store", !.key = key[f]]
       ELSE Loaded("throws")
    /\ UNCHANGED <<files, command, histories>>

\* Lines that do not decrypt are skipped: a torn store gives what is whole of
\* it, and a store made with another key gives nothing.
LoadStore(f) ==
    /\ load.step = "store" /\ load.file = f
    /\ Loaded(CASE store[f] = NoneYet -> "throws"
                [] store[f] = Torn -> "partial"
                [] store[f] = load.key -> "full"
                [] store[f] \in Key \ {load.key} -> "empty")
    /\ UNCHANGED <<files, command, histories>>

LoadOver ==
    /\ load.step = "over"
    /\ load' = NotLoading
    /\ UNCHANGED <<files, command, histories>>

VaultNext ==
    \/ \E force \in BOOLEAN : StartMigration(force)
    \/ \E f \in File : Migrate(f)
    \/ \E f \in File : SetKeyFails(f)
    \/ EndMigration
    \/ Crash
    \/ \E f \in File : DeleteMasterKey(f)
    \/ \E f \in File, answers \in BOOLEAN : InitMasterKey(f, answers) \/ LoadKey(f, answers)
    \/ \E f \in File : LoadPublic(f) \/ LoadPrivate(f) \/ LoadStore(f)
    \/ LoadOver

VaultSpec == VaultInit /\ [][VaultNext]_vaultVars

\* A command runs to its end, unless it dies, and the keychain does not refuse
\* for ever.
VaultFairness ==
    /\ WF_vaultVars(EndMigration \/ \E f \in File : Migrate(f))
    /\ SF_vaultVars(\E f \in File : SetKey(f))

-----------------------------------------------------------------------------
(* At no step, and after a crash at any step, is an inventory lost: it is  *)
(* in the public file, or in a whole store whose key is in the keychain    *)
(* (migrate-vault.ts:102-140).  Only master-key can take that key away     *)
(* from a whole vault: by delete, or by an init in which the keychain does *)
(* not answer (master-key.ts:63-88).                                       *)
InventoryNeverLost == \A f \in File : public[f] = "inline" \/ Stored(f) \/ unkeyed[f]

(* A load never takes part of an inventory, or none, for all of it: it     *)
(* gives the whole inventory or throws, also while the migration runs or   *)
(* after it died.  It may give part of it once a forced migration replaced *)
(* the key of a vault that was there, and nothing then or once a vault     *)
(* lost its key to master-key (loader.ts:61-91).                           *)
LoadNeverWrong ==
    /\ load.result = "partial" => replaced[load.file]
    /\ load.result = "empty" => replaced[load.file] \/ unkeyed[load.file]

(* If the operator runs the migration by force again and again, no         *)
(* inventory stays in the open, unless a crash tore a public file: the     *)
(* migration cannot read that one and never gets past it                   *)
(* (migrate-vault.ts:77-95).                                               *)
MigrationConverges ==
    []<><<StartMigration(TRUE)>>_vaultVars =>
        \/ <>[](\A f \in File : public[f] # "inline")
        \/ <>[](\E f \in File : public[f] = Torn)
=============================================================================
