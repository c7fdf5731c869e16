---------------------------- MODULE ScanCommands -----------------------------
(***************************************************************************)
(* `bun run scan` (src/src/cli/scan.ts), one run after another:            *)
(*  - `domains` loads every domain and has each checked by a worker of its *)
(*    own, chunk by chunk (src/src/scan/domain-parallel.ts), with the      *)
(*    doctor's check of one domain, while the files of Doctor.tla are      *)
(*    edited;                                                              *)
(*  - `source` and `bundle` search one text for patterns                   *)
(*    (src/src/scan/transpiler.ts), which a build may be writing.          *)
(*                                                                         *)
(* A text is what the patterns find in it as it is written (raw) and in    *)
(* what it transpiles to (built), the loaders that parse it, and the one   *)
(* it looks like.                                                          *)
(***************************************************************************)
EXTENDS Doctor, FiniteSetsExt, SequencesExt

CONSTANTS
    WorkerCount,    \* what --workers may be; 0 stands for a text that is not a
                    \* number
    Text            \* the texts of the scanned source

Loader == {"js", "ts", "tsx"}

ASSUME ScanAssumption ==
    /\ WorkerCount \subseteq Nat
    /\ Text \subseteq [raw : SUBSET {"fatal", "warn"}, built : SUBSET {"fatal", "warn"},
                       parses : SUBSET Loader, looks : Loader]

VARIABLES
    scan,       \* the run
    scanSeen,   \* history: the files there were since it began
    source      \* the scanned source

scanOwnVars == <<scan, scanSeen, source>>

NotANumber == 0
Threshold == 2

NoScan == [at |-> "off", workers |-> NotANumber, found |-> {}, loading |-> {},
           loaded |-> <<>>, chunks |-> <<>>, reading |-> {}, errors |-> {}, checked |-> {},
           text |-> Gone, loader |-> "js"]

ScanTypeOK ==
    /\ scan.at \in {"off", "load", "check", "bundle", "exit 0", "exit 1"}
    /\ {source, scan.text} \subseteq Text \union {Gone} /\ scan.loader \in Loader
    /\ scan.found \subseteq Path /\ scan.errors \subseteq scan.checked
    /\ DOMAIN scan.loaded \subseteq scan.found /\ scan.checked \subseteq scan.found
    /\ \A n \in DOMAIN scan.chunks : scan.chunks[n] \in Seq(scan.found)
    /\ \A r \in scan.loading : r.of \in scan.found /\ Inventoried(r.config) /\ r.at \in LoadStep
    /\ \A r \in scan.reading :
          /\ r.of \in scan.found /\ r.failed \in BOOLEAN
          /\ r.raw \in Content \union {Gone} /\ (r.at = "file" <=> r.raw = Gone)
          /\ r.at \in {"file", "private", "metadata", "store"}

ScanInit == scan = NoScan /\ scanSeen = {} /\ source = Gone

-----------------------------------------------------------------------------
(* checkDomainsParallel                                                    *)

\* Faulty variant: the last file is in no chunk.
ChunksOfShort(files, workers) ==
    LET size == ((Len(files) - 1) \div workers) + 1
    IN IF workers = NotANumber THEN <<<<>>>>
       ELSE [n \in 1 .. ((Len(files) - 1) \div size) + 1 |->
                SubSeq(files, (n - 1) * size + 1, Min({n * size, Len(files) - 1}))]

\* chunkDomains.  A size that is not a number makes one chunk, of nothing.
ChunksOf(files, workers) ==
    LET size == ((Len(files) - 1) \div workers) + 1
    IN IF workers = NotANumber THEN <<<<>>>>
       ELSE [n \in 1 .. ((Len(files) - 1) \div size) + 1 |->
                SubSeq(files, (n - 1) * size + 1, Min({n * size, Len(files)}))]

BeginDomainScan(workers) ==
    /\ scan.at = "off"
    /\ scan' = [NoScan EXCEPT !.at = "load", !.workers = workers,
                              !.found = {f \in Path : file[f] # Gone}]
    /\ scanSeen' = {OnDisk}
    /\ UNCHANGED <<source, doctorVars>>

FailLoad == scan' = [NoScan EXCEPT !.at = "exit 1"]

\* All are loaded at once.  Unlike the doctor's, this load takes a key that is
\* not set for a failure.
LoadDomain(f) ==
    /\ scan.at = "load" /\ f \in scan.found \ DOMAIN scan.loaded
    /\ \A r \in scan.loading : r.of # f
    /\ IF Inventoried(file[f])
         THEN scan' = [scan EXCEPT !.loading =
                  @ \union {[of |-> f, config |-> file[f], at |-> "exists"]}]
         ELSE FailLoad
    /\ UNCHANGED <<scanSeen, source, doctorVars>>

DomainLoaded(r) ==
    scan' = [scan EXCEPT
        !.loading = @ \ {r},
        !.loaded = [g \in DOMAIN @ \union {r.of} |-> IF g = r.of THEN r.config ELSE @[g]]]

LoadDomainInventory(f) ==
    /\ scan.at = "load"
    /\ \E r \in scan.loading :
          LET next == ReadVault(r.at, vault[r.config.id])
          IN /\ r.of = f
             /\ CASE next = "throws" -> FailLoad
                  [] next = "loaded" -> DomainLoaded(r)
                  [] OTHER -> scan' = [scan EXCEPT
                         !.loading = (@ \ {r}) \union {[r EXCEPT !.at = next]}]
    /\ UNCHANGED <<scanSeen, source, doctorVars>>

\* Below the threshold the domains are checked at once and by no worker.
\* The domains come in whatever order the files were found.
FanOut ==
    /\ scan.at = "load" /\ DOMAIN scan.loaded = scan.found
    /\ \E files \in SetToSeqs(scan.found) :
           scan' = [scan EXCEPT !.at = "check",
               !.chunks = IF Len(files) < Threshold THEN <<files>>
                          ELSE ChunksOf(files, scan.workers)]
    /\ UNCHANGED <<scanSeen, source, doctorVars>>

Checking(f) ==
    /\ scan.at = "check" /\ scan.chunks # <<>>
    /\ f \in ToSet(Head(scan.chunks)) \ scan.checked

Checked(f, failed) ==
    scan' = [scan EXCEPT !.checked = @ \union {f},
                         !.errors = IF failed THEN @ \union {f} ELSE @,
                         !.reading = {r \in @ : r.of # f}]

\* What was loaded is checked last, without another read.
CheckMerged(f, failed) == Checked(f, failed \/ MergedErrors(scan.loaded[f]) # {})

\* checkLoadedDomain.  The file is read anew; what was loaded is what a file
\* that is gone is judged by.
CheckLoaded(f) ==
    /\ Checking(f) /\ \A r \in scan.reading : r.of # f
    /\ IF file[f] = Gone THEN CheckMerged(f, FALSE)
       ELSE scan' = [scan EXCEPT !.reading =
                @ \union {[of |-> f, at |-> "file", raw |-> Gone, failed |-> FALSE]}]
    /\ UNCHANGED <<scanSeen, source, doctorVars>>

ReadingAt(f, step, r) == Checking(f) /\ r.of = f /\ r.at = step

Onward(r, step, raw, failed) == scan' = [scan EXCEPT !.reading =
    (@ \ {r}) \union {[of |-> r.of, at |-> step, raw |-> raw, failed |-> failed]}]

CheckFile(f) ==
    /\ \E r \in scan.reading :
          /\ ReadingAt(f, "file", r)
          /\ IF Readable(file[f]) THEN Onward(r, "private", file[f], FALSE) ELSE Checked(f, TRUE)
    /\ UNCHANGED <<scanSeen, source, doctorVars>>

\* The private file is the one of the domain that was loaded.
CheckExists(f) ==
    /\ \E r \in scan.reading :
          LET there == vault[scan.loaded[f].id].meta # "none"
              failed == PublicErrors(r.raw, there) # {}
          IN /\ ReadingAt(f, "private", r)
             /\ IF there THEN Onward(r, "metadata", r.raw, failed) ELSE CheckMerged(f, failed)
    /\ UNCHANGED <<scanSeen, source, doctorVars>>

CheckMetadata(f) ==
    /\ \E r \in scan.reading :
          LET meta == vault[scan.loaded[f].id].meta
          IN /\ ReadingAt(f, "metadata", r)
             /\ IF meta \in {"none", "broken"} THEN CheckMerged(f, TRUE)
                ELSE Onward(r, "store", r.raw, r.failed \/ meta = "wrong")
    /\ UNCHANGED <<scanSeen, source, doctorVars>>

CheckStore(f) ==
    /\ \E r \in scan.reading :
          /\ ReadingAt(f, "store", r)
          /\ CheckMerged(f, r.failed \/ ~vault[scan.loaded[f].id].store)
    /\ UNCHANGED <<scanSeen, source, doctorVars>>

CheckDomain(f) == CheckLoaded(f) \/ CheckFile(f) \/ CheckExists(f) \/ CheckMetadata(f) \/ CheckStore(f)

\* A worker's error or its timeout rejects the whole.
WorkerFails(f) ==
    /\ Checking(f) /\ Cardinality(scan.found) >= Threshold
    /\ scan' = [NoScan EXCEPT !.at = "exit 1"]
    /\ UNCHANGED <<scanSeen, source, doctorVars>>

NextChunk ==
    /\ scan.at = "check" /\ scan.chunks # <<>>
    /\ ToSet(Head(scan.chunks)) \subseteq scan.checked
    /\ scan' = [scan EXCEPT !.chunks = Tail(@)]
    /\ UNCHANGED <<scanSeen, source, doctorVars>>

RunDomainsScan ==
    /\ scan.at = "check" /\ scan.chunks = <<>>
    /\ scan' = [scan EXCEPT !.at = IF scan.errors = {} THEN "exit 0" ELSE "exit 1",
                            !.checked = {}, !.errors = {}]
    /\ UNCHANGED <<scanSeen, source, doctorVars>>

\* Before a scan, too.
EditDomains ==
    /\ scan.at \in {"off", "load", "check"}
    /\ \/ \E f \in Path, content \in FileChange : ChangeFile(f, content)
       \/ \E i \in Id, private \in VaultChange : ChangeVault(i, private)
    /\ scanSeen' = IF scan.at = "off" THEN scanSeen ELSE scanSeen \union {OnDisk'}
    /\ UNCHANGED <<scan, source>>

-----------------------------------------------------------------------------
(* Sources and bundles                                                     *)

\* scanSource: what does not parse is searched as it is written.
Findings(text, loader) ==
    text.raw \union IF loader \in text.parses THEN text.built ELSE text.raw

EndScan(text, loader, findings, strict) ==
    scan' = [NoScan EXCEPT
        !.at = IF "fatal" \in findings \/ (strict /\ findings # {}) THEN "exit 1" ELSE "exit 0",
        !.text = text, !.loader = loader]

NoText == scan' = [NoScan EXCEPT !.at = "exit 1"]

\* The source may be any text, or not there.
RunSourceScan(text) ==
    /\ scan.at = "off"
    /\ IF text = Gone THEN NoText
       ELSE EndScan(text, text.looks, Findings(text, text.looks), FALSE)
    /\ source' = text
    /\ UNCHANGED <<scanSeen, doctorVars>>

FindBundle(text) ==
    /\ scan.at = "off"
    /\ IF text = Gone THEN NoText ELSE scan' = [NoScan EXCEPT !.at = "bundle"]
    /\ source' = text
    /\ UNCHANGED <<scanSeen, doctorVars>>

\* A bundle is JavaScript whatever it looks like.  With --json any finding
\* fails the run, without it only a fatal one.
RunBundleScan(json) ==
    /\ scan.at = "bundle"
    /\ IF source = Gone THEN NoText
       ELSE EndScan(source, "js", Findings(source, "js"), json)
    /\ UNCHANGED <<scanSeen, source, doctorVars>>

Build(text) ==
    /\ scan.at = "bundle" /\ source' = text /\ source' # source
    /\ UNCHANGED <<scan, scanSeen, doctorVars>>

\* A session on a terminal, of a domain that allows it, ends as its tool does.
RunInteractiveScan(terminal, allowed, failed) ==
    /\ scan.at = "off"
    /\ scan' = [NoScan EXCEPT
           !.at = IF terminal /\ allowed /\ ~failed THEN "exit 0" ELSE "exit 1"]
    /\ UNCHANGED <<scanSeen, source, doctorVars>>

\* `tls` ends as TlsScan's command does, an unknown subcommand and one without
\* its argument with 1.
RunOtherScan(ok) ==
    /\ scan.at = "off"
    /\ scan' = [NoScan EXCEPT !.at = IF ok THEN "exit 0" ELSE "exit 1"]
    /\ UNCHANGED <<scanSeen, source, doctorVars>>

ScanNext ==
    \/ EditDomains \/ FanOut \/ NextChunk \/ RunDomainsScan
    \/ \E json \in BOOLEAN : RunBundleScan(json)
    \/ \E text \in Text \union {Gone} : RunSourceScan(text) \/ FindBundle(text) \/ Build(text)
    \/ \E terminal, allowed, failed \in BOOLEAN :
          RunInteractiveScan(terminal, allowed, failed)
    \/ \E ok \in BOOLEAN : RunOtherScan(ok)
    \/ \E workers \in WorkerCount : BeginDomainScan(workers)
    \/ \E f \in Path : LoadDomain(f) \/ LoadDomainInventory(f) \/ CheckDomain(f) \/ WorkerFails(f)

ScanSpec == DoctorInit /\ ScanInit /\ [][ScanNext]_<<scanOwnVars, doctorVars>>

-----------------------------------------------------------------------------
(* What a scan that exits with 0 vouches for.  Of every domain file that   *)
(* it found, if its number of workers is a number: since it began a        *)
(* version of the file made a config without an error, whose vault could   *)
(* be loaded; and it was then gone or without an error as it is written,   *)
(* with a vault without one or none of the domain it had been loaded as.   *)
(* Each is read at a time of its own (domain-parallel.ts:68-90,            *)
(* doctor.ts:552-626, loader.ts:60-191).  Of the text that it read:        *)
(* nothing fatal is in it as it is written, or in what it transpiles to    *)
(* (transpiler.ts:100-156).                                                *)
CleanScanMeansClean ==
    scan.at = "exit 0" =>
        /\ scan.workers # NotANumber =>
              \A f \in scan.found : \E s, t \in scanSeen :
                  LET config == s.file[f]
                      raw == t.file[f]
                  IN /\ Inventoried(config) /\ MergedErrors(config) = {}
                     /\ Loadable(scanSeen, config.id)
                     /\ \/ raw = Gone
                        \/ Readable(raw) /\ Faultless(scanSeen, raw, config.id)
        /\ scan.text # Gone =>
              /\ "fatal" \notin scan.text.raw
              /\ scan.loader \in scan.text.parses => "fatal" \notin scan.text.built
=============================================================================
