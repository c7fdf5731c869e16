----------------------------- MODULE ScanProofs ------------------------------
(***************************************************************************)
(* Proofs about the commands that look at something and say whether it is  *)
(* fit: the scans of domains and of sources (ScanCommands), the            *)
(* inspections of TLS endpoints (TlsScan), the reports of pages            *)
(* (WebReport), and the load of a feed (FeedSource), which says by         *)
(* returning that the feed is whole.  Each looks at things that change     *)
(* meanwhile, or in pieces, so each invariant says what was seen so far.   *)
(* At the end: the types of all the commands, and what they promise when   *)
(* they are put together (MCCommands).                                     *)
(***************************************************************************)
EXTENDS CommandProofs, MCCommands, SequenceTheorems

-----------------------------------------------------------------------------
(* `scan domains`: the chunks that the files are divided into.             *)

\* Some chunk that is left has the file.
Left(parts, f) == \E n \in 1 .. Len(parts) : f \in ToSet(parts[n])

LEMMA Quotients ==
  ASSUME NEW a \in Int, NEW b \in Nat, b > 0
  PROVE  a \div b \in Int /\ b * (a \div b) <= a /\ a < b * (a \div b) + b
  OBVIOUS

LEMMA QuotientsGrow ==
  ASSUME NEW a \in Nat, NEW b \in Nat, NEW c \in Nat, b > 0, a <= c
  PROVE  a \div b \in Nat /\ c \div b \in Nat /\ a \div b <= c \div b
  OBVIOUS

\* No order of the files leaves one out.
LEMMA OrderHasAll ==
  ASSUME NEW F \in SUBSET Path, NEW listed \in SetToSeqs(F)
  PROVE  /\ listed \in Seq(F) /\ Len(listed) = Cardinality(F) /\ Len(listed) \in Nat
         /\ \A f \in F : \E k \in 1 .. Len(listed) : listed[k] = f
  <1>1. IsFiniteSet(F)
    <2>1. Path = 1 .. Len(FirstFiles) /\ Len(FirstFiles) \in Nat
      BY DoctorAssumption DEF Path
    <2>2. IsFiniteSet(Path)
      BY <2>1, FS_Interval
    <2> QED
      BY <2>2, FS_Subset
  <1>2. PICK size \in Nat : size = Cardinality(F)
    BY <1>1, FS_CardinalityType
  <1>3. /\ listed \in [1 .. size -> F]
        /\ \A m, n \in 1 .. size : m # n => listed[m] # listed[n]
    BY <1>2 DEF SetToSeqs
  <1>4. listed \in Injection(1 .. size, F)
    BY <1>3 DEF Injection, IsInjective
  <1>5. Cardinality(1 .. size) = size
    <2>1. 1 \in Int /\ size \in Int
      OBVIOUS
    <2>2. Cardinality(1 .. size) = IF 1 > size THEN 0 ELSE size - 1 + 1
      BY <2>1, FS_Interval
    <2> QED
      BY <2>2
  <1>6. listed \in Surjection(1 .. size, F)
    BY <1>1, <1>2, <1>4, <1>5, FS_Injection
  <1>7. \A f \in F : \E k \in 1 .. size : listed[k] = f
    BY <1>6 DEF Surjection
  <1>8. listed \in Seq(F) /\ Len(listed) = size
    BY <1>3
  <1> QED
    BY <1>2, <1>7, <1>8

\* Whatever number of workers there is, each file is in a chunk.
LEMMA ChunksHaveAll ==
  ASSUME NEW F, NEW listed \in Seq(F), Len(listed) > 0, NEW workers \in Nat, workers # NotANumber
  PROVE  /\ ChunksOf(listed, workers) \in Seq(Seq(F))
         /\ \A k \in 1 .. Len(listed) : Left(ChunksOf(listed, workers), listed[k])
  <1> DEFINE size == ((Len(listed) - 1) \div workers) + 1
             count == ((Len(listed) - 1) \div size) + 1
             low(n) == (n - 1) * size + 1
             high(n) == Min({n * size, Len(listed)})
             parts == [n \in 1 .. count |-> SubSeq(listed, low(n), high(n))]
  <1>1. PICK last \in Nat : last = Len(listed) - 1 /\ Len(listed) \in Nat
    OBVIOUS
  <1>2. workers > 0
    BY DEF NotANumber
  <1>3. size \in Nat /\ size > 0
    BY <1>1, <1>2, QuotientsGrow
  <1> HIDE DEF size
  <1>4. count \in Nat /\ count > 0 /\ last \div size \in Nat /\ count = last \div size + 1
    BY <1>1, <1>3, QuotientsGrow
  <1> HIDE DEF count
  <1>5. \A n \in 1 .. count :
           /\ low(n) \in Nat /\ low(n) >= 1 /\ low(n) = (n - 1) * size + 1
           /\ high(n) \in Nat /\ high(n) <= Len(listed)
           /\ high(n) = n * size \/ high(n) = Len(listed)
    <2> SUFFICES ASSUME NEW n \in 1 .. count
                 PROVE  /\ low(n) \in Nat /\ low(n) >= 1 /\ low(n) = (n - 1) * size + 1
                        /\ high(n) \in Nat /\ high(n) <= Len(listed)
                        /\ high(n) = n * size \/ high(n) = Len(listed)
      OBVIOUS
    <2>1. PICK before \in Nat : before = n - 1
      BY <1>4
    <2>2. before * size \in Nat /\ n * size \in Nat
      BY <1>3, <1>4, <2>1
    <2>3. high(n) = n * size \/ high(n) = Len(listed)
      BY <1>1, <2>2 DEF Min
    <2>4. high(n) <= Len(listed)
      BY <1>1, <2>2 DEF Min
    <2> QED
      BY <1>1, <2>1, <2>2, <2>3, <2>4
  <1>6. \A n \in 1 .. count :
           /\ SubSeq(listed, low(n), high(n)) \in Seq(F)
           /\ Len(SubSeq(listed, low(n), high(n))) =
                 IF low(n) <= high(n) THEN high(n) - low(n) + 1 ELSE 0
           /\ \A i \in 1 .. high(n) - low(n) + 1 :
                 SubSeq(listed, low(n), high(n))[i] = listed[low(n) + i - 1]
    <2> SUFFICES ASSUME NEW n \in 1 .. count
                 PROVE  /\ SubSeq(listed, low(n), high(n)) \in Seq(F)
                        /\ Len(SubSeq(listed, low(n), high(n))) =
                              IF low(n) <= high(n) THEN high(n) - low(n) + 1 ELSE 0
                        /\ \A i \in 1 .. high(n) - low(n) + 1 :
                              SubSeq(listed, low(n), high(n))[i] = listed[low(n) + i - 1]
      OBVIOUS
    <2>1. PICK l \in Int, h \in Int : l = low(n) /\ h = high(n) /\ l >= 1 /\ h <= Len(listed)
      BY <1>5
    <2>2. \A i \in l .. h : listed[i] \in F
      BY <1>1, <2>1
    <2>3. /\ SubSeq(listed, l, h) \in Seq(F)
          /\ Len(SubSeq(listed, l, h)) = IF l <= h THEN h - l + 1 ELSE 0
          /\ \A i \in 1 .. h - l + 1 : SubSeq(listed, l, h)[i] = listed[l + i - 1]
      BY <2>2, SubSeqProperties
    <2> QED
      BY <2>1, <2>3
  <1>7. ChunksOf(listed, workers) = parts
    BY DEF ChunksOf, size, count
  <1> HIDE DEF low, high
  <1>8. parts \in Seq(Seq(F)) /\ Len(parts) = count
    <2> DEFINE chunk(n) == SubSeq(listed, low(n), high(n))
    <2>1. \A n \in 1 .. count : chunk(n) \in Seq(F)
      BY <1>6
    <2> HIDE DEF chunk
    <2>2. [n \in 1 .. count |-> chunk(n)] \in Seq(Seq(F))
      BY <1>4, <2>1
    <2>3. Len([n \in 1 .. count |-> chunk(n)]) = count
      BY <1>4
    <2> QED
      BY <2>2, <2>3 DEF chunk
  <1>9. ASSUME NEW k \in 1 .. Len(listed) PROVE Left(parts, listed[k])
    <2>1. PICK j \in Nat : j = k - 1 /\ j <= last
      BY <1>1
    <2>2. PICK q \in Nat : q = j \div size
      BY <1>1, <1>3, <2>1, QuotientsGrow
    <2>3. size * q <= j /\ j < size * q + size
      BY <1>3, <2>1, <2>2, Quotients
    <2>4. q <= last \div size
      BY <1>1, <1>3, <2>1, <2>2, QuotientsGrow
    <2>5. PICK n \in 1 .. count : n = q + 1
      BY <1>4, <2>4
    <2>6. low(n) = size * q + 1 /\ n * size = size * q + size
      <3>1. low(n) = (n - 1) * size + 1 /\ n - 1 = q
        BY <1>5, <2>5
      <3> QED
        BY <1>3, <2>2, <2>5, <3>1
    <2>7. low(n) <= k /\ k <= n * size
      <3>1. PICK p \in Nat : p = size * q
        BY <1>3, <2>2
      <3>2. PICK top \in Nat : top = n * size /\ top = p + size
        BY <1>3, <2>6, <3>1
      <3>3. low(n) = p + 1 /\ p <= j /\ j < p + size
        BY <2>3, <2>6, <3>1
      <3>4. k = j + 1
        BY <2>1
      <3> QED
        BY <1>3, <3>2, <3>3, <3>4
    <2>8. k <= high(n)
      BY <1>5, <2>7
    <2>9. PICK l \in Nat, h \in Nat :
                l = low(n) /\ h = high(n) /\ l <= k /\ k <= h /\ k \in Nat
      BY <1>1, <1>5, <2>7, <2>8
    <2>10. PICK i \in 1 .. h - l + 1 : i = k - l + 1 /\ i \in Nat
      BY <2>9
    <2>11. /\ Len(SubSeq(listed, l, h)) = IF l <= h THEN h - l + 1 ELSE 0
           /\ \A m \in 1 .. h - l + 1 : SubSeq(listed, l, h)[m] = listed[l + m - 1]
      BY <1>6, <2>9
    <2>12. Len(SubSeq(listed, l, h)) = h - l + 1
      BY <2>9, <2>11
    <2>13. SubSeq(listed, l, h)[i] = listed[k]
      <3>1. k \in Nat
        BY <2>9
      <3>2. i \in Nat /\ i = k - l + 1
        BY <2>10
      <3>3. l + i - 1 = k
        BY ONLY <3>1, <3>2
      <3> QED
        BY <2>10, <2>11, <3>3
    <2>14. listed[k] \in ToSet(parts[n])
      <3> DEFINE chunk == SubSeq(listed, low(n), high(n))
      <3>1. chunk \in Seq(F) /\ i \in 1 .. Len(chunk) /\ chunk[i] = listed[k]
        BY <1>6, <2>9, <2>10, <2>12, <2>13
      <3>2. parts[n] = chunk
        OBVIOUS
      <3> HIDE DEF chunk, parts
      <3>3. DOMAIN chunk = 1 .. Len(chunk)
        BY <3>1
      <3> QED
        BY <3>1, <3>2, <3>3 DEF ToSet
    <2> QED
      BY <1>8, <2>14 DEF Left
  <1> QED
    BY <1>7, <1>8, <1>9

-----------------------------------------------------------------------------
(* `bun run scan`: what a run has seen, and what it vouches for.           *)

ScanAt == {"off", "load", "check", "bundle", "exit 0", "exit 1"}
Loads == UNION {[D -> Content] : D \in SUBSET Path}
Loadings == [of : Path, config : Content, at : LoadStep]
Readings == [of : Path, at : {"file", "private", "metadata", "store"},
             raw : Content \union {Gone}, failed : BOOLEAN]
Scans == [at : ScanAt, workers : Nat, found : SUBSET Path, loading : SUBSET Loadings,
          loaded : Loads, chunks : Seq(Seq(Path)), reading : SUBSET Readings,
          errors : SUBSET Path, checked : SUBSET Path, text : Text \union {Gone},
          loader : Loader]

\* Among the versions S there is one that the config c of a file was made from,
\* and what was read of its vault there was in one or another.
ConfigSeen(c, f, S) == Inventoried(c) /\ \E s \in S : s.file[f] = c
LoadSeen(c, f, S) == ConfigSeen(c, f, S) /\ Loadable(S, c.id)
HalfLoaded(d, S) ==
    /\ ConfigSeen(d.config, d.of, S)
    /\ d.at \in {"key", "store"} => Parses(S, d.config.id)
    /\ d.at = "store" => Keyed(S, d.config.id)

\* Of the file as it is written: it was gone, or had no error.
RawVouched(f, i, S) ==
    \E t \in S : \/ t.file[f] = Gone
                 \/ Readable(t.file[f]) /\ Faultless(S, t.file[f], i)

\* Among the versions S there are those that a domain without an error needs.
DomainVouched(f, S) ==
    \E s \in S : LET config == s.file[f]
                 IN /\ Inventoried(config) /\ MergedErrors(config) = {}
                    /\ Loadable(S, config.id) /\ RawVouched(f, config.id, S)

\* A file of the domain i that is being checked, which has no error so far.
HalfChecked(d, i, S) ==
    /\ IF d.at = "file" THEN d.raw = Gone
       ELSE Readable(d.raw) /\ \E t \in S : t.file[d.of] = d.raw
    /\ d.at \in {"metadata", "store"} /\ ~d.failed => PublicErrors(d.raw, TRUE) = {}
    /\ d.at = "store" /\ ~d.failed => Fits(S, i)

TextClean(r) ==
    /\ "fatal" \notin r.text.raw
    /\ r.loader \in r.text.parses => "fatal" \notin r.text.built

\* Where the files are loaded, and where they are checked: each that is found
\* is checked, or in a chunk that is left.
Loading(r, S) ==
    /\ DOMAIN r.loaded \subseteq r.found
    /\ \A f \in DOMAIN r.loaded : LoadSeen(r.loaded[f], f, S)
    /\ \A d \in r.loading : d.of \in r.found /\ HalfLoaded(d, S)

Halfway(r, S) ==
    /\ DOMAIN r.loaded = r.found /\ r.chunks \in Seq(Seq(r.found))
    /\ \A d \in r.reading : d.of \in r.found /\ HalfChecked(d, r.loaded[d.of].id, S)
    /\ r.checked \subseteq r.found
    /\ \A f \in r.checked : f \in r.errors \/ DomainVouched(f, S)
    /\ r.workers # NotANumber => \A f \in r.found : f \in r.checked \/ Left(r.chunks, f)

CleanEnd(r, S) ==
    r.at = "exit 0" => /\ r.workers # NotANumber => \A f \in r.found : DomainVouched(f, S)
                       /\ r.text # Gone => TextClean(r)

Knowing(r, S, version) ==
    /\ r.at \in {"load", "check"} => version \in S /\ Loading(r, S) /\ r.text = Gone
    /\ r.at = "load" => r.reading = {} /\ r.checked = {} /\ r.errors = {}
    /\ r.at = "check" => Halfway(r, S)
    /\ CleanEnd(r, S)

ScanInv ==
    /\ file \in [Path -> MaybeContent] /\ vault \in [Id -> Vault]
    /\ source \in Text \union {Gone}
    /\ scan \in Scans /\ Knowing(scan, scanSeen, OnDisk)

LEMMA ScanNew ==
  ASSUME NEW at \in ScanAt, NEW workers \in Nat, NEW found \in SUBSET Path,
         NEW underway \in SUBSET Loadings, NEW loaded \in Loads,
         NEW parts \in Seq(Seq(Path)), NEW reading \in SUBSET Readings,
         NEW errors \in SUBSET Path, NEW checked \in SUBSET Path,
         NEW text \in Text \union {Gone}, NEW loader \in Loader
  PROVE  [at |-> at, workers |-> workers, found |-> found, loading |-> underway,
          loaded |-> loaded, chunks |-> parts, reading |-> reading, errors |-> errors,
          checked |-> checked, text |-> text, loader |-> loader] \in Scans
  BY DEF Scans

LEMMA NoScanType == NoScan \in Scans /\ NoScan.at = "off" /\ NoScan.workers = NotANumber
                      /\ NoScan.text = Gone
  <1>1. <<>> \in Loads
    <2>1. <<>> \in [{} -> Content] /\ {} \in SUBSET Path
      OBVIOUS
    <2> QED
      BY <2>1 DEF Loads
  <1>2. <<>> \in Seq(Seq(Path))
    OBVIOUS
  <1>3. PICK loaded \in Loads, parts \in Seq(Seq(Path)) : loaded = <<>> /\ parts = <<>>
    BY <1>1, <1>2
  <1>4. NoScan = [at |-> "off", workers |-> 0, found |-> {}, loading |-> {}, loaded |-> loaded,
                  chunks |-> parts, reading |-> {}, errors |-> {}, checked |-> {},
                  text |-> Gone, loader |-> "js"]
    BY <1>3 DEF NoScan, NotANumber
  <1>5. "off" \in ScanAt /\ "js" \in Loader
    BY DEF ScanAt, Loader
  <1>6. [at |-> "off", workers |-> 0, found |-> {}, loading |-> {}, loaded |-> loaded,
         chunks |-> parts, reading |-> {}, errors |-> {}, checked |-> {},
         text |-> Gone, loader |-> "js"] \in Scans
    <2>1. /\ 0 \in Nat /\ {} \in SUBSET Path /\ {} \in SUBSET Readings /\ {} \in SUBSET Loadings
          /\ Gone \in Text \union {Gone}
      OBVIOUS
    <2> QED
      BY <1>5, <2>1, ScanNew
  <1>7. NoScan \in Scans
    BY <1>4, <1>5, <1>6
  <1> QED
    BY <1>4, <1>7 DEF NotANumber

\* The steps of a domain scan write one or a few fields.
LEMMA ScanDivided ==
  ASSUME NEW r \in Scans, NEW parts \in Seq(Seq(Path))
  PROVE  LET s == [r EXCEPT !.at = "check", !.chunks = parts]
         IN  /\ s \in Scans /\ s.at = "check" /\ s.chunks = parts /\ s.found = r.found
             /\ s.text = r.text /\ s.loaded = r.loaded /\ s.workers = r.workers /\ s.loading = r.loading
             /\ s.reading = r.reading /\ s.checked = r.checked /\ s.errors = r.errors
  <1> DEFINE s == [r EXCEPT !.at = "check", !.chunks = parts]
  <1>1. "check" \in ScanAt
    BY DEF ScanAt
  <1>2. s \in Scans
    BY <1>1 DEF Scans
  <1>3. /\ s.at = "check" /\ s.chunks = parts /\ s.found = r.found
        /\ s.text = r.text /\ s.loaded = r.loaded /\ s.workers = r.workers /\ s.loading = r.loading
        /\ s.reading = r.reading /\ s.checked = r.checked /\ s.errors = r.errors
    BY DEF Scans
  <1> QED
    BY <1>2, <1>3

LEMMA ScanGoesOn ==
  ASSUME NEW r \in Scans, NEW parts \in Seq(Seq(Path))
  PROVE  LET s == [r EXCEPT !.chunks = parts]
         IN  /\ s \in Scans /\ s.at = r.at /\ s.chunks = parts /\ s.found = r.found
             /\ s.text = r.text /\ s.loaded = r.loaded /\ s.workers = r.workers /\ s.loading = r.loading
             /\ s.reading = r.reading /\ s.checked = r.checked /\ s.errors = r.errors
  <1> DEFINE s == [r EXCEPT !.chunks = parts]
  <1>1. s \in Scans
    BY DEF Scans
  <1>2. /\ s.at = r.at /\ s.chunks = parts /\ s.found = r.found
        /\ s.text = r.text /\ s.loaded = r.loaded /\ s.workers = r.workers /\ s.loading = r.loading
        /\ s.reading = r.reading /\ s.checked = r.checked /\ s.errors = r.errors
    BY DEF Scans
  <1> QED
    BY <1>1, <1>2

LEMMA ScanInitially == DoctorInit /\ ScanInit => ScanInv
  <1> SUFFICES ASSUME DoctorInit, ScanInit PROVE ScanInv
    OBVIOUS
  <1>1. FirstFiles \in [Path -> Content]
    BY DoctorAssumption DEF Path
  <1>2. file \in [Path -> MaybeContent] /\ vault \in [Id -> Vault]
    BY <1>1, DoctorAssumption DEF DoctorInit, MaybeContent
  <1> QED
    BY <1>2, NoScanType DEF ScanInit, ScanInv, Knowing, CleanEnd

\* What a run has seen it has seen whatever it sees then.
LEMMA SeenStays ==
  ASSUME NEW r, NEW S, NEW T, S \subseteq T
  PROVE  /\ Loading(r, S) => Loading(r, T)
         /\ Halfway(r, S) => Halfway(r, T)
  <1>1. \A i : /\ Parses(S, i) => Parses(T, i)
               /\ Keyed(S, i) => Keyed(T, i)
               /\ Fits(S, i) => Fits(T, i)
               /\ Loadable(S, i) => Loadable(T, i)
               /\ \A content : Faultless(S, content, i) => Faultless(T, content, i)
    BY MoreDisks
  <1>2. \A c, f : ConfigSeen(c, f, S) => ConfigSeen(c, f, T)
    BY DEF ConfigSeen
  <1>3. \A c, f : LoadSeen(c, f, S) => LoadSeen(c, f, T)
    BY <1>1, <1>2 DEF LoadSeen
  <1>4. \A d : HalfLoaded(d, S) => HalfLoaded(d, T)
    BY <1>1, <1>2 DEF HalfLoaded
  <1>5. \A d, i : HalfChecked(d, i, S) => HalfChecked(d, i, T)
    BY <1>1 DEF HalfChecked
  <1>6. \A f, i : RawVouched(f, i, S) => RawVouched(f, i, T)
    BY <1>1 DEF RawVouched
  <1>7. \A f : DomainVouched(f, S) => DomainVouched(f, T)
    BY <1>1, <1>6 DEF DomainVouched
  <1>8. Loading(r, S) => Loading(r, T)
    BY <1>3, <1>4 DEF Loading
  <1>9. Halfway(r, S) => Halfway(r, T)
    BY <1>5, <1>7 DEF Halfway
  <1> QED
    BY <1>8, <1>9

LEMMA EditsKeep ==
  ASSUME ScanInv, EditDomains
  PROVE  ScanInv'
  <1>1. scan.at \in {"off", "load", "check"} /\ UNCHANGED <<scan, source>>
    BY DEF EditDomains
  <1>2. file' \in [Path -> MaybeContent] /\ vault' \in [Id -> Vault]
    <2>1. CASE \E f \in Path, content \in FileChange : ChangeFile(f, content)
      BY <2>1, DoctorAssumption DEF ChangeFile, ScanInv, MaybeContent
    <2>2. CASE \E i \in Id, content \in VaultChange : ChangeVault(i, content)
      BY <2>2, DoctorAssumption DEF ChangeVault, ScanInv
    <2> QED
      BY <2>1, <2>2 DEF EditDomains
  <1>3. CASE scan.at = "off"
    BY <1>1, <1>2, <1>3 DEF ScanInv, Knowing, CleanEnd
  <1>4. CASE scan.at # "off"
    <2>1. scanSeen' = scanSeen \union {OnDisk'}
      BY <1>4 DEF EditDomains
    <2>2. PICK T : T = scanSeen' /\ scanSeen \subseteq T /\ OnDisk' \in T
      BY <2>1
    <2>3. Loading(scan, T) /\ (scan.at = "check" => Halfway(scan, T))
      BY <1>1, <1>4, <2>2, SeenStays DEF ScanInv, Knowing
    <2> QED
      BY <1>1, <1>2, <1>4, <2>2, <2>3 DEF ScanInv, Knowing, CleanEnd
  <1> QED
    BY <1>3, <1>4

\* One step of a run, beside which nothing happens.
LEMMA ScanGoes ==
  ASSUME ScanInv, NEW r \in Scans, scan' = r, UNCHANGED <<scanSeen, doctorVars>>,
         source' \in Text \union {Gone}, Knowing(r, scanSeen, OnDisk)
  PROVE  ScanInv'
  BY DEF ScanInv, doctorVars, OnDisk

\* A run that ends with no file that it found and no text.
LEMMA ScanEnds ==
  ASSUME NEW at \in {"exit 0", "exit 1", "bundle"}, NEW S, NEW version
  PROVE  /\ [NoScan EXCEPT !.at = at] \in Scans
         /\ Knowing([NoScan EXCEPT !.at = at], S, version)
  <1> DEFINE r == [NoScan EXCEPT !.at = at]
  <1>1. r \in Scans /\ r.at = at /\ r.workers = NotANumber /\ r.text = Gone
    BY NoScanType DEF Scans, ScanAt
  <1> HIDE DEF r
  <1>2. Knowing(r, S, version)
    BY <1>1 DEF Knowing, CleanEnd
  <1> QED
    BY <1>1, <1>2 DEF r

LEMMA Begins ==
  ASSUME ScanInv, NEW workers \in WorkerCount, BeginDomainScan(workers)
  PROVE  ScanInv'
  <1>1. PICK found \in SUBSET Path : found = {f \in Path : file[f] # Gone}
    OBVIOUS
  <1>2. scan' = [NoScan EXCEPT !.at = "load", !.workers = workers, !.found = found]
    BY <1>1 DEF BeginDomainScan
  <1>3. workers \in Nat /\ scanSeen' = {OnDisk} /\ UNCHANGED <<source, file, vault>>
    BY ScanAssumption DEF BeginDomainScan, doctorVars
  <1>4. /\ scan' \in Scans /\ scan'.at = "load" /\ scan'.loading = {}
        /\ scan'.text = Gone /\ scan'.loaded = <<>> /\ scan'.reading = {}
        /\ scan'.checked = {} /\ scan'.errors = {}
    BY <1>2, <1>3, NoScanType DEF Scans, ScanAt, NoScan
  <1>5. Loading(scan, scanSeen)'
    BY <1>4 DEF Loading
  <1> QED
    BY <1>3, <1>4, <1>5 DEF ScanInv, Knowing, CleanEnd, OnDisk

\* What a file that is read says.
LEMMA Read ==
  ASSUME ScanInv, NEW f \in Path, Readable(file[f])
  PROVE  file[f] \in Content /\ file[f].id \in Id
  <1>1. file[f] \in MaybeContent
    BY DEF ScanInv
  <1>2. file[f] \in Content
    BY <1>1 DEF MaybeContent, Readable
  <1> QED
    BY <1>2, DoctorAssumption

\* The loads go on: what is being loaded is what was seen.
LEMMA LoadsGoOn ==
  ASSUME ScanInv, scan.at = "load", NEW underway \in SUBSET Loadings,
         scan' = [scan EXCEPT !.loading = underway],
         \A d \in underway : d.of \in scan.found /\ HalfLoaded(d, scanSeen),
         UNCHANGED <<scanSeen, source, doctorVars>>
  PROVE  ScanInv'
  <1> DEFINE r == [scan EXCEPT !.loading = underway]
  <1>1. /\ r \in Scans /\ r.at = "load" /\ r.loading = underway /\ r.found = scan.found
        /\ r.text = scan.text /\ r.loaded = scan.loaded
        /\ r.reading = scan.reading /\ r.checked = scan.checked /\ r.errors = scan.errors
    BY DEF ScanInv, Scans
  <1>2. scan' = r
    OBVIOUS
  <1> HIDE DEF r
  <1>3. Loading(scan, scanSeen)
    BY DEF ScanInv, Knowing
  <1>4. Loading(r, scanSeen)
    BY <1>1, <1>3 DEF Loading
  <1>5. Knowing(r, scanSeen, OnDisk)
    BY <1>1, <1>4 DEF ScanInv, Knowing, CleanEnd
  <1>6. source' \in Text \union {Gone}
    BY DEF ScanInv
  <1> QED
    BY <1>1, <1>2, <1>5, <1>6, ScanGoes

LEMMA LoadsOne ==
  ASSUME ScanInv, NEW f \in Path, LoadDomain(f)
  PROVE  ScanInv'
  <1>1. /\ scan.at = "load" /\ f \in scan.found
        /\ UNCHANGED <<scanSeen, source, doctorVars>>
        /\ source' \in Text \union {Gone}
    BY DEF LoadDomain, ScanInv
  <1>2. CASE Inventoried(file[f])
    <2>1. PICK c \in Content : c = file[f]
      BY <1>2, Read DEF Inventoried
    <2>2. PICK new \in Loadings : new = [of |-> f, config |-> c, at |-> "exists"]
      BY DEF Loadings, LoadStep
    <2>3. HalfLoaded(new, scanSeen) /\ new.of = f
      <3>1. OnDisk \in scanSeen /\ OnDisk.file = file
        BY <1>1 DEF ScanInv, Knowing, OnDisk
      <3>2. ConfigSeen(c, f, scanSeen)
        BY <1>2, <2>1, <3>1 DEF ConfigSeen
      <3>3. new.of = f /\ new.config = c /\ new.at = "exists"
        BY <2>2
      <3> QED
        BY <3>2, <3>3 DEF HalfLoaded
    <2>4. PICK underway \in SUBSET Loadings : underway = scan.loading \union {new}
      BY DEF ScanInv, Scans
    <2>5. scan' = [scan EXCEPT !.loading = underway]
      BY <1>2, <2>1, <2>2, <2>4 DEF LoadDomain
    <2>6. \A d \in underway : d.of \in scan.found /\ HalfLoaded(d, scanSeen)
      BY <1>1, <2>3, <2>4 DEF ScanInv, Knowing, Loading
    <2> QED
      BY <1>1, <2>5, <2>6, LoadsGoOn
  <1>3. CASE ~Inventoried(file[f])
    <2>1. scan' = [NoScan EXCEPT !.at = "exit 1"]
      BY <1>3 DEF LoadDomain, FailLoad
    <2> QED
      BY <1>1, <2>1, ScanEnds, ScanGoes
  <1> QED
    BY <1>2, <1>3

\* A domain is loaded whose vault was seen to be loadable.
LEMMA LoadsIt ==
  ASSUME ScanInv, scan.at = "load", NEW d \in scan.loading, DomainLoaded(d),
         LoadSeen(d.config, d.of, scanSeen),
         UNCHANGED <<scanSeen, source, doctorVars>>
  PROVE  ScanInv'
  <1>1. PICK f \in Path, c \in Content : f = d.of /\ c = d.config /\ f \in scan.found
    BY DEF ScanInv, Scans, Loadings, Knowing, Loading
  <1>2. PICK D \in SUBSET Path : D = DOMAIN scan.loaded /\ scan.loaded \in [D -> Content]
    BY DEF ScanInv, Scans, Loads
  <1>3. PICK underway \in SUBSET Loadings : underway = scan.loading \ {d}
    BY DEF ScanInv, Scans
  <1> DEFINE loaded == [g \in D \union {f} |-> IF g = f THEN c ELSE scan.loaded[g]]
             r == [scan EXCEPT !.loading = underway, !.loaded = loaded]
  <1>4. scan' = r
    <2>1. scan' = [scan EXCEPT !.loading = scan.loading \ {d},
                       !.loaded = [g \in DOMAIN scan.loaded \union {d.of} |->
                                      IF g = d.of THEN d.config ELSE scan.loaded[g]]]
      BY DEF DomainLoaded, ScanInv, Scans
    <2> QED
      BY <1>1, <1>2, <1>3, <2>1
  <1>5. loaded \in Loads /\ DOMAIN loaded = D \union {f}
    <2>1. loaded \in [D \union {f} -> Content] /\ D \union {f} \in SUBSET Path
      BY <1>1, <1>2
    <2> QED
      BY <2>1 DEF Loads
  <1>6. loaded[f] = c /\ \A g \in D : g # f => loaded[g] = scan.loaded[g]
    OBVIOUS
  <1> HIDE DEF loaded
  <1>7. /\ r \in Scans /\ r.at = "load" /\ r.loaded = loaded /\ r.found = scan.found
        /\ r.loading = underway /\ r.text = scan.text
        /\ r.reading = scan.reading /\ r.checked = scan.checked /\ r.errors = scan.errors
    <2>1. scan \in Scans
      BY DEF ScanInv
    <2>2. r \in Scans
      BY <1>3, <1>5, <2>1 DEF Scans
    <2>3. r.loaded = loaded /\ r.loading = underway
      BY <2>1 DEF Scans
    <2>4. /\ r.at = scan.at /\ r.found = scan.found /\ r.text = scan.text
          /\ r.reading = scan.reading /\ r.checked = scan.checked /\ r.errors = scan.errors
      BY <2>1 DEF Scans
    <2> QED
      BY <2>2, <2>3, <2>4
  <1> HIDE DEF r
  <1>8. Loading(r, scanSeen)
    <2>1. Loading(scan, scanSeen)
      BY DEF ScanInv, Knowing
    <2>2. DOMAIN r.loaded \subseteq r.found
      BY <1>1, <1>2, <1>5, <1>7, <2>1 DEF Loading
    <2>3. \A g \in DOMAIN r.loaded : LoadSeen(r.loaded[g], g, scanSeen)
      BY <1>1, <1>2, <1>5, <1>6, <1>7, <2>1 DEF Loading
    <2>4. \A e \in r.loading : e.of \in r.found /\ HalfLoaded(e, scanSeen)
      BY <1>3, <1>7, <2>1 DEF Loading
    <2> QED
      BY <2>2, <2>3, <2>4 DEF Loading
  <1>9. Knowing(r, scanSeen, OnDisk)
    BY <1>7, <1>8 DEF ScanInv, Knowing, CleanEnd
  <1>10. source' \in Text \union {Gone}
    BY DEF ScanInv
  <1> QED
    BY <1>4, <1>7, <1>9, <1>10, ScanGoes

\* What the next step is says what is now in the vault.
LEMMA ReadsOn ==
  ASSUME NEW stage \in LoadStep, NEW content \in Vault
  PROVE  LET next == ReadVault(stage, content)
         IN  /\ next \in LoadStep \union {"loaded", "throws"}
             /\ next = "loaded" => \/ content.meta = "none"
                                   \/ stage = "store" /\ content.store
             /\ next = "text" => stage = "exists"
             /\ next = "key" => content.meta \in {"wrong", "good"}
             /\ next = "store" => stage = "key" /\ content.key
             /\ next # "exists"
  BY DEF LoadStep, ReadVault, Vault

LEMMA LoadsOn ==
  ASSUME ScanInv, NEW f \in Path, LoadDomainInventory(f)
  PROVE  ScanInv'
  <1>1. /\ scan.at = "load" /\ UNCHANGED <<scanSeen, source, doctorVars>>
        /\ source' \in Text \union {Gone}
        /\ OnDisk \in scanSeen /\ OnDisk.vault = vault
    BY DEF LoadDomainInventory, ScanInv, Knowing, OnDisk
  <1>2. PICK d \in scan.loading :
          LET next == ReadVault(d.at, vault[d.config.id])
          IN CASE next = "throws" -> FailLoad
               [] next = "loaded" -> DomainLoaded(d)
               [] OTHER -> scan' = [scan EXCEPT
                      !.loading = (scan.loading \ {d}) \union {[d EXCEPT !.at = next]}]
    BY DEF LoadDomainInventory, ScanInv, Scans
  <1>3. d.of \in scan.found /\ HalfLoaded(d, scanSeen)
    BY <1>1 DEF ScanInv, Knowing, Loading
  <1>4. d \in Loadings /\ d.at \in LoadStep /\ d.config \in Content /\ d.config.id \in Id
    BY DoctorAssumption DEF ScanInv, Scans, Loadings
  <1>5. PICK content \in Vault, i \in Id : i = d.config.id /\ content = vault[i]
    BY <1>4 DEF ScanInv
  <1>6. PICK next : next = ReadVault(d.at, content)
    OBVIOUS
  <1>7. /\ next \in LoadStep \union {"loaded", "throws"}
        /\ next = "loaded" => content.meta = "none" \/ (d.at = "store" /\ content.store)
        /\ next = "text" => d.at = "exists"
        /\ next = "key" => content.meta \in {"wrong", "good"}
        /\ next = "store" => d.at = "key" /\ content.key
        /\ next # "exists"
    BY <1>4, <1>6, ReadsOn
  <1>8. /\ content.meta = "none" => Away(scanSeen, i)
        /\ content.meta \in {"wrong", "good"} => Parses(scanSeen, i)
        /\ content.key => Keyed(scanSeen, i)
        /\ content.store => Kept(scanSeen, i)
    BY <1>1, <1>5 DEF Away, Parses, Keyed, Kept
  <1>9. CASE next = "throws"
    <2>1. scan' = [NoScan EXCEPT !.at = "exit 1"]
      BY <1>2, <1>5, <1>6, <1>9 DEF FailLoad
    <2> QED
      BY <1>1, <2>1, ScanEnds, ScanGoes
  <1>10. CASE next = "loaded"
    <2>1. DomainLoaded(d)
      BY <1>2, <1>5, <1>6, <1>10
    <2>2. LoadSeen(d.config, d.of, scanSeen)
      BY <1>3, <1>5, <1>7, <1>8, <1>10 DEF HalfLoaded, LoadSeen, Loadable
    <2> QED
      BY <1>1, <2>1, <2>2, LoadsIt
  <1>11. CASE next \in LoadStep
    <2>1. scan' = [scan EXCEPT !.loading = (scan.loading \ {d}) \union {[d EXCEPT !.at = next]}]
      BY <1>2, <1>5, <1>6, <1>11 DEF LoadStep
    <2>2. PICK new \in Loadings : /\ new = [d EXCEPT !.at = next]
                                  /\ new.of = d.of /\ new.config = d.config /\ new.at = next
      <3>1. [d EXCEPT !.at = next] \in Loadings
        BY <1>4, <1>11 DEF Loadings
      <3>2. PICK new \in Loadings : new = [d EXCEPT !.at = next]
        BY <3>1
      <3>3. new.of = d.of /\ new.config = d.config /\ new.at = next
        BY <1>4, <3>2 DEF Loadings
      <3> QED
        BY <3>2, <3>3
    <2>3. HalfLoaded(new, scanSeen)
      BY <1>3, <1>5, <1>7, <1>8, <2>2 DEF HalfLoaded
    <2>4. PICK underway \in SUBSET Loadings : underway = (scan.loading \ {d}) \union {new}
      BY DEF ScanInv, Scans
    <2>5. \A e \in underway : e.of \in scan.found /\ HalfLoaded(e, scanSeen)
      BY <1>1, <1>3, <2>2, <2>3, <2>4 DEF ScanInv, Knowing, Loading
    <2> QED
      BY <1>1, <2>1, <2>2, <2>4, <2>5, LoadsGoOn
  <1> QED
    BY <1>7, <1>9, <1>10, <1>11

LEMMA OneOf ==
  ASSUME NEW S, NEW x \in S
  PROVE  <<x>> \in Seq(S)
  OBVIOUS

LEMMA Divides ==
  ASSUME ScanInv, FanOut
  PROVE  ScanInv'
  <1>1. /\ scan.at = "load" /\ DOMAIN scan.loaded = scan.found /\ scan.found \in SUBSET Path
        /\ UNCHANGED <<scanSeen, source, doctorVars>>
        /\ source' \in Text \union {Gone}
    BY DEF FanOut, ScanInv, Scans
  <1>2. PICK listed \in SetToSeqs(scan.found) :
           scan' = [scan EXCEPT !.at = "check",
               !.chunks = IF Len(listed) < Threshold THEN <<listed>>
                          ELSE ChunksOf(listed, scan.workers)]
    BY DEF FanOut
  <1>3. /\ listed \in Seq(scan.found) /\ Len(listed) \in Nat
        /\ \A f \in scan.found : \E k \in 1 .. Len(listed) : listed[k] = f
    BY <1>1, OrderHasAll
  <1>4. PICK parts : parts = IF Len(listed) < Threshold THEN <<listed>>
                               ELSE ChunksOf(listed, scan.workers)
    OBVIOUS
  <1>5. scan.workers \in Nat
    BY DEF ScanInv, Scans
  <1>6. /\ parts \in Seq(Seq(scan.found))
        /\ scan.workers # NotANumber => \A f \in scan.found : Left(parts, f)
    <2>1. CASE Len(listed) < Threshold
      <3>1. parts = <<listed>> /\ Len(parts) = 1 /\ parts[1] = listed
        BY <1>4, <2>1
      <3>2. parts \in Seq(Seq(scan.found))
        BY <1>3, <3>1, OneOf
      <3>3. DOMAIN listed = 1 .. Len(listed)
        BY <1>3
      <3>4. \A f \in scan.found : f \in ToSet(listed)
        BY <1>3, <3>3 DEF ToSet
      <3> QED
        BY <3>1, <3>2, <3>4 DEF Left
    <2>2. CASE ~(Len(listed) < Threshold) /\ scan.workers # NotANumber
      <3>1. Len(listed) > 0
        BY <1>3, <2>2 DEF Threshold
      <3>2. parts = ChunksOf(listed, scan.workers)
        BY <1>4, <2>2
      <3> QED
        BY <1>3, <1>5, <2>2, <3>1, <3>2, ChunksHaveAll
    <2>3. CASE ~(Len(listed) < Threshold) /\ scan.workers = NotANumber
      <3>1. parts = <<<<>>>>
        BY <1>4, <2>3 DEF ChunksOf
      <3>2. <<>> \in Seq(scan.found)
        OBVIOUS
      <3> QED
        BY <2>3, <3>1, <3>2, OneOf
    <2> QED
      BY <2>1, <2>2, <2>3
  <1>7. parts \in Seq(Seq(Path))
    BY <1>1, <1>6
  <1> DEFINE r == [scan EXCEPT !.at = "check", !.chunks = parts]
  <1>8. scan' = r
    BY <1>2, <1>4
  <1>9. /\ r \in Scans /\ r.at = "check" /\ r.chunks = parts /\ r.found = scan.found
        /\ r.text = scan.text /\ r.loaded = scan.loaded /\ r.workers = scan.workers
        /\ r.loading = scan.loading
        /\ r.reading = {} /\ r.checked = {} /\ r.errors = {}
    <2>1. scan \in Scans /\ scan.reading = {} /\ scan.checked = {} /\ scan.errors = {}
      BY <1>1 DEF ScanInv, Knowing
    <2> QED
      BY <1>7, <2>1, ScanDivided
  <1> HIDE DEF r
  <1>10. OnDisk \in scanSeen /\ Loading(scan, scanSeen) /\ scan.text = Gone
    BY <1>1 DEF ScanInv, Knowing
  <1>11. Loading(r, scanSeen)
    BY <1>9, <1>10 DEF Loading
  <1>12. Halfway(r, scanSeen)
    BY <1>1, <1>6, <1>9 DEF Halfway
  <1>13. Knowing(r, scanSeen, OnDisk)
    BY <1>9, <1>10, <1>11, <1>12 DEF Knowing, CleanEnd
  <1> QED
    BY <1>1, <1>8, <1>9, <1>13, ScanGoes

\* A file is checked: it has an error, or the run has seen what it needs.
LEMMA ChecksOne ==
  ASSUME ScanInv, NEW f \in Path, NEW failed \in BOOLEAN, scan.at = "check", f \in scan.found,
         Checked(f, failed), failed \/ DomainVouched(f, scanSeen),
         UNCHANGED <<scanSeen, source, doctorVars>>
  PROVE  ScanInv'
  <1>1. /\ Loading(scan, scanSeen) /\ Halfway(scan, scanSeen) /\ OnDisk \in scanSeen
        /\ scan.text = Gone
    BY DEF ScanInv, Knowing
  <1>2. PICK checked \in SUBSET Path, errors \in SUBSET Path, reading \in SUBSET Readings :
           /\ checked = scan.checked \union {f}
           /\ errors = IF failed THEN scan.errors \union {f} ELSE scan.errors
           /\ reading = {d \in scan.reading : d.of # f}
    BY DEF ScanInv, Scans
  <1> DEFINE r == [scan EXCEPT !.checked = checked, !.errors = errors, !.reading = reading]
  <1>3. scan' = r
    BY <1>2 DEF Checked
  <1>4. /\ r \in Scans /\ r.at = "check" /\ r.chunks = scan.chunks /\ r.found = scan.found
        /\ r.text = scan.text /\ r.loaded = scan.loaded /\ r.workers = scan.workers
        /\ r.loading = scan.loading
        /\ r.reading = reading /\ r.checked = checked /\ r.errors = errors
    <2>1. scan \in Scans
      BY DEF ScanInv
    <2>2. r \in Scans
      BY <1>2, <2>1 DEF Scans
    <2>3. /\ r.at = scan.at /\ r.chunks = scan.chunks /\ r.found = scan.found
          /\ r.text = scan.text /\ r.loaded = scan.loaded /\ r.workers = scan.workers
          /\ r.loading = scan.loading
      BY <2>1 DEF Scans
    <2>4. r.reading = reading /\ r.checked = checked /\ r.errors = errors
      BY <2>1 DEF Scans
    <2> QED
      BY <2>2, <2>3, <2>4
  <1> HIDE DEF r
  <1>5. Loading(r, scanSeen)
    BY <1>1, <1>4 DEF Loading
  <1>6. Halfway(r, scanSeen)
    BY <1>1, <1>2, <1>4 DEF Halfway
  <1>7. Knowing(r, scanSeen, OnDisk)
    BY <1>1, <1>4, <1>5, <1>6 DEF Knowing, CleanEnd
  <1> QED
    BY <1>3, <1>4, <1>7, ScanGoes DEF ScanInv

LEMMA CheckingFound ==
  ASSUME ScanInv, NEW f \in Path, Checking(f)
  PROVE  /\ scan.at = "check" /\ f \in scan.found /\ f \in DOMAIN scan.loaded
         /\ LoadSeen(scan.loaded[f], f, scanSeen) /\ scan.loaded[f].id \in Id
         /\ OnDisk \in scanSeen /\ OnDisk.file = file /\ OnDisk.vault = vault
         /\ \A d \in scan.reading : d.of \in scan.found
                                      /\ HalfChecked(d, scan.loaded[d.of].id, scanSeen)
  <1>1. scan.at = "check" /\ scan.chunks # <<>> /\ f \in ToSet(Head(scan.chunks))
    BY DEF Checking
  <1>2. Halfway(scan, scanSeen) /\ Loading(scan, scanSeen) /\ OnDisk \in scanSeen
    BY <1>1 DEF ScanInv, Knowing
  <1>3. Head(scan.chunks) \in Seq(scan.found)
    BY <1>1, <1>2 DEF Halfway
  <1>4. f \in scan.found
    BY <1>1, <1>3 DEF ToSet
  <1>5. f \in DOMAIN scan.loaded
    BY <1>2, <1>4 DEF Halfway
  <1>6. scan.loaded[f].id \in Id
    <2>1. scan.loaded[f] \in Content
      BY <1>5 DEF ScanInv, Scans, Loads
    <2> QED
      BY <2>1, DoctorAssumption
  <1> QED
    BY <1>1, <1>2, <1>4, <1>5, <1>6 DEF Halfway, Loading, OnDisk

\* What was loaded is checked last.
LEMMA ChecksMerged ==
  ASSUME ScanInv, NEW f \in Path, Checking(f), NEW failed \in BOOLEAN, CheckMerged(f, failed),
         failed \/ RawVouched(f, scan.loaded[f].id, scanSeen),
         UNCHANGED <<scanSeen, source, doctorVars>>
  PROVE  ScanInv'
  <1>1. /\ scan.at = "check" /\ f \in scan.found
        /\ LoadSeen(scan.loaded[f], f, scanSeen)
    BY CheckingFound
  <1>2. PICK bad \in BOOLEAN : bad = (failed \/ MergedErrors(scan.loaded[f]) # {})
    OBVIOUS
  <1>3. Checked(f, bad)
    BY <1>2 DEF CheckMerged
  <1>4. bad \/ DomainVouched(f, scanSeen)
    <2> SUFFICES ASSUME ~bad PROVE DomainVouched(f, scanSeen)
      OBVIOUS
    <2>1. MergedErrors(scan.loaded[f]) = {} /\ RawVouched(f, scan.loaded[f].id, scanSeen)
      BY <1>2
    <2>2. PICK s \in scanSeen : s.file[f] = scan.loaded[f]
      BY <1>1 DEF LoadSeen, ConfigSeen
    <2>3. Inventoried(s.file[f]) /\ Loadable(scanSeen, s.file[f].id)
      BY <1>1, <2>2 DEF LoadSeen, ConfigSeen
    <2> QED
      BY <2>1, <2>2, <2>3 DEF DomainVouched
  <1> QED
    BY <1>1, <1>3, <1>4, ChecksOne

\* The checks go on, and what was found so far was there.
LEMMA ChecksGoOn ==
  ASSUME ScanInv, NEW f \in Path, Checking(f), NEW reading \in SUBSET Readings,
         scan' = [scan EXCEPT !.reading = reading],
         \A d \in reading : \/ d \in scan.reading
                            \/ d.of = f /\ HalfChecked(d, scan.loaded[f].id, scanSeen),
         UNCHANGED <<scanSeen, source, doctorVars>>
  PROVE  ScanInv'
  <1> DEFINE r == [scan EXCEPT !.reading = reading]
  <1>1. scan.at = "check" /\ f \in scan.found /\ scan' = r
    BY CheckingFound
  <1>2. /\ r \in Scans /\ r.at = "check" /\ r.chunks = scan.chunks /\ r.found = scan.found
        /\ r.text = scan.text /\ r.loaded = scan.loaded /\ r.workers = scan.workers
        /\ r.loading = scan.loading
        /\ r.reading = reading /\ r.checked = scan.checked /\ r.errors = scan.errors
    <2>1. scan \in Scans
      BY DEF ScanInv
    <2>2. r \in Scans
      BY <2>1 DEF Scans
    <2>3. r.reading = reading
      BY <2>1 DEF Scans
    <2> QED
      BY <1>1, <2>1, <2>2, <2>3 DEF Scans
  <1> HIDE DEF r
  <1>3. Loading(scan, scanSeen) /\ Halfway(scan, scanSeen) /\ scan.text = Gone
    BY <1>1 DEF ScanInv, Knowing
  <1>4. Loading(r, scanSeen)
    BY <1>2, <1>3 DEF Loading
  <1>5. \A d \in r.reading : d.of \in r.found /\ HalfChecked(d, r.loaded[d.of].id, scanSeen)
    BY <1>1, <1>2, <1>3 DEF Halfway
  <1>6. Halfway(r, scanSeen)
    BY <1>2, <1>3, <1>5 DEF Halfway
  <1>7. Knowing(r, scanSeen, OnDisk)
    BY <1>1, <1>2, <1>3, <1>4, <1>6 DEF ScanInv, Knowing, CleanEnd
  <1> QED
    BY <1>1, <1>2, <1>7, ScanGoes DEF ScanInv

\* One file that is checked comes one read further.
LEMMA ChecksOnward ==
  ASSUME ScanInv, NEW f \in Path, NEW d \in scan.reading, NEW was, ReadingAt(f, was, d),
         NEW stage \in {"private", "metadata", "store"}, NEW raw \in Content,
         NEW failed \in BOOLEAN, Onward(d, stage, raw, failed),
         HalfChecked([of |-> f, at |-> stage, raw |-> raw, failed |-> failed],
                     scan.loaded[f].id, scanSeen),
         UNCHANGED <<scanSeen, source, doctorVars>>
  PROVE  ScanInv'
  <1>1. Checking(f) /\ d.of = f
    BY DEF ReadingAt
  <1>2. PICK new \in Readings :
           new = [of |-> f, at |-> stage, raw |-> raw, failed |-> failed] /\ new.of = f
    <2>1. [of |-> f, at |-> stage, raw |-> raw, failed |-> failed] \in Readings
      BY DEF Readings
    <2> QED
      BY <2>1
  <1>3. PICK reading \in SUBSET Readings : reading = (scan.reading \ {d}) \union {new}
    BY DEF ScanInv, Scans
  <1>4. scan' = [scan EXCEPT !.reading = reading]
    BY <1>1, <1>2, <1>3 DEF Onward
  <1>5. HalfChecked(new, scan.loaded[f].id, scanSeen)
    BY <1>2
  <1> QED
    BY <1>1, <1>2, <1>3, <1>4, <1>5, ChecksGoOn

LEMMA ChecksLoaded ==
  ASSUME ScanInv, NEW f \in Path, CheckLoaded(f)
  PROVE  ScanInv'
  <1>1. Checking(f) /\ UNCHANGED <<scanSeen, source, doctorVars>>
    BY DEF CheckLoaded
  <1>2. CASE file[f] = Gone
    <2>1. CheckMerged(f, FALSE)
      BY <1>2 DEF CheckLoaded
    <2>2. RawVouched(f, scan.loaded[f].id, scanSeen)
      BY <1>1, <1>2, CheckingFound DEF RawVouched
    <2> QED
      BY <1>1, <2>1, <2>2, ChecksMerged
  <1>3. CASE file[f] # Gone
    <2>1. PICK new \in Readings :
             /\ new = [of |-> f, at |-> "file", raw |-> Gone, failed |-> FALSE]
             /\ new.of = f /\ new.at = "file"
      <3>1. [of |-> f, at |-> "file", raw |-> Gone, failed |-> FALSE] \in Readings
        BY DEF Readings
      <3> QED
        BY <3>1
    <2>2. PICK reading \in SUBSET Readings : reading = scan.reading \union {new}
      BY DEF ScanInv, Scans
    <2>3. scan' = [scan EXCEPT !.reading = reading]
      BY <1>3, <2>1, <2>2 DEF CheckLoaded
    <2>4. HalfChecked(new, scan.loaded[f].id, scanSeen)
      BY <2>1 DEF HalfChecked
    <2> QED
      BY <1>1, <2>1, <2>2, <2>3, <2>4, ChecksGoOn
  <1> QED
    BY <1>2, <1>3

LEMMA ChecksFile ==
  ASSUME ScanInv, NEW f \in Path, CheckFile(f)
  PROVE  ScanInv'
  <1>1. PICK d \in scan.reading :
           /\ ReadingAt(f, "file", d)
           /\ IF Readable(file[f]) THEN Onward(d, "private", file[f], FALSE) ELSE Checked(f, TRUE)
    BY DEF CheckFile
  <1>2. UNCHANGED <<scanSeen, source, doctorVars>> /\ Checking(f)
    BY <1>1 DEF CheckFile, ReadingAt
  <1>3. /\ scan.at = "check" /\ f \in scan.found
        /\ OnDisk \in scanSeen /\ OnDisk.file = file
    BY <1>2, CheckingFound
  <1>4. CASE Readable(file[f])
    <2>1. PICK raw \in Content : raw = file[f]
      BY <1>4, Read
    <2>2. Onward(d, "private", raw, FALSE)
      BY <1>1, <1>4, <2>1
    <2>3. Readable(raw) /\ \E t \in scanSeen : t.file[f] = raw
      BY <1>3, <1>4, <2>1
    <2>4. HalfChecked([of |-> f, at |-> "private", raw |-> raw, failed |-> FALSE],
                      scan.loaded[f].id, scanSeen)
      BY <2>3 DEF HalfChecked
    <2> QED
      BY <1>1, <1>2, <2>2, <2>4, ChecksOnward
  <1>5. CASE ~Readable(file[f])
    BY <1>1, <1>2, <1>3, <1>5, ChecksOne
  <1> QED
    BY <1>4, <1>5

\* What a file that is being checked is known to be.
LEMMA CheckingRaw ==
  ASSUME ScanInv, NEW f \in Path, NEW d \in scan.reading, NEW stage, stage # "file",
         ReadingAt(f, stage, d)
  PROVE  /\ Checking(f) /\ d.of = f /\ d.at = stage /\ d.failed \in BOOLEAN
         /\ d.raw \in Content /\ Readable(d.raw) /\ \E t \in scanSeen : t.file[f] = d.raw
         /\ HalfChecked(d, scan.loaded[f].id, scanSeen)
         /\ scan.loaded[f].id \in Id /\ OnDisk \in scanSeen /\ OnDisk.vault = vault
  <1>1. Checking(f) /\ d.of = f /\ d.at = stage
    BY DEF ReadingAt
  <1>2. d.failed \in BOOLEAN /\ d.raw \in Content \union {Gone}
    BY DEF ScanInv, Scans, Readings
  <1>3. /\ HalfChecked(d, scan.loaded[f].id, scanSeen)
        /\ scan.loaded[f].id \in Id /\ OnDisk \in scanSeen /\ OnDisk.vault = vault
    BY <1>1, CheckingFound
  <1>4. Readable(d.raw) /\ \E t \in scanSeen : t.file[f] = d.raw
    BY <1>1, <1>3 DEF HalfChecked
  <1> QED
    BY <1>1, <1>2, <1>3, <1>4 DEF Readable

LEMMA ChecksExists ==
  ASSUME ScanInv, NEW f \in Path, CheckExists(f)
  PROVE  ScanInv'
  <1>1. PICK there \in BOOLEAN : there = (vault[scan.loaded[f].id].meta # "none")
    OBVIOUS
  <1>2. PICK d \in scan.reading :
           /\ ReadingAt(f, "private", d)
           /\ IF there THEN Onward(d, "metadata", d.raw, PublicErrors(d.raw, there) # {})
              ELSE CheckMerged(f, PublicErrors(d.raw, there) # {})
    BY <1>1 DEF CheckExists
  <1>3. PICK i \in Id, raw \in Content, failed \in BOOLEAN :
           /\ i = scan.loaded[f].id /\ raw = d.raw /\ failed = (PublicErrors(raw, there) # {})
    BY <1>2, CheckingRaw
  <1>4. UNCHANGED <<scanSeen, source, doctorVars>>
    BY DEF CheckExists
  <1>5. Checking(f) /\ Readable(raw) /\ \E t \in scanSeen : t.file[f] = raw
    BY <1>2, <1>3, CheckingRaw
  <1>6. CASE there
    <2>1. Onward(d, "metadata", raw, failed)
      BY <1>2, <1>3, <1>6
    <2>2. ~failed => PublicErrors(raw, TRUE) = {}
      BY <1>3, <1>6
    <2>3. HalfChecked([of |-> f, at |-> "metadata", raw |-> raw, failed |-> failed],
                      i, scanSeen)
      BY <1>5, <2>2 DEF HalfChecked
    <2> QED
      BY <1>2, <1>3, <1>4, <2>1, <2>3, ChecksOnward
  <1>7. CASE ~there
    <2>1. CheckMerged(f, failed)
      BY <1>2, <1>3, <1>7
    <2>2. Away(scanSeen, i)
      <3>1. OnDisk \in scanSeen /\ OnDisk.vault = vault
        BY <1>2, CheckingRaw
      <3> QED
        BY <1>1, <1>3, <1>7, <3>1 DEF Away
    <2>3. failed \/ RawVouched(f, i, scanSeen)
      BY <1>3, <1>5, <1>7, <2>2 DEF RawVouched, Faultless
    <2> QED
      BY <1>3, <1>4, <1>5, <2>1, <2>3, ChecksMerged
  <1> QED
    BY <1>6, <1>7

LEMMA ChecksMetadata ==
  ASSUME ScanInv, NEW f \in Path, CheckMetadata(f)
  PROVE  ScanInv'
  <1>1. PICK meta : meta = vault[scan.loaded[f].id].meta
    OBVIOUS
  <1>2. PICK d \in scan.reading :
           /\ ReadingAt(f, "metadata", d)
           /\ IF meta \in {"none", "broken"} THEN CheckMerged(f, TRUE)
              ELSE Onward(d, "store", d.raw, d.failed \/ meta = "wrong")
    BY <1>1 DEF CheckMetadata
  <1>3. PICK i \in Id, raw \in Content, failed \in BOOLEAN :
           i = scan.loaded[f].id /\ raw = d.raw /\ failed = (d.failed \/ meta = "wrong")
    BY <1>2, CheckingRaw
  <1>4. UNCHANGED <<scanSeen, source, doctorVars>>
    BY DEF CheckMetadata
  <1>5. /\ Checking(f) /\ Readable(raw) /\ (\E t \in scanSeen : t.file[f] = raw)
        /\ HalfChecked(d, i, scanSeen) /\ d.at = "metadata"
        /\ OnDisk \in scanSeen /\ OnDisk.vault = vault
    BY <1>2, <1>3, CheckingRaw
  <1>6. CASE meta \in {"none", "broken"}
    <2>1. CheckMerged(f, TRUE)
      BY <1>2, <1>6
    <2> QED
      BY <1>4, <1>5, <2>1, ChecksMerged
  <1>7. CASE meta \notin {"none", "broken"}
    <2>1. Onward(d, "store", raw, failed)
      BY <1>2, <1>3, <1>7
    <2>2. ~failed => PublicErrors(raw, TRUE) = {}
      BY <1>3, <1>5 DEF HalfChecked
    <2>3. ~failed => Fits(scanSeen, i)
      <3>1. meta \in {"wrong", "good"}
        BY <1>1, <1>3, <1>7 DEF ScanInv, Vault
      <3> QED
        BY <1>1, <1>3, <1>5, <3>1 DEF Fits
    <2>4. HalfChecked([of |-> f, at |-> "store", raw |-> raw, failed |-> failed],
                      i, scanSeen)
      BY <1>5, <2>2, <2>3 DEF HalfChecked
    <2> QED
      BY <1>2, <1>3, <1>4, <2>1, <2>4, ChecksOnward
  <1> QED
    BY <1>6, <1>7

LEMMA ChecksStore ==
  ASSUME ScanInv, NEW f \in Path, CheckStore(f)
  PROVE  ScanInv'
  <1>1. PICK d \in scan.reading :
           /\ ReadingAt(f, "store", d)
           /\ CheckMerged(f, d.failed \/ ~vault[scan.loaded[f].id].store)
    BY DEF CheckStore
  <1>2. PICK i \in Id, raw \in Content, failed \in BOOLEAN :
           i = scan.loaded[f].id /\ raw = d.raw /\ failed = (d.failed \/ ~vault[i].store)
    BY <1>1, CheckingRaw
  <1>3. UNCHANGED <<scanSeen, source, doctorVars>> /\ CheckMerged(f, failed)
    BY <1>1, <1>2 DEF CheckStore
  <1>4. /\ Checking(f) /\ Readable(raw) /\ (\E t \in scanSeen : t.file[f] = raw)
        /\ HalfChecked(d, i, scanSeen) /\ d.at = "store" /\ d.failed \in BOOLEAN
        /\ OnDisk \in scanSeen /\ OnDisk.vault = vault
    BY <1>1, <1>2, CheckingRaw
  <1>5. failed \/ RawVouched(f, i, scanSeen)
    <2> SUFFICES ASSUME ~failed PROVE RawVouched(f, i, scanSeen)
      OBVIOUS
    <2>1. PublicErrors(raw, TRUE) = {} /\ Fits(scanSeen, i)
      BY <1>2, <1>4 DEF HalfChecked
    <2>2. Kept(scanSeen, i)
      BY <1>2, <1>4 DEF Kept
    <2> QED
      BY <1>4, <2>1, <2>2 DEF RawVouched, Faultless
  <1> QED
    BY <1>2, <1>3, <1>4, <1>5, ChecksMerged

LEMMA NextOne ==
  ASSUME ScanInv, NextChunk
  PROVE  ScanInv'
  <1>1. /\ scan.at = "check" /\ scan.chunks # <<>> /\ UNCHANGED <<scanSeen, source, doctorVars>>
        /\ ToSet(Head(scan.chunks)) \subseteq scan.checked
        /\ source' \in Text \union {Gone}
    BY DEF NextChunk, ScanInv
  <1>2. /\ Halfway(scan, scanSeen) /\ Loading(scan, scanSeen) /\ OnDisk \in scanSeen
        /\ scan.text = Gone
    BY <1>1 DEF ScanInv, Knowing
  <1>3. PICK parts : parts = Tail(scan.chunks)
    OBVIOUS
  <1>4. /\ scan.chunks \in Seq(Seq(scan.found)) /\ scan.chunks \in Seq(Seq(Path))
        /\ Len(scan.chunks) \in Nat
    BY <1>2 DEF Halfway, ScanInv, Scans
  <1>5. /\ parts \in Seq(Seq(scan.found)) /\ parts \in Seq(Seq(Path))
        /\ Len(parts) = Len(scan.chunks) - 1
        /\ \A n \in 1 .. Len(parts) : parts[n] = scan.chunks[n + 1]
        /\ Head(scan.chunks) = scan.chunks[1]
    <2>1. /\ parts \in Seq(Seq(scan.found)) /\ Len(parts) = Len(scan.chunks) - 1
          /\ \A n \in 1 .. Len(parts) : parts[n] = scan.chunks[n + 1]
      BY <1>1, <1>3, <1>4, HeadTailProperties
    <2>2. parts \in Seq(Seq(Path))
      BY <1>1, <1>3, <1>4, HeadTailProperties
    <2>3. Head(scan.chunks) = scan.chunks[1]
      BY <1>1, <1>4
    <2> QED
      BY <2>1, <2>2, <2>3
  <1>6. \A f : Left(scan.chunks, f) => f \in scan.checked \/ Left(parts, f)
    <2> SUFFICES ASSUME NEW f, Left(scan.chunks, f), f \notin scan.checked PROVE Left(parts, f)
      OBVIOUS
    <2>1. PICK n \in 1 .. Len(scan.chunks) : f \in ToSet(scan.chunks[n])
      BY DEF Left
    <2>2. n # 1
      BY <1>1, <1>5, <2>1
    <2>3. PICK m \in 1 .. Len(parts) : n = m + 1
      <3>1. PICK size \in Nat : size = Len(scan.chunks)
        BY <1>4
      <3>2. n - 1 \in 1 .. size - 1 /\ n = (n - 1) + 1
        BY <2>2, <3>1
      <3> QED
        BY <1>5, <3>1, <3>2
    <2> QED
      BY <1>5, <2>1, <2>3 DEF Left
  <1> DEFINE r == [scan EXCEPT !.chunks = parts]
  <1>7. scan' = r
    BY <1>3 DEF NextChunk
  <1>8. /\ r \in Scans /\ r.at = "check" /\ r.chunks = parts /\ r.found = scan.found
        /\ r.text = scan.text /\ r.loaded = scan.loaded /\ r.workers = scan.workers
        /\ r.loading = scan.loading
        /\ r.reading = scan.reading /\ r.checked = scan.checked /\ r.errors = scan.errors
    <2>1. scan \in Scans
      BY DEF ScanInv
    <2> QED
      BY <1>1, <1>5, <2>1, ScanGoesOn
  <1> HIDE DEF r
  <1>9. Loading(r, scanSeen)
    BY <1>2, <1>8 DEF Loading
  <1>10. Halfway(r, scanSeen)
    BY <1>2, <1>5, <1>6, <1>8 DEF Halfway
  <1>11. Knowing(r, scanSeen, OnDisk)
    BY <1>2, <1>8, <1>9, <1>10 DEF Knowing, CleanEnd
  <1> QED
    BY <1>1, <1>7, <1>8, <1>11, ScanGoes

LEMMA NothingLeft == \A f : ~Left(<<>>, f)
  <1>1. Len(<<>>) = 0
    OBVIOUS
  <1>2. \A n : n \notin 1 .. 0
    OBVIOUS
  <1> QED
    BY <1>1, <1>2, Zenon DEF Left

LEMMA DomainsEnd ==
  ASSUME ScanInv, RunDomainsScan
  PROVE  ScanInv'
  <1>1. /\ scan.at = "check" /\ scan.chunks = <<>> /\ UNCHANGED <<scanSeen, source, doctorVars>>
        /\ source' \in Text \union {Gone}
    BY DEF RunDomainsScan, ScanInv
  <1>2. Halfway(scan, scanSeen) /\ scan.text = Gone
    BY <1>1 DEF ScanInv, Knowing
  <1>3. PICK at \in {"exit 0", "exit 1"} : at = IF scan.errors = {} THEN "exit 0" ELSE "exit 1"
    OBVIOUS
  <1> DEFINE r == [scan EXCEPT !.at = at, !.checked = {}, !.errors = {}]
  <1>4. scan' = r
    BY <1>3 DEF RunDomainsScan
  <1>5. /\ r \in Scans /\ r.at = at /\ r.found = scan.found /\ r.workers = scan.workers
        /\ r.text = scan.text
    BY DEF ScanInv, Scans, ScanAt
  <1> HIDE DEF r
  <1>6. at = "exit 0" /\ scan.workers # NotANumber =>
           \A f \in scan.found : DomainVouched(f, scanSeen)
    <2> SUFFICES ASSUME at = "exit 0", scan.workers # NotANumber, NEW f \in scan.found
                 PROVE  DomainVouched(f, scanSeen)
      OBVIOUS
    <2>1. ~Left(scan.chunks, f)
      BY <1>1, NothingLeft
    <2>2. f \in scan.checked /\ scan.errors = {}
      BY <1>2, <1>3, <2>1 DEF Halfway
    <2> QED
      BY <1>2, <2>2 DEF Halfway
  <1>7. Knowing(r, scanSeen, OnDisk)
    BY <1>2, <1>3, <1>5, <1>6 DEF Knowing, CleanEnd
  <1> QED
    BY <1>1, <1>4, <1>5, <1>7, ScanGoes

\* A text is searched.  Nothing fatal is found in one that passes.
LEMMA TextIsSearched ==
  ASSUME ScanInv, NEW text \in Text, NEW loader \in Loader, NEW strict \in BOOLEAN,
         EndScan(text, loader, Findings(text, loader), strict),
         UNCHANGED <<scanSeen, doctorVars>>, source' \in Text \union {Gone}
  PROVE  ScanInv'
  <1> DEFINE findings == Findings(text, loader)
  <1>1. PICK at \in {"exit 0", "exit 1"} :
           at = IF "fatal" \in findings \/ (strict /\ findings # {}) THEN "exit 1" ELSE "exit 0"
    OBVIOUS
  <1> DEFINE r == [NoScan EXCEPT !.at = at, !.text = text, !.loader = loader]
  <1>2. scan' = r
    BY <1>1 DEF EndScan
  <1>3. /\ r \in Scans /\ r.at = at /\ r.workers = NotANumber
        /\ r.text = text /\ r.loader = loader
    BY NoScanType DEF Scans, ScanAt
  <1> HIDE DEF r
  <1>4. at = "exit 0" => TextClean(r)
    <2>1. at = "exit 0" => "fatal" \notin findings
      BY <1>1
    <2> QED
      BY <1>3, <2>1 DEF TextClean, Findings
  <1>5. Knowing(r, scanSeen, OnDisk)
    BY <1>3, <1>4 DEF Knowing, CleanEnd
  <1> QED
    BY <1>2, <1>3, <1>5, ScanGoes

LEMMA SourcesEnd ==
  ASSUME ScanInv, NEW text \in Text \union {Gone}, RunSourceScan(text)
  PROVE  ScanInv'
  <1>1. UNCHANGED <<scanSeen, doctorVars>> /\ source' \in Text \union {Gone}
    BY DEF RunSourceScan
  <1>2. CASE text = Gone
    <2>1. scan' = [NoScan EXCEPT !.at = "exit 1"]
      BY <1>2 DEF RunSourceScan, NoText
    <2> QED
      BY <1>1, <2>1, ScanEnds, ScanGoes
  <1>3. CASE text # Gone
    <2>1. text \in Text /\ text.looks \in Loader
      BY <1>3, ScanAssumption
    <2>2. EndScan(text, text.looks, Findings(text, text.looks), FALSE)
      BY <1>3 DEF RunSourceScan
    <2> QED
      BY <1>1, <2>1, <2>2, TextIsSearched
  <1> QED
    BY <1>2, <1>3

LEMMA BundlesEnd ==
  ASSUME ScanInv, NEW json \in BOOLEAN, RunBundleScan(json)
  PROVE  ScanInv'
  <1>1. UNCHANGED <<scanSeen, doctorVars, source>> /\ source' \in Text \union {Gone}
    BY DEF RunBundleScan, ScanInv
  <1>2. CASE source = Gone
    <2>1. scan' = [NoScan EXCEPT !.at = "exit 1"]
      BY <1>2 DEF RunBundleScan, NoText
    <2> QED
      BY <1>1, <2>1, ScanEnds, ScanGoes
  <1>3. CASE source # Gone
    <2>1. PICK text \in Text : text = source
      BY <1>3 DEF ScanInv
    <2>2. EndScan(text, "js", Findings(text, "js"), json) /\ "js" \in Loader
      BY <1>3, <2>1 DEF RunBundleScan, Loader
    <2> QED
      BY <1>1, <2>2, TextIsSearched
  <1> QED
    BY <1>2, <1>3

\* The runs that end at once, fail, or wait for a bundle.
LEMMA OthersEnd ==
  ASSUME ScanInv,
         \/ \E f \in Path : WorkerFails(f)
         \/ \E text \in Text \union {Gone} : FindBundle(text)
         \/ \E terminal, allowed, failed \in BOOLEAN : RunInteractiveScan(terminal, allowed, failed)
         \/ \E ok \in BOOLEAN : RunOtherScan(ok)
  PROVE  ScanInv'
  <1>1. UNCHANGED <<scanSeen, doctorVars>> /\ source' \in Text \union {Gone}
    BY DEF WorkerFails, FindBundle, RunInteractiveScan, RunOtherScan, ScanInv
  <1>2. PICK at \in {"exit 0", "exit 1", "bundle"} : scan' = [NoScan EXCEPT !.at = at]
    <2>1. CASE \E f \in Path : WorkerFails(f)
      BY <2>1 DEF WorkerFails
    <2>2. CASE \E text \in Text \union {Gone} : FindBundle(text)
      BY <2>2 DEF FindBundle, NoText
    <2>3. CASE \E terminal, allowed, failed \in BOOLEAN : RunInteractiveScan(terminal, allowed, failed)
      <3>1. PICK terminal \in BOOLEAN, allowed \in BOOLEAN, failed \in BOOLEAN :
               RunInteractiveScan(terminal, allowed, failed)
        BY <2>3
      <3>2. PICK at \in {"exit 0", "exit 1"} :
               at = IF terminal /\ allowed /\ ~failed THEN "exit 0" ELSE "exit 1"
        OBVIOUS
      <3> QED
        BY <3>1, <3>2 DEF RunInteractiveScan
    <2>4. CASE \E ok \in BOOLEAN : RunOtherScan(ok)
      <3>1. PICK ok \in BOOLEAN : RunOtherScan(ok)
        BY <2>4
      <3>2. PICK at \in {"exit 0", "exit 1"} : at = IF ok THEN "exit 0" ELSE "exit 1"
        OBVIOUS
      <3> QED
        BY <3>1, <3>2 DEF RunOtherScan
    <2> QED
      BY <2>1, <2>2, <2>3, <2>4
  <1> QED
    BY <1>1, <1>2, ScanEnds, ScanGoes

LEMMA BuildsKeep ==
  ASSUME ScanInv, NEW text \in Text \union {Gone}, Build(text)
  PROVE  ScanInv'
  BY DEF Build, ScanInv, doctorVars, OnDisk

LEMMA ScanStep == ScanInv /\ [ScanNext]_<<scanOwnVars, doctorVars>> => ScanInv'
  <1> SUFFICES ASSUME ScanInv, [ScanNext]_<<scanOwnVars, doctorVars>> PROVE ScanInv'
    OBVIOUS
  <1>1. CASE UNCHANGED <<scanOwnVars, doctorVars>>
    BY <1>1 DEF scanOwnVars, doctorVars, ScanInv, OnDisk
  <1>2. ASSUME NEW f \in Path, CheckDomain(f) PROVE ScanInv'
    BY <1>2, ChecksLoaded, ChecksFile, ChecksExists, ChecksMetadata, ChecksStore DEF CheckDomain
  <1>3. CASE ScanNext
    BY <1>2, <1>3, EditsKeep, Divides, NextOne, DomainsEnd, BundlesEnd, SourcesEnd, OthersEnd,
       BuildsKeep, Begins, LoadsOne, LoadsOn DEF ScanNext
  <1> QED
    BY <1>1, <1>3

LEMMA CleanScanHolds == ScanInv => CleanScanMeansClean
  <1> SUFFICES ASSUME ScanInv PROVE CleanScanMeansClean
    OBVIOUS
  <1>1. CleanEnd(scan, scanSeen)
    BY DEF ScanInv, Knowing
  <1> QED
    BY <1>1 DEF CleanEnd, TextClean, DomainVouched, RawVouched, CleanScanMeansClean

\* A scan that exits with 0 has seen, since it began, all that a domain without
\* an error needs, for each domain that it found, however many workers have
\* them in parts and whatever edits come between any two reads, those of one
\* load too; and nothing fatal in the text that it read
\* (domain-parallel.ts:68-90, doctor.ts:552-626, loader.ts:60-191,
\* transpiler.ts:100-156).
THEOREM CleanScansVouch == ScanSpec => []CleanScanMeansClean
  BY ScanInitially, ScanStep, CleanScanHolds, PTL DEF ScanSpec

-----------------------------------------------------------------------------
(* Inspections of TLS endpoints.                                           *)

Inspections == [at : {"off", "handshake", "exit 0", "exit 1"}, server : Server,
                left : BOOLEAN, useSystemCA : BOOLEAN, ca : CAs]

\* What an inspection goes by was in the store since the cached list was read.
RecentlyRead(d, recent) ==
    d.at = "handshake" => /\ d.useSystemCA => d.ca \in recent
                          /\ d.left /\ ~d.useSystemCA => "empty" \in recent

TlsInv ==
    /\ caStore \in CAs /\ cachedCAs \in CAs \union {"unread"} /\ inspection \in Inspections
    /\ recentCAs \subseteq CAs /\ caStore \in recentCAs
    /\ cachedCAs # "unread" => cachedCAs \in recentCAs
    /\ RecentlyRead(inspection, recentCAs)

LEMMA NoInspectionType ==
    /\ NoInspection \in Inspections /\ NoInspection.at = "off"
    /\ [NoInspection EXCEPT !.at = "exit 1"] \in Inspections
    /\ [NoInspection EXCEPT !.at = "exit 1"].at = "exit 1"
  BY DEF NoInspection, Inspections, Server, CAs

LEMMA TlsInitially == TlsInit => TlsInv
  BY NoInspectionType DEF TlsInit, TlsInv, CAs, RecentlyRead

LEMMA CAsAreRead ==
  ASSUME TlsInv
  PROVE  /\ GetSystemCACertificates \in CAs /\ GetSystemCACertificates \in recentCAs
         /\ cachedCAs = "unread" => GetSystemCACertificates = caStore
         /\ "unread" \notin CAs
  BY DEF TlsInv, GetSystemCACertificates, CAs

LEMMA InspectionEnds ==
  ASSUME TlsInv, NEW ok \in BOOLEAN, RunTlsCli(ok)
  PROVE  /\ inspection' \in Inspections
         /\ inspection'.at = IF ok THEN "exit 0" ELSE "exit 1"
  <1>1. PICK at \in {"exit 0", "exit 1"} : at = IF ok THEN "exit 0" ELSE "exit 1"
    OBVIOUS
  <1>2. inspection' = [inspection EXCEPT !.at = at]
    BY <1>1 DEF RunTlsCli
  <1> QED
    BY <1>1, <1>2 DEF TlsInv, Inspections

LEMMA TlsStarts ==
  ASSUME TlsInv, NEW target \in Server, NEW flag \in Choice, NEW config \in Choice,
         RunTlsScan(target, flag, config)
  PROVE  TlsInv' /\ inspection'.at = "handshake"
  <1>1. PICK use \in BOOLEAN, left \in BOOLEAN :
           use = ResolveUseSystemCA(flag, config) /\ left = (flag = "unset" /\ config = "unset")
    BY DEF ResolveUseSystemCA
  <1>2. PICK found \in CAs : /\ found = GetSystemCACertificates /\ found \in recentCAs
                             /\ cachedCAs = "unread" => found = caStore
    BY CAsAreRead
  <1>3. PICK ca \in CAs : ca = IF use THEN found ELSE "empty"
    BY DEF CAs
  <1>4. inspection' = [at |-> "handshake", server |-> target, left |-> left,
                       useSystemCA |-> use, ca |-> ca]
    BY <1>1, <1>2, <1>3 DEF RunTlsScan
  <1>5. /\ UNCHANGED caStore /\ (cachedCAs' = found \/ cachedCAs' = cachedCAs)
        /\ recentCAs' = IF cachedCAs = "unread" THEN {caStore} ELSE recentCAs
    BY <1>2 DEF RunTlsScan, ReadCAs
  <1>6. /\ inspection' \in Inspections /\ inspection'.at = "handshake"
        /\ inspection'.left = left /\ inspection'.useSystemCA = use /\ inspection'.ca = ca
    BY <1>4 DEF Inspections
  <1>7. found \in recentCAs' /\ recentCAs' \subseteq CAs /\ caStore \in recentCAs'
    BY <1>2, <1>5 DEF TlsInv
  <1>8. cachedCAs' # "unread" => cachedCAs' \in recentCAs'
    BY <1>5, <1>7 DEF TlsInv
  <1>9. left /\ ~use => found = "empty"
    <2>1. left /\ ~use => found # "anchors"
      BY <1>1, <1>2 DEF ResolveUseSystemCA
    <2> QED
      BY <2>1 DEF CAs
  <1>10. RecentlyRead(inspection, recentCAs)'
    BY <1>3, <1>6, <1>7, <1>9 DEF RecentlyRead
  <1> QED
    BY <1>5, <1>6, <1>7, <1>8, <1>10 DEF TlsInv

\* What an inspection that passes had to go by.
Passing ==
    inspection.at = "handshake" /\ inspection'.at = "exit 0" =>
        /\ inspection.useSystemCA => "anchors" \in recentCAs
        /\ inspection.useSystemCA \/ inspection.left =>
              "empty" \in recentCAs \/ inspection.server.system

LEMMA TlsConnects ==
  ASSUME TlsInv, SecureConnect
  PROVE  TlsInv' /\ Passing
  <1>1. PICK ok \in BOOLEAN : ok = Accepted
    BY DEF Accepted
  <1>2. /\ inspection.at = "handshake" /\ RunTlsCli(ok) /\ UNCHANGED caStore
        /\ IF inspection.useSystemCA THEN cachedCAs' = GetSystemCACertificates
           ELSE UNCHANGED cachedCAs
        /\ recentCAs' = IF inspection.useSystemCA /\ cachedCAs = "unread" THEN {caStore}
                        ELSE recentCAs
    BY <1>1 DEF SecureConnect, ReadCAs
  <1>3. /\ inspection' \in Inspections
        /\ inspection'.at = IF ok THEN "exit 0" ELSE "exit 1"
    BY <1>2, InspectionEnds
  <1>4. TlsInv'
    <2>1. /\ cachedCAs' \in CAs \union {"unread"} /\ recentCAs' \subseteq CAs
          /\ caStore \in recentCAs' /\ (cachedCAs' # "unread" => cachedCAs' \in recentCAs')
      BY <1>2, CAsAreRead DEF TlsInv
    <2> QED
      BY <1>2, <1>3, <2>1 DEF TlsInv, RecentlyRead
  <1>5. ok => /\ inspection.useSystemCA => "anchors" \in recentCAs
              /\ inspection.useSystemCA \/ inspection.left =>
                    "empty" \in recentCAs \/ inspection.server.system
    <2> SUFFICES ASSUME ok
                 PROVE  /\ inspection.useSystemCA => "anchors" \in recentCAs
                        /\ inspection.useSystemCA \/ inspection.left =>
                              "empty" \in recentCAs \/ inspection.server.system
      OBVIOUS
    <2>1. RecentlyRead(inspection, recentCAs) /\ inspection.ca \in CAs
      BY DEF TlsInv, Inspections
    <2>2. CASE inspection.useSystemCA
      <3>1. /\ GetSystemCACertificates = "anchors"
            /\ IF inspection.ca = "anchors" THEN inspection.server.system
               ELSE inspection.server.runtime
        BY <1>1, <2>2 DEF Accepted, Trusted, Authorized
      <3>2. "anchors" \in recentCAs
        BY <3>1, CAsAreRead
      <3>3. inspection.ca \in recentCAs
        BY <1>2, <2>1, <2>2 DEF RecentlyRead
      <3> QED
        BY <2>1, <3>1, <3>2, <3>3 DEF CAs
    <2>3. CASE ~inspection.useSystemCA
      BY <1>2, <2>1, <2>3 DEF RecentlyRead
    <2> QED
      BY <2>2, <2>3
  <1>6. Passing
    BY <1>3, <1>5 DEF Passing
  <1> QED
    BY <1>4, <1>6

LEMMA TlsGoesOn ==
  ASSUME TlsInv, StoreChanges \/ CacheAges \/ RefuseTls \/ HandshakeFails
  PROVE  TlsInv' /\ (inspection.at = "handshake" => inspection'.at # "exit 0")
  <1>1. CASE StoreChanges
    <2>1. /\ UNCHANGED <<cachedCAs, inspection>>
          /\ \E cas \in CAs : caStore' = cas /\ recentCAs' = recentCAs \union {cas}
      BY <1>1 DEF StoreChanges
    <2>2. RecentlyRead(inspection, recentCAs)'
      BY <2>1 DEF TlsInv, RecentlyRead
    <2> QED
      BY <2>1, <2>2 DEF TlsInv
  <1>2. CASE CacheAges
    <2>1. /\ UNCHANGED <<caStore, inspection>> /\ cachedCAs' = "unread"
          /\ recentCAs' = IF inspection.at = "handshake" THEN recentCAs ELSE {caStore}
      BY <1>2 DEF CacheAges, Ages
    <2>2. RecentlyRead(inspection, recentCAs)'
      BY <2>1 DEF TlsInv, RecentlyRead
    <2> QED
      BY <2>1, <2>2 DEF TlsInv
  <1>3. CASE RefuseTls
    <2>1. /\ inspection.at # "handshake" /\ inspection' = [NoInspection EXCEPT !.at = "exit 1"]
          /\ UNCHANGED <<caStore, cachedCAs, recentCAs>>
      BY <1>3 DEF RefuseTls
    <2>2. inspection' \in Inspections /\ inspection'.at = "exit 1"
      BY <2>1, NoInspectionType
    <2> QED
      BY <2>1, <2>2 DEF TlsInv, RecentlyRead
  <1>4. CASE HandshakeFails
    <2>1. RunTlsCli(FALSE) /\ UNCHANGED <<caStore, cachedCAs, recentCAs>>
      BY <1>4 DEF HandshakeFails
    <2>2. inspection' \in Inspections /\ inspection'.at = "exit 1"
      BY <2>1, InspectionEnds
    <2> QED
      BY <2>1, <2>2 DEF TlsInv, RecentlyRead
  <1> QED
    BY <1>1, <1>2, <1>3, <1>4

LEMMA TlsStep == TlsInv /\ [TlsNext]_tlsVars => TlsInv' /\ [Passing]_inspection
  <1> SUFFICES ASSUME TlsInv, [TlsNext]_tlsVars PROVE TlsInv' /\ [Passing]_inspection
    OBVIOUS
  <1>1. CASE UNCHANGED tlsVars
    BY <1>1 DEF tlsVars, TlsInv, RecentlyRead
  <1>2. CASE SecureConnect
    BY <1>2, TlsConnects
  <1>3. CASE StoreChanges \/ CacheAges \/ RefuseTls \/ HandshakeFails
    BY <1>3, TlsGoesOn DEF Passing
  <1>4. CASE \E target \in Server, flag, config \in Choice : RunTlsScan(target, flag, config)
    <2>1. TlsInv'
      BY <1>4, TlsStarts
    <2>2. inspection'.at = "handshake"
      BY <1>4, TlsStarts
    <2> QED
      BY <2>1, <2>2 DEF Passing
  <1> QED
    BY <1>1, <1>2, <1>3, <1>4 DEF TlsNext

\* Whatever happens to the store and to the cached list of it between the three
\* looks at it, an inspection that validates and exits with 0 had a CA of the
\* operating system to go by: the store had one since the list was last read,
\* and where it was never empty since, it is the store that vouches for the
\* server (inspector.ts:68-163, system-ca.ts:61-110, tls.ts:79-137).
THEOREM PassedIsTrusted == TlsSpec => PassedMeansTrusted
  <1>1. [Passing]_inspection =>
            [ inspection.at = "handshake" /\ inspection'.at = "exit 0" =>
                /\ inspection.useSystemCA => "anchors" \in recentCAs
                /\ inspection.useSystemCA \/ inspection.left =>
                      "empty" \in recentCAs \/ inspection.server.system ]_inspection
    BY DEF Passing
  <1> QED
    BY TlsInitially, TlsStep, <1>1, PTL DEF TlsSpec, PassedMeansTrusted

-----------------------------------------------------------------------------
(* `bun run report`: what it finds, and what it leaves.                    *)

FindingType == {"csp-missing", "xss-dangerous-html", "xss-inline-handler"}
Severity == {"fatal", "warn", "info"}
FindingValue == {"header", "address", "text", "handler", "cookie"}
PageFinding == [type : FindingType, severity : Severity, value : FindingValue]
PageFindings == Seq(PageFinding)

LEMMA FindingParts ==
  ASSUME NEW type \in FindingType, NEW severity \in Severity, NEW value \in FindingValue
  PROVE  /\ Finding(type, severity, value) \in PageFinding
         /\ Finding(type, severity, value).type = type
         /\ Finding(type, severity, value).severity = severity
         /\ Finding(type, severity, value).value = value
  BY DEF Finding, PageFinding

LEMMA Concatenated ==
  ASSUME NEW a \in PageFindings, NEW b \in PageFindings
  PROVE  /\ a \o b \in PageFindings /\ Len(a \o b) = Len(a) + Len(b)
         /\ \A n \in 1 .. Len(a) : (a \o b)[n] = a[n]
         /\ \A n \in 1 .. Len(b) : (a \o b)[Len(a) + n] = b[n]
         /\ \A n \in Len(a) + 1 .. Len(a) + Len(b) : (a \o b)[n] = b[n - Len(a)]
  BY DEF PageFindings

LEMMA IfFinding ==
  ASSUME NEW condition, NEW finding \in PageFinding
  PROVE  /\ If(condition, finding) \in PageFindings
         /\ condition => Len(If(condition, finding)) = 1 /\ If(condition, finding)[1] = finding
         /\ ~condition => Len(If(condition, finding)) = 0
  BY DEF If, PageFindings

\* A fatal finding that none before it repeats, unless that is fatal, too, is
\* not lost among the findings of a page.
Stays(q, n) ==
    \A m \in 1 .. n - 1 : q[m].type = q[n].type /\ q[m].value = q[n].value => q[m].severity = "fatal"

LEMMA FatalStays ==
  ASSUME NEW q \in PageFindings, NEW n \in 1 .. Len(q), q[n].severity = "fatal", Stays(q, n)
  PROVE  \E f \in Deduped(q) : f.severity = "fatal"
  <1> DEFINE Alike == {m \in 1 .. n : q[m].type = q[n].type /\ q[m].value = q[n].value}
  <1>1. Alike \in SUBSET Nat /\ n \in Alike
    BY DEF PageFindings
  <1>2. PICK k \in Alike : \A m \in Alike : k <= m
    <2> HIDE DEF Alike
    <2> QED
      BY <1>1, LeastExists
  <1>3. q[k].severity = "fatal"
    BY <1>2 DEF Stays
  <1>4. \A m \in 1 .. k - 1 : q[m].type # q[k].type \/ q[m].value # q[k].value
    BY <1>2
  <1>5. k \in DOMAIN q
    BY <1>2 DEF PageFindings
  <1>6. q[k] \in Deduped(q)
    BY <1>4, <1>5 DEF Deduped
  <1> QED
    BY <1>3, <1>6

\* The findings that a page with something fatal in it has.
AllFound(html, rendered) ==
    ScanCspHeaders \o ScanHtmlResponse(html) \o (IF rendered THEN RenderedFindings(html) ELSE <<>>)

LEMMA FatalIsFound ==
  ASSUME NEW html, NEW rendered \in BOOLEAN,
         \/ "bad" \in html.sources
         \/ \E script \in html.inline : "bad" \in ToSet(script)
         \/ rendered /\ html.handlers
  PROVE  \E f \in Deduped(AllFound(html, rendered)) : f.severity = "fatal"
  <1> DEFINE header == Finding("csp-missing", "warn", "header")
             address == Finding("xss-dangerous-html", "fatal", "address")
             text == Finding("xss-dangerous-html", "fatal", "text")
             link == Finding("xss-dangerous-html", "warn", "address")
             handler == Finding("xss-inline-handler", "fatal", "handler")
             cookie == Finding("xss-dangerous-html", "info", "cookie")
             inlined == \E script \in html.inline : "bad" \in ToSet(script)
             A == <<header>>
             B == If("bad" \in html.sources, address)
             C == If(inlined, text)
             D == If("bad" \in html.links, link)
             E == IF rendered THEN RenderedFindings(html) ELSE <<>>
             q == (A \o ((B \o C) \o D)) \o E
  <1>1. /\ header \in PageFinding /\ address \in PageFinding /\ text \in PageFinding
        /\ link \in PageFinding /\ handler \in PageFinding /\ cookie \in PageFinding
    <2>1. /\ FindingType = {"csp-missing", "xss-dangerous-html", "xss-inline-handler"}
          /\ Severity = {"fatal", "warn", "info"}
          /\ FindingValue = {"header", "address", "text", "handler", "cookie"}
      BY DEF FindingType, Severity, FindingValue
    <2>2. header \in PageFinding /\ address \in PageFinding
      BY <2>1, FindingParts
    <2>3. text \in PageFinding /\ link \in PageFinding
      BY <2>1, FindingParts
    <2>4. handler \in PageFinding /\ cookie \in PageFinding
      BY <2>1, FindingParts
    <2> QED
      BY <2>2, <2>3, <2>4
  <1>2. /\ header.type = "csp-missing"
        /\ address.type = "xss-dangerous-html" /\ address.severity = "fatal" /\ address.value = "address"
        /\ text.type = "xss-dangerous-html" /\ text.severity = "fatal" /\ text.value = "text"
        /\ link.type = "xss-dangerous-html"
        /\ handler.type = "xss-inline-handler" /\ handler.severity = "fatal"
    BY DEF Finding
  <1>3. AllFound(html, rendered) = q
    BY DEF AllFound, ScanCspHeaders, ScanHtmlResponse
  <1> DEFINE H == If(html.handlers, handler)
             K == If(html.sources \union html.inline # {}, cookie)
  <1>4. E = IF rendered THEN H \o K ELSE <<>>
    BY DEF RenderedFindings
  <1> HIDE DEF header, address, text, link, handler, cookie, inlined, E
  <1>5. A \in PageFindings /\ Len(A) = 1 /\ A[1] = header
    BY <1>1 DEF PageFindings
  <1>6. /\ B \in PageFindings /\ ("bad" \in html.sources => Len(B) = 1 /\ B[1] = address)
        /\ ("bad" \notin html.sources => Len(B) = 0)
    BY <1>1, IfFinding
  <1>7. /\ C \in PageFindings /\ (inlined => Len(C) = 1 /\ C[1] = text) /\ (~inlined => Len(C) = 0)
    BY <1>1, IfFinding
  <1>8. /\ D \in PageFindings /\ ("bad" \in html.links => Len(D) = 1 /\ D[1] = link)
        /\ ("bad" \notin html.links => Len(D) = 0)
    BY <1>1, IfFinding
  <1>9. /\ H \in PageFindings /\ (html.handlers => Len(H) = 1 /\ H[1] = handler)
        /\ K \in PageFindings
    BY <1>1, IfFinding
  <1>10. E \in PageFindings /\ (rendered /\ html.handlers => Len(E) >= 1 /\ E[1] = handler)
    <2> HIDE DEF H, K
    <2>1. CASE rendered
      <3>1. E = H \o K
        BY <1>4, <2>1
      <3>2. H \o K \in PageFindings /\ Len(H \o K) = Len(H) + Len(K) /\ Len(K) \in Nat
        BY <1>9, Concatenated DEF PageFindings
      <3>3. html.handlers => (H \o K)[1] = handler
        BY <1>9, Concatenated
      <3> QED
        BY <1>9, <3>1, <3>2, <3>3
    <2>2. CASE ~rendered
      BY <1>4, <2>2 DEF PageFindings
    <2> QED
      BY <2>1, <2>2
  <1> HIDE DEF A, B, C, D, H, K
  <1> DEFINE BC == B \o C
             BCD == BC \o D
             Page1 == A \o BCD
  <1>11. /\ BC \in PageFindings /\ Len(BC) = Len(B) + Len(C)
         /\ \A n \in 1 .. Len(B) : BC[n] = B[n]
         /\ \A n \in 1 .. Len(C) : BC[Len(B) + n] = C[n]
    BY <1>6, <1>7, Concatenated
  <1> HIDE DEF BC
  <1>12. /\ BCD \in PageFindings /\ Len(BCD) = Len(BC) + Len(D)
         /\ \A n \in 1 .. Len(BC) : BCD[n] = BC[n]
         /\ \A n \in 1 .. Len(D) : BCD[Len(BC) + n] = D[n]
    BY <1>8, <1>11, Concatenated
  <1> HIDE DEF BCD
  <1>13. /\ Page1 \in PageFindings /\ Len(Page1) = 1 + Len(BCD) /\ Page1[1] = header
         /\ \A n \in 1 .. Len(BCD) : Page1[1 + n] = BCD[n]
    <2>1. Page1 \in PageFindings /\ Len(Page1) = Len(A) + Len(BCD)
      BY <1>5, <1>12, Concatenated
    <2>2. \A n \in 1 .. Len(A) : Page1[n] = A[n]
      BY <1>5, <1>12, Concatenated
    <2>3. \A n \in 1 .. Len(BCD) : Page1[Len(A) + n] = BCD[n]
      BY <1>5, <1>12, Concatenated
    <2> HIDE DEF Page1
    <2> QED
      BY <1>5, <2>1, <2>2, <2>3
  <1> HIDE DEF Page1
  <1>14. /\ q \in PageFindings /\ Len(q) = Len(Page1) + Len(E)
         /\ \A n \in 1 .. Len(Page1) : q[n] = Page1[n]
         /\ \A n \in 1 .. Len(E) : q[Len(Page1) + n] = E[n]
    BY <1>10, <1>13, Concatenated DEF Page1, BCD, BC
  <1> HIDE DEF q
  <1>15. /\ Len(B) \in 0 .. 1 /\ Len(C) \in 0 .. 1 /\ Len(D) \in 0 .. 1 /\ Len(E) \in Nat
         /\ Len(BC) \in Nat /\ Len(BCD) \in Nat /\ Len(Page1) \in Nat /\ Len(q) \in Nat
    <2>1. Len(B) \in 0 .. 1 /\ Len(C) \in 0 .. 1 /\ Len(D) \in 0 .. 1
      BY <1>6, <1>7, <1>8
    <2>2. \A s \in PageFindings : Len(s) \in Nat
      BY DEF PageFindings
    <2> QED
      BY <2>1, <2>2, <1>10, <1>11, <1>12, <1>13, <1>14
  <1>16. CASE "bad" \in html.sources
    <2>1. Len(B) = 1 /\ B[1] = address
      BY <1>6, <1>16
    <2>2. q[1] = header /\ q[2] = address /\ 2 \in 1 .. Len(q)
      <3>1. BC[1] = address /\ 1 \in 1 .. Len(BC)
        BY <1>11, <1>15, <2>1
      <3>2. BCD[1] = address /\ 1 \in 1 .. Len(BCD)
        BY <1>12, <1>15, <3>1
      <3>3. Page1[2] = address /\ 2 \in 1 .. Len(Page1) /\ 1 \in 1 .. Len(Page1)
        BY <1>13, <1>15, <3>2
      <3> QED
        BY <1>13, <1>14, <1>15, <3>3
    <2>3. Stays(q, 2)
      BY <1>2, <2>2 DEF Stays
    <2> QED
      BY <1>2, <1>3, <1>14, <2>2, <2>3, FatalStays
  <1>17. CASE "bad" \notin html.sources /\ inlined
    <2>1. Len(B) = 0 /\ Len(C) = 1 /\ C[1] = text
      BY <1>6, <1>7, <1>17
    <2>2. q[1] = header /\ q[2] = text /\ 2 \in 1 .. Len(q)
      <3>1. BC[1] = text /\ 1 \in 1 .. Len(BC)
        BY <1>11, <1>15, <2>1
      <3>2. BCD[1] = text /\ 1 \in 1 .. Len(BCD)
        BY <1>12, <1>15, <3>1
      <3>3. Page1[2] = text /\ 2 \in 1 .. Len(Page1) /\ 1 \in 1 .. Len(Page1)
        BY <1>13, <1>15, <3>2
      <3> QED
        BY <1>13, <1>14, <1>15, <3>3
    <2>3. Stays(q, 2)
      BY <1>2, <2>2 DEF Stays
    <2> QED
      BY <1>2, <1>3, <1>14, <2>2, <2>3, FatalStays
  <1>18. CASE rendered /\ html.handlers
    <2> DEFINE n == Len(Page1) + 1
    <2>1. q[n] = handler /\ n \in 1 .. Len(q)
      BY <1>10, <1>14, <1>15, <1>18
    <2>2. \A m \in 1 .. Len(Page1) : q[m].type # handler.type
      <3>1. \A m \in 1 .. Len(BC) : BC[m] = address \/ BC[m] = text
        <4> SUFFICES ASSUME NEW m \in 1 .. Len(BC) PROVE BC[m] = address \/ BC[m] = text
          OBVIOUS
        <4>1. CASE m \in 1 .. Len(B)
          BY <1>6, <1>11, <1>15, <4>1
        <4>2. CASE m \notin 1 .. Len(B)
          <5>1. PICK j \in 1 .. Len(C) : m = Len(B) + j
            BY <1>11, <1>15, <4>2
          <5> QED
            BY <1>7, <1>11, <1>15, <5>1
        <4> QED
          BY <4>1, <4>2
      <3>2. \A m \in 1 .. Len(BCD) : BCD[m] \in {address, text, link}
        <4> SUFFICES ASSUME NEW m \in 1 .. Len(BCD) PROVE BCD[m] \in {address, text, link}
          OBVIOUS
        <4>1. CASE m \in 1 .. Len(BC)
          BY <1>12, <3>1, <4>1
        <4>2. CASE m \notin 1 .. Len(BC)
          <5>1. PICK j \in 1 .. Len(D) : m = Len(BC) + j
            BY <1>12, <1>15, <4>2
          <5> QED
            BY <1>8, <1>12, <1>15, <5>1
        <4> QED
          BY <4>1, <4>2
      <3>3. \A m \in 1 .. Len(Page1) : Page1[m] \in {header, address, text, link}
        <4> SUFFICES ASSUME NEW m \in 1 .. Len(Page1) PROVE Page1[m] \in {header, address, text, link}
          OBVIOUS
        <4>1. CASE m = 1
          BY <1>13, <4>1
        <4>2. CASE m # 1
          <5>1. PICK j \in 1 .. Len(BCD) : m = 1 + j
            BY <1>13, <1>15, <4>2
          <5> QED
            BY <1>13, <3>2, <5>1
        <4> QED
          BY <4>1, <4>2
      <3> QED
        BY <1>2, <1>14, <3>3
    <2>3. Stays(q, n)
      BY <1>15, <2>1, <2>2 DEF Stays
    <2> HIDE DEF n
    <2> QED
      BY <1>2, <1>3, <1>14, <2>1, <2>3, FatalStays
  <1> QED
    BY <1>16, <1>17, <1>18 DEF inlined

-----------------------------------------------------------------------------
ReportStage ==
    {"off", "found", "read", "dom", "html", "image", "opening", "drawing", "preview"}
    \union ReportOver

Reports == [at : ReportStage, rendered : BOOLEAN, opened : BOOLEAN, read : Page \union {NoPage},
            found : PageFindings]

LEMMA RenderedIsFound == \A html : RenderedFindings(html) \in PageFindings
  <1> SUFFICES ASSUME NEW html PROVE RenderedFindings(html) \in PageFindings
    OBVIOUS
  <1> DEFINE handler == Finding("xss-inline-handler", "fatal", "handler")
             cookie == Finding("xss-dangerous-html", "info", "cookie")
             H == If(html.handlers, handler)
             K == If(html.sources \union html.inline # {}, cookie)
  <1>1. handler \in PageFinding /\ cookie \in PageFinding
    BY DEF Finding, PageFinding, FindingType, Severity, FindingValue
  <1>2. RenderedFindings(html) = H \o K
    BY DEF RenderedFindings
  <1> HIDE DEF handler, cookie
  <1>3. H \in PageFindings /\ K \in PageFindings
    BY <1>1, IfFinding
  <1> HIDE DEF H, K
  <1> QED
    BY <1>2, <1>3, Concatenated

\* What was found in the page that is read.
ReadIsFound(r) ==
    /\ r.at \notin {"read", "dom", "exit 0", "exit 1"} => r.read = NoPage
    /\ r.at \in {"found", "dom"} => r.found = <<>>
    /\ r.at = "dom" => r.rendered
    /\ r.at = "read" => r.found = IF r.rendered THEN RenderedFindings(r.read) ELSE <<>>

\* What there is of a browser and of directories.
Sweeping(r, v, t) ==
    /\ v \in {"none", "open"}
    /\ v = "open" => r.at \in {"dom", "drawing", "preview"}
    /\ r.at \in {"html", "image", "opening"} => ~r.opened
    /\ r.at \in {"off", "found", "dom", "read", "preview"} => t = {}
    /\ r.at \in {"exit 0", "exit 1"} /\ r.opened => t = {}

ReportInv ==
    /\ page \in Page \union {NoPage} /\ report \in Reports
    /\ ReadIsFound(report) /\ PassedPageIsClean /\ Sweeping(report, view, temp)

LEMMA ReportInitially == ReportInit => ReportInv
  <1> SUFFICES ASSUME ReportInit PROVE ReportInv
    OBVIOUS
  <1>1. <<>> \in PageFindings
    BY DEF PageFindings
  <1>2. report \in Reports
    BY <1>1 DEF ReportInit, Reports, ReportStage, NoReport
  <1> QED
    BY <1>2 DEF ReportInit, ReportInv, NoReport, PassedPageIsClean, ReadIsFound, Sweeping

\* One field of a report is written.
LEMMA ReportMoves ==
  ASSUME NEW r \in Reports, NEW at \in ReportStage
  PROVE  LET moved == [r EXCEPT !.at = at]
         IN  /\ moved \in Reports /\ moved.at = at /\ moved.rendered = r.rendered
             /\ moved.opened = r.opened /\ moved.read = r.read /\ moved.found = r.found
  BY DEF Reports

LEMMA ReportBegins ==
  ASSUME NEW at \in ReportStage, NEW rendered \in BOOLEAN, NEW opened \in BOOLEAN
  PROVE  [at |-> at, rendered |-> rendered, opened |-> opened, read |-> NoPage, found |-> <<>>]
            \in Reports
  <1>1. <<>> \in PageFindings
    BY DEF PageFindings
  <1> QED
    BY <1>1 DEF Reports

\* A command that ends without a page, or that fails, owes no clean page.
LEMMA ReportEnds ==
  ASSUME ReportInv, NEW ok \in BOOLEAN, ExitReport(ok), page' \in Page \union {NoPage},
         ok => report.read = NoPage, view' = "none", report.opened => temp' = {}
  PROVE  ReportInv'
  <1> DEFINE at == IF ok THEN "exit 0" ELSE "exit 1"
  <1>1. at \in ReportStage /\ at \in {"exit 0", "exit 1"} /\ (at = "exit 0" => ok)
    BY DEF ReportStage, ReportOver
  <1>2. report' = [report EXCEPT !.at = at]
    BY DEF ExitReport
  <1> HIDE DEF at
  <1>3. /\ report' \in Reports /\ report'.at = at /\ report'.opened = report.opened
        /\ report'.read = report.read
    BY <1>1, <1>2, ReportMoves DEF ReportInv
  <1> QED
    BY <1>1, <1>3 DEF ReportInv, PassedPageIsClean, ReadIsFound, Sweeping

LEMMA Finds ==
  ASSUME ReportInv, NEW html \in Page \union {NoPage}, NEW rendered \in BOOLEAN,
         FindPage(html, rendered)
  PROVE  ReportInv'
  <1> DEFINE at == IF html = NoPage THEN "exit 1" ELSE "found"
  <1>1. at \in ReportStage /\ at \in {"exit 1", "found"}
    BY DEF ReportStage, ReportOver
  <1>2. report.at = "off" /\ page' = html /\ UNCHANGED <<view, temp>>
    BY DEF FindPage
  <1>3. report' = [at |-> at, rendered |-> rendered, opened |-> FALSE, read |-> NoPage, found |-> <<>>]
    BY DEF FindPage, NoReport
  <1> HIDE DEF at
  <1>4. report' \in Reports
    BY <1>1, <1>3, ReportBegins
  <1> QED
    BY <1>1, <1>2, <1>3, <1>4 DEF ReportInv, PassedPageIsClean, ReadIsFound, Sweeping

LEMMA Changes ==
  ASSUME ReportInv, NEW html \in Page \union {NoPage}, PageChanges(html)
  PROVE  ReportInv'
  BY DEF PageChanges, ReportInv, PassedPageIsClean, ReadIsFound, Sweeping

LEMMA ReadsThePage ==
  ASSUME ReportInv, NEW available \in BOOLEAN, ReadPage(available)
  PROVE  ReportInv'
  <1>1. report.at = "found" /\ UNCHANGED <<page, view, temp>> /\ report \in Reports
    BY DEF ReadPage, ReportInv
  <1>2. CASE page = NoPage
    <2>1. ExitReport(FALSE)
      BY <1>2 DEF ReadPage
    <2> QED
      BY <1>1, <2>1, ReportEnds DEF ReportInv, Sweeping
  <1>3. CASE page # NoPage
    <2> DEFINE at == IF report.rendered /\ available THEN "dom" ELSE "read"
    <2>1. PICK both \in BOOLEAN : both = (report.rendered /\ available)
      OBVIOUS
    <2>2. at \in ReportStage /\ at \in {"dom", "read"} /\ (at = "dom" <=> both)
      BY <2>1 DEF ReportStage
    <2>3. report' = [report EXCEPT !.read = page, !.rendered = both, !.at = at]
      BY <1>3, <2>1 DEF ReadPage
    <2> HIDE DEF at
    <2>4. /\ report' \in Reports /\ report'.at = at /\ report'.rendered = both
          /\ report'.read = page /\ report'.found = report.found /\ report'.opened = report.opened
      BY <1>1, <2>2, <2>3 DEF Reports, ReportInv
    <2>5. report.found = <<>>
      BY <1>1 DEF ReportInv, ReadIsFound
    <2> QED
      BY <1>1, <2>2, <2>4, <2>5 DEF ReportInv, PassedPageIsClean, ReadIsFound, Sweeping
  <1> QED
    BY <1>2, <1>3

LEMMA OpensDom ==
  ASSUME ReportInv, OpenDom
  PROVE  ReportInv'
  <1>1. /\ report \in Reports /\ report.at = "dom" /\ view' = "open" /\ UNCHANGED <<page, temp>>
        /\ report' = [report EXCEPT !.opened = TRUE]
    BY DEF OpenDom, ReportInv
  <1>2. /\ report' \in Reports /\ report'.at = "dom" /\ report'.rendered = report.rendered
        /\ report'.read = report.read /\ report'.found = report.found
    BY <1>1 DEF Reports
  <1> QED
    BY <1>1, <1>2 DEF ReportInv, PassedPageIsClean, ReadIsFound, Sweeping

LEMMA ScansDom ==
  ASSUME ReportInv, NEW fails \in BOOLEAN, ScanRenderedDom(fails)
  PROVE  ReportInv'
  <1>1. /\ report \in Reports /\ report.at = "dom" /\ view' = "none" /\ UNCHANGED <<page, temp>>
        /\ report.rendered /\ temp = {}
    BY DEF ScanRenderedDom, ReportInv, ReadIsFound, Sweeping
  <1>2. CASE fails
    <2>1. ExitReport(FALSE)
      BY <1>2 DEF ScanRenderedDom
    <2> QED
      BY <1>1, <2>1, ReportEnds DEF ReportInv
  <1>3. CASE ~fails
    <2>1. PICK found \in PageFindings : found = RenderedFindings(report.read)
      BY RenderedIsFound
    <2>2. report' = [report EXCEPT !.at = "read", !.found = found]
      BY <1>3, <2>1 DEF ScanRenderedDom
    <2>3. "read" \in ReportStage
      BY DEF ReportStage
    <2>4. /\ report' \in Reports /\ report'.at = "read" /\ report'.rendered = report.rendered
          /\ report'.read = report.read /\ report'.found = found
      BY <1>1, <2>2, <2>3 DEF Reports
    <2> QED
      BY <1>1, <2>1, <2>4 DEF ReportInv, PassedPageIsClean, ReadIsFound, Sweeping
  <1> QED
    BY <1>2, <1>3

\* A scan of a page that is read: it passes only if nothing fatal is found.
LEMMA RunsPass ==
  ASSUME ReportInv, RunSecurityScan
  PROVE  ReportInv'
  <1>1. report \in Reports /\ report.at = "read" /\ UNCHANGED <<page, view, temp>> /\ temp = {}
    BY DEF RunSecurityScan, ReportInv, Sweeping
  <1> DEFINE html == report.read
             together == ScanCspHeaders \o ScanHtmlResponse(html) \o report.found
             ok == \A f \in Deduped(together) : f.severity # "fatal"
             at == IF ok THEN "exit 0" ELSE "exit 1"
  <1>2. together = AllFound(html, report.rendered)
    BY <1>1 DEF AllFound, ReportInv, ReadIsFound
  <1>3. report' = [report EXCEPT !.at = at]
    BY DEF RunSecurityScan, ExitReport
  <1>4. ok => /\ "bad" \notin html.sources
              /\ \A script \in html.inline : "bad" \notin ToSet(script)
              /\ report.rendered => ~html.handlers
    <2> HIDE DEF together
    <2>1. report.rendered \in BOOLEAN
      BY <1>1 DEF Reports
    <2> QED
      BY <1>2, <2>1, FatalIsFound
  <1>5. at \in ReportStage /\ at \in {"exit 0", "exit 1"} /\ (at = "exit 0" => ok)
    BY DEF ReportStage, ReportOver
  <1> HIDE DEF together, ok, at
  <1>6. /\ report' \in Reports /\ report'.at = at /\ report'.rendered = report.rendered
        /\ report'.read = report.read
    BY <1>1, <1>3, <1>5, ReportMoves
  <1>7. PassedPageIsClean'
    BY <1>4, <1>5, <1>6 DEF PassedPageIsClean
  <1>8. Sweeping(report, view, temp)'
    BY <1>1, <1>5, <1>6 DEF Sweeping, ReportInv
  <1> QED
    BY <1>1, <1>5, <1>6, <1>7, <1>8 DEF ReportInv, ReadIsFound

LEMMA BeginsScreenshot ==
  ASSUME ReportInv, NEW available \in BOOLEAN, NEW html \in BOOLEAN, NEW output \in BOOLEAN,
         BeginScreenshot(available, html, output)
  PROVE  ReportInv'
  <1> DEFINE at == IF ~available THEN "exit 1" ELSE IF html THEN "html"
                   ELSE IF output THEN "opening" ELSE "image"
  <1>1. at \in ReportStage /\ at \in {"exit 1", "html", "opening", "image"}
    BY DEF ReportStage, ReportOver
  <1>2. report.at = "off" /\ UNCHANGED <<page, view, temp>>
    BY DEF BeginScreenshot
  <1>3. report' = [at |-> at, rendered |-> FALSE, opened |-> FALSE, read |-> NoPage, found |-> <<>>]
    BY DEF BeginScreenshot, NoReport
  <1> HIDE DEF at
  <1>4. report' \in Reports
    BY <1>1, <1>3, ReportBegins
  <1> QED
    BY <1>1, <1>2, <1>3, <1>4 DEF ReportInv, PassedPageIsClean, ReadIsFound, Sweeping

\* The steps up to a view are those of a command that read no page and opened
\* nothing.
LEMMA Prepares ==
  ASSUME ReportInv, report.at \in {"html", "image"}, NEW at \in {"opening", "image"},
         report' = [report EXCEPT !.at = at], UNCHANGED <<page, view>>
  PROVE  ReportInv'
  <1>1. at \in ReportStage /\ report \in Reports
    BY DEF ReportStage, ReportInv
  <1>2. /\ report' \in Reports /\ report'.at = at /\ report'.read = report.read
        /\ report'.opened = report.opened
    BY <1>1, ReportMoves
  <1> QED
    BY <1>1, <1>2 DEF ReportInv, PassedPageIsClean, ReadIsFound, Sweeping

LEMMA WritesHtml ==
  ASSUME ReportInv, NEW output \in BOOLEAN, NEW fails \in BOOLEAN, WriteHtml(output, fails)
  PROVE  ReportInv'
  <1>1. report.at = "html" /\ UNCHANGED <<page, view>> /\ ~report.opened /\ view = "none"
    BY DEF WriteHtml, ReportInv, Sweeping
  <1>2. CASE fails
    BY <1>1, <1>2, ReportEnds DEF WriteHtml, ReportInv
  <1>3. CASE ~fails
    <2>1. PICK at \in {"opening", "image"} : at = IF output THEN "opening" ELSE "image"
      OBVIOUS
    <2> QED
      BY <1>1, <1>3, <2>1, Prepares DEF WriteHtml
  <1> QED
    BY <1>2, <1>3

LEMMA MakesImageDir ==
  ASSUME ReportInv, NEW fails \in BOOLEAN, MakeImageDir(fails)
  PROVE  ReportInv'
  <1>1. report.at = "image" /\ UNCHANGED <<page, view>> /\ ~report.opened /\ view = "none"
    BY DEF MakeImageDir, ReportInv, Sweeping
  <1>2. CASE fails
    BY <1>1, <1>2, ReportEnds DEF MakeImageDir, ReportInv
  <1>3. CASE ~fails
    BY <1>1, <1>3, Prepares DEF MakeImageDir
  <1> QED
    BY <1>2, <1>3

LEMMA OpensView ==
  ASSUME ReportInv, NEW fails \in BOOLEAN, OpenView(fails)
  PROVE  ReportInv'
  <1>1. /\ report \in Reports /\ report.at = "opening" /\ UNCHANGED <<page, temp>>
        /\ ~report.opened /\ view = "none"
    BY DEF OpenView, ReportInv, Sweeping
  <1>2. CASE fails
    BY <1>1, <1>2, ReportEnds DEF OpenView, ReportInv
  <1>3. CASE ~fails
    <2>1. report' = [report EXCEPT !.at = "drawing", !.opened = TRUE] /\ view' = "open"
      BY <1>3 DEF OpenView
    <2>2. "drawing" \in ReportStage
      BY DEF ReportStage
    <2>3. report' \in Reports /\ report'.at = "drawing" /\ report'.read = report.read
      BY <1>1, <2>1, <2>2 DEF Reports
    <2> QED
      BY <1>1, <2>1, <2>3 DEF ReportInv, PassedPageIsClean, ReadIsFound, Sweeping
  <1> QED
    BY <1>2, <1>3

LEMMA Draws ==
  ASSUME ReportInv, NEW fails \in BOOLEAN, ScreenshotHtml(fails) \/ PreviewHtmlReport(fails)
  PROVE  ReportInv'
  <1>1. PICK ok \in BOOLEAN : ok = ~fails
    OBVIOUS
  <1>2. /\ report.at \in {"drawing", "preview"} /\ view' = "none" /\ UNCHANGED page
        /\ ExitReport(ok) /\ temp' = {}
    BY <1>1 DEF ScreenshotHtml, PreviewHtmlReport, ReportInv, Sweeping
  <1> QED
    BY <1>2, ReportEnds DEF ReportInv, ReadIsFound

LEMMA BeginsPreview ==
  ASSUME ReportInv, NEW available \in BOOLEAN, BeginPreview(available)
  PROVE  ReportInv'
  <1> DEFINE at == IF available THEN "preview" ELSE "exit 1"
  <1>1. at \in ReportStage /\ at \in {"preview", "exit 1"} /\ (at = "preview" <=> available)
    BY DEF ReportStage, ReportOver
  <1>2. /\ report.at = "off" /\ UNCHANGED <<page, temp>>
        /\ view' = IF available THEN "open" ELSE view
    BY DEF BeginPreview
  <1>3. report' = [at |-> at, rendered |-> FALSE, opened |-> available, read |-> NoPage, found |-> <<>>]
    BY DEF BeginPreview, NoReport
  <1> HIDE DEF at
  <1>4. report' \in Reports
    BY <1>1, <1>3, ReportBegins
  <1> QED
    BY <1>1, <1>2, <1>3, <1>4 DEF ReportInv, PassedPageIsClean, ReadIsFound, Sweeping

LEMMA Kills ==
  ASSUME ReportInv, KillReport
  PROVE  ReportInv'
  <1>1. /\ view' = "none" /\ UNCHANGED <<page, temp>>
        /\ report' = [at |-> "killed", rendered |-> FALSE, opened |-> FALSE, read |-> NoPage,
                      found |-> <<>>]
    BY DEF KillReport, NoReport
  <1>2. report' \in Reports
    BY <1>1, ReportBegins DEF ReportStage, ReportOver
  <1> QED
    BY <1>1, <1>2 DEF ReportInv, PassedPageIsClean, ReadIsFound, Sweeping

LEMMA ReportStep == ReportInv /\ [ReportNext]_reportVars => ReportInv'
  <1> SUFFICES ASSUME ReportInv, [ReportNext]_reportVars PROVE ReportInv'
    OBVIOUS
  <1>1. CASE UNCHANGED reportVars
    BY <1>1 DEF reportVars, ReportInv, PassedPageIsClean, ReadIsFound, Sweeping
  <1>2. CASE ReportNext
    BY <1>2, Finds, Changes, ReadsThePage, BeginsPreview, BeginsScreenshot, WritesHtml, ScansDom,
       MakesImageDir, OpensView, Draws, OpensDom, RunsPass, Kills DEF ReportNext
  <1> QED
    BY <1>1, <1>2

LEMMA ReportHolds == ReportInv => ReportIsHonest
  BY DEF ReportInv, ReportIsHonest, BrowserIsSwept, Sweeping

\* A report of a page says that it is clean only if it is, and no report that
\* ends of itself leaves a browser or, once it had one, a directory behind
\* (report.ts, html.ts, web-security.ts, webview.ts).
THEOREM ReportsAreHonest == ReportSpec => []ReportIsHonest
  BY ReportInitially, ReportStep, ReportHolds, PTL DEF ReportSpec

-----------------------------------------------------------------------------
(* Loading a feed: what a stream of lines gives, however it is divided.    *)

SourceAt == SourceOver \union
    {"idle", "file", "default rules", "lookup", "remote", "request", "stream", "cache", "socket"}

\* The lines among the first pieces up to one that is no JSON.
Parsable(p) == {n \in 1 .. p \div 2 : \A k \in 1 .. n : body.lines[k] # "bad"}

SourceTyped ==
    /\ loading \in [at : SourceAt, setting : FeedSetting] /\ body \in Body
    /\ pieces \in Nat /\ readLines \in Nat

\* The parser is through with all lines that arrived up to one that is no
\* JSON, and has the items of those.
Streaming == Parsable(pieces) = 1 .. readLines /\ items = Items(1 .. readLines)

SourceInv ==
    /\ SourceTyped
    /\ loading.at \in {"lookup", "remote", "request", "stream"} => Setting.local = "none"
    /\ loading.at \in {"idle", "lookup", "remote", "request"} =>
          pieces = 0 /\ readLines = 0 /\ items = {}
    /\ loading.at = "request" => Setting.remote \in {"http", "lines"}
    /\ loading.at = "stream" => Streaming
    /\ FeedIsWhole

LEMMA Halves ==
    /\ \A l \in Nat : (2 * l) \div 2 = l
    /\ \A l \in Nat : 2 * l - 1 \in Nat => (2 * l - 1) \div 2 = l - 1
  OBVIOUS

\* They are the first so many lines.
LEMMA ParsableAreInitial ==
  ASSUME NEW p \in Nat
  PROVE  \E m \in Nat : Parsable(p) = 1 .. m
  <1> DEFINE h == p \div 2
             B == {k \in 1 .. h : body.lines[k] = "bad"} \union {h + 1}
  <1>1. h \in Nat
    OBVIOUS
  <1> HIDE DEF h
  <1>2. B \in SUBSET Nat /\ B # {}
    BY <1>1
  <1>3. PICK l \in B : \A n \in B : l <= n
    <2> HIDE DEF B
    <2> QED
      BY <1>2, LeastExists
  <1>4. l \in 1 .. h + 1
    BY <1>1, <1>3
  <1>5. \A k \in 1 .. l - 1 : k \in 1 .. h /\ body.lines[k] # "bad"
    <2> SUFFICES ASSUME NEW k \in 1 .. l - 1 PROVE k \in 1 .. h /\ body.lines[k] # "bad"
      OBVIOUS
    <2>1. k \in 1 .. h /\ k < l
      BY <1>1, <1>4
    <2>2. k \notin B
      <3> HIDE DEF B
      <3> QED
        BY <1>2, <1>3, <2>1
    <2> QED
      BY <2>1, <2>2
  <1>6. l \in 1 .. h => body.lines[l] = "bad"
    BY <1>1, <1>3
  <1> HIDE DEF B
  <1>7. \A n \in 1 .. h : (\A k \in 1 .. n : body.lines[k] # "bad") <=> n <= l - 1
    <2> SUFFICES ASSUME NEW n \in 1 .. h
                 PROVE  (\A k \in 1 .. n : body.lines[k] # "bad") <=> n <= l - 1
      OBVIOUS
    <2>1. CASE n <= l - 1
      BY <1>1, <1>4, <1>5, <2>1
    <2>2. CASE ~(n <= l - 1)
      <3>1. l \in 1 .. n /\ l \in 1 .. h
        BY <1>1, <1>4, <2>2
      <3> QED
        BY <1>6, <2>2, <3>1
    <2> QED
      BY <2>1, <2>2
  <1>8. Parsable(p) = {n \in 1 .. h : \A k \in 1 .. n : body.lines[k] # "bad"}
    BY DEF Parsable, h
  <1>9. Parsable(p) = 1 .. l - 1 /\ l - 1 \in Nat
    BY <1>1, <1>4, <1>7, <1>8
  <1> QED
    BY <1>9

\* More pieces give the lines after those that were parsed.
LEMMA ParsesOn ==
  ASSUME pieces \in Nat, readLines \in Nat, Parsable(pieces) = 1 .. readLines,
         NEW p \in Nat, pieces <= p
  PROVE  \E m \in Nat : /\ readLines <= m /\ Parsable(p) = 1 .. m
                        /\ ParseChunk(p) = readLines + 1 .. m
                        /\ Cardinality(ParseChunk(p)) = m - readLines
  <1>1. PICK m \in Nat : Parsable(p) = 1 .. m
    BY ParsableAreInitial
  <1>2. \A k \in 1 .. readLines : body.lines[k] # "bad"
    BY DEF Parsable
  <1>3. pieces \div 2 \in Nat /\ p \div 2 \in Nat /\ pieces \div 2 <= p \div 2
    OBVIOUS
  <1>4. \A n \in 1 .. readLines : n \in 1 .. p \div 2
    <2>1. \A n \in Parsable(pieces) : n \in 1 .. pieces \div 2
      BY DEF Parsable
    <2>2. PICK from \in Nat, to \in Nat : from = pieces \div 2 /\ to = p \div 2 /\ from <= to
      BY <1>3
    <2>3. \A n \in 1 .. readLines : n \in 1 .. from
      BY <2>1, <2>2
    <2>4. \A n \in 1 .. from : n \in 1 .. to
      BY <2>2
    <2> QED
      BY <2>2, <2>3, <2>4
  <1>5. \A n \in 1 .. readLines : n \in Parsable(p)
    BY <1>2, <1>4 DEF Parsable
  <1>6. readLines <= m
    <2>1. CASE readLines = 0
      BY <2>1
    <2>2. CASE readLines # 0
      <3>1. readLines \in 1 .. readLines
        BY <2>2
      <3> QED
        BY <1>1, <1>5, <3>1
    <2> QED
      BY <2>1, <2>2
  <1>7. \A n \in readLines + 1 .. p \div 2 :
           n \in Parsable(p) <=> \A k \in readLines + 1 .. n : body.lines[k] # "bad"
    <2> SUFFICES ASSUME NEW n \in readLines + 1 .. p \div 2
                 PROVE  n \in Parsable(p) <=> \A k \in readLines + 1 .. n : body.lines[k] # "bad"
      OBVIOUS
    <2>1. n \in 1 .. p \div 2 /\ (\A k \in 1 .. n : k \in 1 .. readLines \/ k \in readLines + 1 .. n)
      BY <1>3
    <2>2. \A k \in readLines + 1 .. n : k \in 1 .. n
      OBVIOUS
    <2> QED
      BY <1>2, <2>1, <2>2 DEF Parsable
  <1>8. ParseChunk(p) = {n \in readLines + 1 .. p \div 2 : n \in Parsable(p)}
    BY <1>7 DEF ParseChunk
  <1>9. \A n \in Parsable(p) : n \in 1 .. p \div 2
    BY DEF Parsable
  <1>10. ParseChunk(p) = readLines + 1 .. m
    BY <1>1, <1>3, <1>8, <1>9
  <1>11. Cardinality(readLines + 1 .. m) = m - readLines
    <2>1. readLines + 1 \in Int /\ m \in Int
      OBVIOUS
    <2>2. Cardinality(readLines + 1 .. m) = IF readLines + 1 > m THEN 0 ELSE m - (readLines + 1) + 1
      BY <2>1, FS_Interval
    <2> QED
      BY <1>6, <2>2
  <1> QED
    BY <1>1, <1>6, <1>10, <1>11

LEMMA ItemsTogether ==
  ASSUME NEW r \in Nat, NEW m \in Nat, r <= m
  PROVE  Items(1 .. r) \union Items(r + 1 .. m) = Items(1 .. m)
  BY DEF Items

LEMMA SourceInitially == SourceInit => SourceInv
  <1> SUFFICES ASSUME SourceInit PROVE SourceInv
    OBVIOUS
  <1>1. (CHOOSE s \in FeedSetting : TRUE) \in FeedSetting /\ (CHOOSE b \in Body : TRUE) \in Body
    BY FeedSourceAssumption
  <1>2. loading.at = "idle" /\ loading \in [at : SourceAt, setting : FeedSetting]
    BY <1>1 DEF SourceInit, SourceAt
  <1> QED
    BY <1>1, <1>2 DEF SourceInit, SourceInv, SourceTyped, FeedIsWhole

LEMMA LoadMoves ==
  ASSUME SourceTyped, NEW at \in SourceAt, To(at)
  PROVE  /\ loading' \in [at : SourceAt, setting : FeedSetting] /\ loading'.at = at
         /\ loading'.setting = Setting
  BY DEF SourceTyped, To, Setting

\* A load that goes on with nothing read, or ends without lines.
LEMMA LoadGoes ==
  ASSUME SourceInv, NEW at \in SourceAt, To(at), at \notin {"stream", "lines", "idle"},
         at \in {"lookup", "remote", "request"} =>
            loading.at \in {"lookup", "remote"},
         at = "request" => Setting.remote \in {"http", "lines"},
         UNCHANGED <<body, pieces, readLines, items>>
  PROVE  SourceInv'
  <1>1. /\ loading' \in [at : SourceAt, setting : FeedSetting] /\ loading'.at = at
        /\ loading'.setting = Setting
    BY LoadMoves DEF SourceInv
  <1> QED
    BY <1>1 DEF SourceInv, SourceTyped, FeedIsWhole, Setting

LEMMA Starts ==
  ASSUME SourceInv, NEW s \in FeedSetting, NEW b \in Body, LoadThreatFeed(s, b)
  PROVE  SourceInv'
  <1>1. /\ FirstStep(s) \in SourceAt /\ FirstStep(s) \notin {"stream", "lines", "idle", "request"}
        /\ FirstStep(s) \in {"lookup", "remote"} => s.local = "none"
    BY DEF FirstStep, SourceAt
  <1>2. /\ loading.at = "idle" /\ loading' = [at |-> FirstStep(s), setting |-> s]
        /\ body' = b /\ UNCHANGED <<pieces, readLines, items>>
    BY DEF LoadThreatFeed
  <1>3. loading' \in [at : SourceAt, setting : FeedSetting]
    BY <1>1, <1>2
  <1> QED
    BY <1>1, <1>2, <1>3 DEF SourceInv, SourceTyped, FeedIsWhole, Setting

LEMMA ReadsFile ==
  ASSUME SourceInv, LoadLines
  PROVE  SourceInv'
  <1>1. /\ loading.at = "file" /\ Setting.local = "lines" /\ To("lines") /\ UNCHANGED body
        /\ readLines' = Len(body.lines) /\ pieces' = 2 * readLines' /\ items' = Items(Whole)
    BY DEF LoadLines
  <1>2. Len(body.lines) \in Nat
    BY FeedSourceAssumption DEF SourceInv, SourceTyped
  <1>3. "lines" \in SourceAt
    BY DEF SourceAt, SourceOver
  <1>4. /\ loading' \in [at : SourceAt, setting : FeedSetting] /\ loading'.at = "lines"
        /\ loading'.setting = Setting
    BY <1>1, <1>3, LoadMoves DEF SourceInv
  <1>5. Items(Whole)' = Items(Whole) /\ Whole' = Whole
    BY <1>1 DEF Items, Whole
  <1>6. {n \in Whole : Setting.local = "none" => \A k \in 1 .. n : body.lines[k] # "bad"}' = Whole'
    BY <1>1, <1>4 DEF Setting
  <1>7. FeedIsWhole'
    BY <1>1, <1>5, <1>6 DEF FeedIsWhole, Items
  <1> QED
    BY <1>1, <1>2, <1>4, <1>7 DEF SourceInv, SourceTyped

LEMMA ReadsChunk ==
  ASSUME SourceInv, NEW n \in Nat, ReadChunk(n)
  PROVE  SourceInv'
  <1>1. /\ loading.at = "stream" /\ UNCHANGED <<loading, body>> /\ pieces' = pieces + n
        /\ readLines' = readLines + Cardinality(ParseChunk(pieces + n))
        /\ items' = items \union Items(ParseChunk(pieces + n))
    BY DEF ReadChunk
  <1>2. PICK p \in Nat : p = pieces + n /\ pieces <= p
    BY DEF SourceInv, SourceTyped
  <1>3. /\ pieces \in Nat /\ readLines \in Nat /\ Parsable(pieces) = 1 .. readLines
        /\ items = Items(1 .. readLines)
    BY <1>1 DEF SourceInv, SourceTyped, Streaming
  <1>4. PICK m \in Nat : /\ readLines <= m /\ Parsable(p) = 1 .. m
                         /\ ParseChunk(p) = readLines + 1 .. m
                         /\ Cardinality(ParseChunk(p)) = m - readLines
    BY <1>2, <1>3, ParsesOn
  <1>5. pieces' = p /\ readLines' = m /\ items' = Items(1 .. m)
    BY <1>1, <1>2, <1>3, <1>4, ItemsTogether
  <1>6. Parsable(p)' = Parsable(p) /\ Items(1 .. m)' = Items(1 .. m)
    BY <1>1 DEF Parsable, Items
  <1>7. Streaming'
    BY <1>4, <1>5, <1>6 DEF Streaming, Parsable, Items
  <1> QED
    BY <1>1, <1>5, <1>7 DEF SourceInv, SourceTyped, FeedIsWhole, Setting

LEMMA EndsStream ==
  ASSUME SourceInv, EndStream
  PROVE  SourceInv'
  <1>1. /\ loading.at = "stream" /\ To("lines") /\ UNCHANGED <<body, pieces>> /\ pieces = BodyEnd
        /\ readLines' = readLines + Cardinality(ParseChunk(pieces))
        /\ items' = items \union Items(ParseChunk(pieces))
    BY DEF EndStream
  <1>2. /\ pieces \in Nat /\ readLines \in Nat /\ Parsable(pieces) = 1 .. readLines
        /\ items = Items(1 .. readLines) /\ Setting.local = "none"
    BY <1>1 DEF SourceInv, SourceTyped, Streaming
  <1>3. PICK m \in Nat : /\ readLines <= m /\ Parsable(pieces) = 1 .. m
                         /\ ParseChunk(pieces) = readLines + 1 .. m
                         /\ Cardinality(ParseChunk(pieces)) = m - readLines
    BY <1>2, ParsesOn
  <1>4. readLines' = m /\ items' = Items(1 .. m)
    BY <1>1, <1>2, <1>3, ItemsTogether
  <1>5. "lines" \in SourceAt
    BY DEF SourceAt, SourceOver
  <1>6. /\ loading' \in [at : SourceAt, setting : FeedSetting] /\ loading'.at = "lines"
        /\ loading'.setting = Setting
    BY <1>1, <1>5, LoadMoves DEF SourceInv
  <1>7. Whole = 1 .. pieces \div 2
    <2>1. Len(body.lines) \in Nat /\ DOMAIN body.lines = 1 .. Len(body.lines)
      BY FeedSourceAssumption DEF SourceInv, SourceTyped
    <2>2. CASE body.cut
      <3>1. pieces = 2 * Len(body.lines) - 1
        BY <1>1, <2>2 DEF BodyEnd
      <3>2. pieces \div 2 = Len(body.lines) - 1
        BY <1>2, <2>1, <3>1, Halves
      <3>3. Whole = {n \in 1 .. Len(body.lines) : n < Len(body.lines)}
        BY <2>1, <2>2 DEF Whole
      <3> QED
        BY <2>1, <3>2, <3>3
    <2>3. CASE ~body.cut
      <3>1. pieces = 2 * Len(body.lines)
        BY <1>1, <2>1, <2>3 DEF BodyEnd
      <3>2. pieces \div 2 = Len(body.lines)
        BY <2>1, <3>1, Halves
      <3> QED
        BY <2>1, <2>3, <3>2 DEF Whole
    <2> QED
      BY <2>2, <2>3
  <1>8. Parsable(pieces) = {n \in Whole : \A k \in 1 .. n : body.lines[k] # "bad"}
    BY <1>7 DEF Parsable
  <1>9. Whole' = Whole
    BY <1>1 DEF Whole
  <1>10. items' = Items({n \in Whole : \A k \in 1 .. n : body.lines[k] # "bad"})
    BY <1>3, <1>4, <1>8
  <1>11. {n \in Whole : Setting.local = "none" => \A k \in 1 .. n : body.lines[k] # "bad"}'
           = {n \in Whole : \A k \in 1 .. n : body.lines[k] # "bad"}
    BY <1>1, <1>2, <1>6, <1>9 DEF Setting
  <1>12. FeedIsWhole'
    BY <1>1, <1>10, <1>11 DEF FeedIsWhole, Items
  <1> QED
    BY <1>1, <1>4, <1>6, <1>12 DEF SourceInv, SourceTyped

\* Of a response that is sound a page is no stream, and what is scanned is none.
LEMMA ParsesItem ==
  ASSUME SourceInv, NEW html \in BOOLEAN, NEW sound \in BOOLEAN, ParseRemoteResponse(html, sound)
  PROVE  SourceInv'
  <1>1. /\ loading.at = "request" /\ UNCHANGED <<body, pieces, readLines, items>>
        /\ Setting.remote \in {"http", "lines"}
    BY DEF ParseRemoteResponse, SourceInv
  <1>2. CASE ~sound
    <2>1. To("threw")
      BY <1>2 DEF ParseRemoteResponse
    <2> QED
      BY <1>1, <2>1, LoadGoes DEF SourceAt, SourceOver
  <1>3. CASE sound /\ Setting.remote = "lines" /\ (html \/ Setting.scanned)
    <2>1. To("document") \/ To("threw")
      BY <1>3 DEF ParseRemoteResponse
    <2> QED
      BY <1>1, <2>1, LoadGoes DEF SourceAt, SourceOver
  <1>4. CASE sound /\ Setting.remote = "lines" /\ ~(html \/ Setting.scanned)
    <2>1. To("stream") /\ "stream" \in SourceAt
      BY <1>4 DEF ParseRemoteResponse, SourceAt
    <2>2. /\ loading' \in [at : SourceAt, setting : FeedSetting] /\ loading'.at = "stream"
          /\ loading'.setting = Setting
      BY <2>1, LoadMoves DEF SourceInv
    <2>3. pieces' = 0 /\ readLines' = 0 /\ items' = {} /\ loading'.setting.local = "none"
      BY <1>1, <2>2 DEF SourceInv, Setting
    <2>4. 0 \div 2 = 0 /\ 1 .. 0 = {}
      OBVIOUS
    <2>5. Streaming'
      BY <2>3, <2>4 DEF Streaming, Parsable, Items
    <2> QED
      BY <1>1, <2>2, <2>3, <2>5 DEF SourceInv, SourceTyped, FeedIsWhole, Setting
  <1>5. CASE sound /\ Setting.remote = "http"
    <2>1. To("document")
      BY <1>5 DEF ParseRemoteResponse
    <2> QED
      BY <1>1, <2>1, LoadGoes DEF SourceAt, SourceOver
  <1> QED
    BY <1>1, <1>2, <1>3, <1>4, <1>5

LEMMA Attempts ==
  ASSUME SourceInv, NEW allowed \in BOOLEAN, Attempt(allowed)
  PROVE  SourceInv'
  <1>1. /\ loading.at = "remote" /\ UNCHANGED <<body, pieces, readLines, items>>
        /\ Setting.remote \in {"http", "lines"} /\ (To("cache") \/ To("request") \/ To("threw"))
    BY DEF Attempt
  <1> QED
    BY <1>1, LoadGoes DEF SourceAt, SourceOver

\* The steps that only say where the load is, or do not even that.
LEMMA LoadPasses ==
  ASSUME SourceInv,
         \/ LoadDefaults \/ OpenSocket \/ AwaitSocket \/ StreamBreaks
         \/ \E ok \in BOOLEAN : LoadDocument(ok) \/ AnswerFromCache(ok)
         \/ \E answer \in {"clean", "blocked", "short-lived", "unresolved"} : Inspect(answer)
  PROVE  SourceInv'
  <1>1. /\ UNCHANGED <<body, pieces, readLines, items>>
        /\ \/ To("defaults") \/ To("socket") \/ To("threw") \/ To("messages") \/ To("document")
           \/ loading.at = "lookup" /\ To("remote")
    BY DEF LoadDefaults, OpenSocket, AwaitSocket, StreamBreaks, LoadDocument, AnswerFromCache, Inspect
  <1> QED
    BY <1>1, LoadGoes DEF SourceAt, SourceOver

LEMMA SourceStep == SourceInv /\ [SourceNext]_sourceVars => SourceInv'
  <1> SUFFICES ASSUME SourceInv, [SourceNext]_sourceVars PROVE SourceInv'
    OBVIOUS
  <1>1. CASE UNCHANGED sourceOwnVars
    BY <1>1 DEF sourceOwnVars, SourceInv, SourceTyped, Streaming, Parsable, FeedIsWhole, Items, Whole,
             Setting
  <1>2. CASE SourceNext /\ ~UNCHANGED sourceOwnVars
    <2>1. \A n \in 1 .. BodyEnd : ReadChunk(n) => n \in Nat
      <3>1. BodyEnd \in Int
        <4>1. Len(body.lines) \in Nat
          BY FeedSourceAssumption DEF SourceInv, SourceTyped
        <4> QED
          BY <4>1 DEF BodyEnd
      <3> QED
        BY <3>1
    <2> QED
      BY <1>2, <2>1, Starts, ReadsFile, ReadsChunk, EndsStream, ParsesItem, Attempts, LoadPasses
         DEF SourceNext
  <1> QED
    BY <1>1, <1>2 DEF sourceVars

\* A JSONL feed that a load returned has the items of its lines, however the
\* body was divided on the way (feed-jsonl.ts:33-122), whatever
\* feeds are configured and whatever they hold.
THEOREM FeedsAreWhole == SourceSpec => []FeedIsWhole
  <1>1. SourceInv => FeedIsWhole
    BY DEF SourceInv
  <1> QED
    BY SourceInitially, SourceStep, <1>1, PTL DEF SourceSpec

-----------------------------------------------------------------------------
(* The types of what the commands hold: the bounds and the fields that     *)
(* none of the arguments above needs.                                      *)

ShellBounds ==
    /\ edits \in 0 .. MaxEdits /\ context \in Config \union {Nothing}
    /\ Len(scans) <= MaxScans /\ forwarders \in 0 .. Len(scans) /\ server \in BOOLEAN

LEMMA ShellBoundsStep == ViewInv /\ LogInv /\ ShellBounds /\ [ShellNext]_shellVars => ShellBounds'
  <1> SUFFICES ASSUME ViewInv, LogInv, ShellBounds, [ShellNext]_shellVars PROVE ShellBounds'
    OBVIOUS
  <1>1. \A d \in Domain : Known(d) => domainFile[d] \in Config
    BY DEF ViewInv, ViewTyped, Known, LoadFails
  <1>2. MaxEdits \in Nat /\ MaxScans \in Nat /\ Len(scans) \in Nat
    BY ShellAssumption DEF LogInv, LogTyped
  <1>3. CASE UNCHANGED shellVars
    BY <1>3 DEF ShellBounds, shellVars, shellFiles, shellView, shellLog, shellHost
  <1>4. CASE \/ (\E d \in Domain \union {Nothing} : InvokeShell(d))
             \/ (\E d \in Domain, json, tty \in BOOLEAN : InvokeScan(d, json, tty))
             \/ (\E d \in Domain : SetDomain(d))
    <2>1. context' \in Config \union {Nothing}
      BY <1>1, <1>4 DEF InvokeShell, InvokeScan, SetDomain, shellView, ShellBounds
    <2>2. UNCHANGED <<edits, scans, forwarders, server>>
      BY <1>4 DEF InvokeShell, InvokeScan, SetDomain, shellFiles, shellLog, shellHost
    <2> QED
      BY <2>1, <2>2 DEF ShellBounds
  <1>5. ASSUME NEW d \in Domain, InvokeStart(d) PROVE ShellBounds'
    <2>1. PICK known \in BOOLEAN : known = Known(d)
      BY DEF Known
    <2>2. UNCHANGED <<edits, scans, forwarders, context>> /\ server' = known
      BY <1>5, <2>1 DEF InvokeStart, shellFiles, shellLog
    <2> QED
      BY <2>2 DEF ShellBounds
  <1>6. CASE \/ (\E code \in {"ok", "failed"} : OneShotEnds(code) \/ InvokeOther(code))
             \/ InvokeUnknown \/ Prompt \/ Leave
    <2>1. UNCHANGED <<edits, scans, forwarders, context, server>>
      BY <1>6 DEF OneShotEnds, InvokeOther, InvokeUnknown, Prompt, Leave, EndSession,
         shellFiles, shellView, shellLog, shellHost
    <2> QED
      BY <2>1 DEF ShellBounds
  <1>7. CASE \/ ListDomains \/ ShowDomain \/ WriteBadge \/ HandleSecrets \/ RunDomainQr \/ RunTls
             \/ PrintHelp \/ ShowFeatures \/ RunBuild
             \/ UseService \/ RefuseScan \/ FollowLog \/ StopFollowing \/ InterruptServer
             \/ \E i \in 1 .. MaxScans : AuditThumbnail(i)
    <2>1. UNCHANGED <<edits, scans, forwarders, context, server>>
      BY <1>7 DEF ListDomains, ShowDomain, WriteBadge, HandleSecrets, RunDomainQr, RunTls,
         PrintHelp, ShowFeatures, RunBuild, Replies, UseService, RefuseScan, FollowLog,
         StopFollowing, InterruptServer, AuditThumbnail, GetService,
         shellFiles, shellView, shellLog, shellHost
    <2> QED
      BY <2>1 DEF ShellBounds
  <1>8. CASE Killed
    BY <1>8 DEF Killed, ShellBounds, shellFiles, shellView, shellLog
  <1>9. ASSUME NEW d \in Domain, NEW content \in Config \union {Absent, Broken},
               EditDomainFile(d, content)
        PROVE  ShellBounds'
    BY <1>2, <1>9 DEF EditDomainFile, ShellBounds, shellView, shellLog, shellHost
  <1>10. CASE \/ \E how \in {"ok", "failed"} : ToolEnds(how)
              \/ \E stored \in BOOLEAN : RecordScan(stored)
    <2>1. UNCHANGED <<edits, forwarders, context, server>>
      BY <1>10 DEF ToolEnds, RecordScan, shellFiles, shellView, shellHost
    <2>2. Len(scans') = Len(scans)
      <3>1. \E s : scans' = [scans EXCEPT ![Len(scans)] = s]
        BY <1>10 DEF ToolEnds, RecordScan
      <3> QED
        BY <3>1 DEF LogInv, LogTyped
    <2> QED
      BY <2>1, <2>2 DEF ShellBounds
  <1>11. CASE StartScan
    <2>1. /\ UNCHANGED <<edits, context, server>> /\ forwarders' = forwarders + 1
          /\ Len(scans) < MaxScans
      BY <1>11 DEF StartScan, GetService, AttachPty, shellFiles
    <2>2. Len(scans') = Len(scans) + 1
      <3>1. \E s : scans' = Append(scans, s)
        BY <1>11 DEF StartScan
      <3> QED
        BY <3>1 DEF LogInv, LogTyped
    <2> QED
      BY <1>2, <2>1, <2>2 DEF ShellBounds
  <1> QED
    BY <1>3, <1>4, <1>5, <1>6, <1>7, <1>8, <1>9, <1>10, <1>11 DEF ShellNext

ShellInv == ViewInv /\ LogInv /\ ShellBounds

LEMMA ShellTypes == ShellInv => ShellTypeOK
  <1> SUFFICES ASSUME ShellInv PROVE ShellTypeOK
    OBVIOUS
  <1>1. \A i \in 1 .. Len(scans) : scans[i] \in Scan
    BY DEF ShellInv, LogInv, LogTyped
  <1>2. \A i \in 1 .. Len(scans) :
            scans[i].domain \in Domain /\ scans[i].ended \in {"no", "ok", "failed"}
    BY <1>1 DEF Scan
  <1>3. forwarders \in 0 .. MaxScans
    BY ShellAssumption DEF ShellInv, ShellBounds, LogInv, LogTyped
  <1>4. service = Nothing \/ (service.domain \in Domain /\ service.config \in Config)
    BY DEF ShellInv, ViewInv, ViewTyped, ShellService
  <1>5. DOMAIN trail = AuditFile
    BY DEF ShellInv, LogInv, LogTyped, Trails
  <1> QED
    BY <1>2, <1>3, <1>4, <1>5 DEF ShellInv, ViewInv, ViewTyped, LogInv, LogTyped, ShellBounds,
       ShellTypeOK, Steps

LEMMA ShellBegins == ShellInit => ShellInv
  <1>1. ShellInit => ShellBounds
    <2>1. MaxEdits \in Nat /\ MaxScans \in Nat /\ Len(<<>>) = 0
      BY ShellAssumption
    <2> SUFFICES ASSUME ShellInit PROVE ShellBounds
      OBVIOUS
    <2>2. /\ edits = 0 /\ context = Nothing /\ scans = <<>>
          /\ forwarders = 0 /\ server = FALSE
      BY DEF ShellInit
    <2>3. edits \in 0 .. MaxEdits /\ Len(scans) <= MaxScans
      BY <2>1, <2>2
    <2>4. forwarders \in 0 .. Len(scans)
      BY <2>1, <2>2
    <2> QED
      BY <2>2, <2>3, <2>4 DEF ShellBounds
  <1> QED
    BY <1>1, ViewInit, LogInit DEF ShellInv

LEMMA ShellGoesOn == ShellInv /\ [ShellNext]_shellVars => ShellInv'
  BY ViewStep, LogStep, ShellBoundsStep DEF ShellInv
-----------------------------------------------------------------------------
\* A domain whose code is asked for exists, and the bounds hold.
QrBounds ==
    /\ \A c \in Command : qr[c].domain \in QrDomain
    /\ overlapped \in BOOLEAN /\ kills \in 0 .. MaxKills

LEMMA QrDomainStays ==
  ASSUME QrInv, QrBounds, NEW c \in Command, NEW q, q.domain \in QrDomain,
         qr' = [qr EXCEPT ![c] = q]
  PROVE  \A e \in Command : qr'[e].domain \in QrDomain
  BY DEF QrInv, CommandTyped, QrBounds

LEMMA QrBoundsStep == QrInv /\ QrBounds /\ [QrNext]_qrVars => QrBounds'
  <1> SUFFICES ASSUME QrInv, QrBounds, [QrNext]_qrVars PROVE QrBounds'
    OBVIOUS
  <1>1. /\ NotBegun.domain \in QrDomain
        /\ \A at : [NotBegun EXCEPT !.at = at].domain \in QrDomain
        /\ \A t : [NotBegun EXCEPT !.at = "shown", !.shown = t].domain \in QrDomain
        /\ \A d \in QrDomain : [NotBegun EXCEPT !.at = "begun", !.domain = d].domain \in QrDomain
    BY QrAssumption DEF NotBegun
  <1>2. \A c \in Command : qr[c] \in QrState
    BY DEF QrInv, CommandTyped
  <1>3. ASSUME NEW c \in Command
        PROVE  /\ \A at : [qr[c] EXCEPT !.at = at].domain \in QrDomain
               /\ \A t : [qr[c] EXCEPT !.at = "token", !.token = t].domain \in QrDomain
               /\ \A s : [qr[c] EXCEPT !.at = "read", !.index = s].domain \in QrDomain
    BY <1>2 DEF QrBounds, QrState
  <1>4. ASSUME UNCHANGED <<qr, overlapped, kills>> PROVE QrBounds'
    BY <1>4 DEF QrBounds
  <1>5. CASE UNCHANGED qrVars \/ \E d \in QrDomain : RotateToken(d) \/ DeleteToken(d)
    BY <1>4, <1>5 DEF qrVars, RotateToken, DeleteToken, SetToken
  <1>6. ASSUME NEW c \in Command, \E q : q.domain \in QrDomain /\ qr' = [qr EXCEPT ![c] = q],
               overlapped' \in BOOLEAN, kills' \in 0 .. MaxKills
        PROVE  QrBounds'
    BY <1>6, QrDomainStays DEF QrBounds
  <1>7. ASSUME NEW c \in Command, NEW d \in QrDomain, BeginQr(c, d) PROVE QrBounds'
    BY <1>1, <1>6, <1>7 DEF BeginQr, QrBounds
  <1>8. ASSUME NEW c \in Command, NEW answered \in SUBSET Name, FindToken(c, answered)
        PROVE  QrBounds'
    <2>1. UNCHANGED <<overlapped, kills>>
      BY <1>8 DEF FindToken
    <2>2. \/ QrEnds(c, "exit 1")
          \/ \E t : qr' = [qr EXCEPT ![c].at = "token", ![c].token = t]
      BY <1>8 DEF FindToken
    <2>3. CASE QrEnds(c, "exit 1")
      BY <1>1, <1>6, <2>1, <2>3 DEF QrEnds, QrBounds
    <2>4. CASE \E t : qr' = [qr EXCEPT ![c].at = "token", ![c].token = t]
      <3>1. PICK t : qr' = [qr EXCEPT ![c].at = "token", ![c].token = t]
        BY <2>4
      <3>2. qr' = [qr EXCEPT ![c] = [qr[c] EXCEPT !.at = "token", !.token = t]]
        BY <3>1
      <3> QED
        BY <1>3, <1>6, <2>1, <3>2 DEF QrBounds
    <2> QED
      BY <2>2, <2>3, <2>4
  <1>9. ASSUME NEW c \in Command, RefuseQr(c) \/ ShowDrawn(c) \/ ShowCached(c) \/ ShowSaved(c)
        PROVE  QrBounds'
    <2>1. /\ UNCHANGED <<overlapped, kills>>
          /\ QrEnds(c, "exit 1") \/ \E t : QrShows(c, t)
      BY <1>9 DEF RefuseQr, ShowDrawn, ShowCached, ShowSaved
    <2> QED
      BY <1>1, <1>6, <2>1 DEF QrEnds, QrShows, QrBounds
  <1>10. ASSUME NEW c \in Command,
                \/ GetCached(c) \/ OpenImage(c) \/ CloseImage(c) \/ OpenIndex(c) \/ CloseIndex(c)
                \/ OpenMapping(c) \/ CloseMapping(c)
         PROVE  QrBounds'
    <2>1. UNCHANGED <<overlapped, kills>> /\ \E at : QrGoes(c, at)
      BY <1>10 DEF GetCached, OpenImage, CloseImage, OpenIndex, CloseIndex, OpenMapping, CloseMapping
    <2>2. PICK at : qr' = [qr EXCEPT ![c].at = at]
      BY <2>1 DEF QrGoes
    <2>3. qr' = [qr EXCEPT ![c] = [qr[c] EXCEPT !.at = at]]
      BY <2>2
    <2> QED
      BY <1>3, <1>6, <2>1, <2>3 DEF QrBounds
  <1>11. ASSUME NEW c \in Command, ReadIndex(c) PROVE QrBounds'
    <2>1. PICK s : qr' = [qr EXCEPT ![c].at = "read", ![c].index = s]
      BY <1>11 DEF ReadIndex
    <2>2. overlapped' \in BOOLEAN
      BY <1>11 DEF ReadIndex
    <2>3. qr' = [qr EXCEPT ![c] = [qr[c] EXCEPT !.at = "read", !.index = s]]
      BY <2>1
    <2>4. kills' \in 0 .. MaxKills
      BY <1>11 DEF ReadIndex, QrBounds
    <2> QED
      BY <1>3, <1>6, <2>2, <2>3, <2>4
  <1>12. ASSUME NEW c \in Command, KillQr(c) PROVE QrBounds'
    <2>1. kills' \in 0 .. MaxKills /\ overlapped' = overlapped /\ QrEnds(c, "killed")
      BY <1>12, QrAssumption DEF KillQr, QrBounds
    <2> QED
      BY <1>1, <1>6, <2>1 DEF QrEnds, QrBounds
  <1> QED
    BY <1>5, <1>7, <1>8, <1>9, <1>10, <1>11, <1>12 DEF QrNext, Save

QrFull == QrInv /\ FilesTyped /\ (Undisturbed => IndexInv) /\ QrBounds

LEMMA QrTypes == QrFull => QrTypeOK
  <1> SUFFICES ASSUME QrFull PROVE QrTypeOK
    OBVIOUS
  <1>1. ASSUME NEW c \in Command
        PROVE  /\ qr[c].at \in {"none", "begun", "token", "cached", "missing", "drawn"}
                                \union Saving \union QrOver
               /\ qr[c].domain \in QrDomain
               /\ {qr[c].token, qr[c].shown} \subseteq Token \union {NoMaster}
               /\ qr[c].index \subseteq Image /\ held[c] \subseteq Token
    <2>1. qr[c] \in QrState /\ held[c] \subseteq Token
      BY DEF QrFull, QrInv, CommandTyped
    <2> QED
      BY <2>1 DEF QrState, Begun, QrFull, QrBounds
  <1> QED
    BY <1>1 DEF QrFull, QrInv, MasterTyped, ImageTyped, IndexTyped, FilesTyped, QrBounds, QrTypeOK

LEMMA QrBegins == QrInit => QrFull
  <1>1. QrInit => QrBounds
    <2>1. NotBegun.domain \in QrDomain /\ MaxKills \in Nat
      BY QrAssumption DEF NotBegun
    <2> SUFFICES ASSUME QrInit PROVE QrBounds
      OBVIOUS
    <2>2. qr = [c \in Command |-> NotBegun] /\ overlapped = FALSE /\ kills = 0
      BY DEF QrInit
    <2>3. kills \in 0 .. MaxKills
      BY <2>1, <2>2
    <2> QED
      BY <2>1, <2>2, <2>3 DEF QrBounds
  <1>2. QrInit => FilesTyped
    BY DEF QrInit, FilesTyped
  <1> QED
    BY <1>1, <1>2, QrInitInv, IndexInit DEF QrFull

LEMMA QrGoesOn == QrFull /\ [QrNext]_qrVars => QrFull'
  BY QrStep, FilesStep, IndexStep, QrBoundsStep DEF QrFull
-----------------------------------------------------------------------------
\* The children and their calls.
Children == [state : {"none", "running", "ended"}, printed : 0 .. Portions,
             code : {"none", "ok", "failed"}, sent : {"none"} \union Signals,
             signal : {"none"} \union Signals, reads : BOOLEAN, held : BOOLEAN]
ToolCalls == [state : {"none", "waiting", "reading", "over"}, code : {"none", "ok", "failed"},
              output : 0 .. Portions, timedOut : BOOLEAN, killSignal : Signals]

LEMMA NoChildType ==
    /\ NoChild \in Children /\ NoCall \in ToolCalls
    /\ \A reads \in BOOLEAN : [NoChild EXCEPT !.state = "running", !.reads = reads] \in Children
    /\ \A s \in Signals : [NoCall EXCEPT !.state = "waiting", !.killSignal = s] \in ToolCalls
  <1>1. PICK none \in 0 .. Portions : none = 0
    BY ToolAssumption
  <1>2. \A reads \in BOOLEAN, state \in {"none", "running"} :
            [state |-> state, printed |-> none, code |-> "none", sent |-> "none",
             signal |-> "none", reads |-> reads, held |-> FALSE] \in Children
    BY DEF Children
  <1>3. \A s \in Signals, state \in {"none", "waiting"} :
            [state |-> state, code |-> "none", output |-> none, timedOut |-> FALSE,
             killSignal |-> s] \in ToolCalls
    BY DEF ToolCalls
  <1>4. "SIGTERM" \in Signals
    BY DEF Signals
  <1>5. NoChild \in Children
    BY <1>1, <1>2 DEF NoChild
  <1>6. NoCall \in ToolCalls
    BY <1>1, <1>3, <1>4 DEF NoCall
  <1>7. \A reads \in BOOLEAN : [NoChild EXCEPT !.state = "running", !.reads = reads] \in Children
    BY <1>5 DEF Children
  <1>8. \A s \in Signals : [NoCall EXCEPT !.state = "waiting", !.killSignal = s] \in ToolCalls
    BY <1>6 DEF ToolCalls
  <1> QED
    BY <1>5, <1>6, <1>7, <1>8

LEMMA ToolBegins == ToolInit => ToolTypeOK
  <1> SUFFICES ASSUME ToolInit PROVE ToolTypeOK
    OBVIOUS
  <1>1. child \in [Tool -> Children] /\ call \in [Tool -> ToolCalls]
    BY NoChildType DEF ToolInit
  <1> QED
    BY <1>1 DEF ToolInit, ToolTypeOK, Children, ToolCalls

LEMMA ToolGoesOn == ToolTypeOK /\ [ToolNext]_toolVars => ToolTypeOK'
  <1> SUFFICES ASSUME ToolTypeOK, [ToolNext]_toolVars PROVE ToolTypeOK'
    OBVIOUS
  <1>1. /\ child \in [Tool -> Children] /\ call \in [Tool -> ToolCalls]
        /\ aborted \in BOOLEAN /\ all \in {"idle", "under way", "over"}
    BY DEF ToolTypeOK, Children, ToolCalls
  <1>2. ASSUME child' \in [Tool -> Children], call' \in [Tool -> ToolCalls],
               aborted' \in BOOLEAN, all' \in {"idle", "under way", "over"}
        PROVE  ToolTypeOK'
    BY <1>2 DEF ToolTypeOK, Children, ToolCalls
  <1>3. ASSUME NEW found \in SUBSET Tool, NEW ahead \in SUBSET Tool, NEW s \in Signals,
               RunAvailable(found, ahead, s)
        PROVE  ToolTypeOK'
    <2>1. \A t \in Tool : (t \in ahead) \in BOOLEAN
      OBVIOUS
    <2>2. \A t \in Tool : [NoChild EXCEPT !.state = "running", !.reads = t \in ahead] \in Children
      BY <2>1, NoChildType
    <2>3. child' \in [Tool -> Children] /\ call' \in [Tool -> ToolCalls]
      BY <1>3, <2>2, NoChildType DEF RunAvailable
    <2> QED
      BY <1>1, <1>2, <1>3, <2>3 DEF RunAvailable
  <1>4. ASSUME NEW t \in Tool, NEW r \in Children, child' = [child EXCEPT ![t] = r],
               UNCHANGED <<call, aborted, all>>
        PROVE  ToolTypeOK'
    BY <1>1, <1>2, <1>4
  <1>5. ASSUME NEW t \in Tool, NEW r \in ToolCalls, call' = [call EXCEPT ![t] = r],
               UNCHANGED <<child, aborted, all>>
        PROVE  ToolTypeOK'
    BY <1>1, <1>2, <1>5
  <1>6. ASSUME NEW t \in Tool, Prints(t) PROVE ToolTypeOK'
    <2>1. child[t] \in Children
      BY <1>1
    <2>2. PICK n \in 0 .. Portions : n = child[t].printed + 1
      <3>1. child[t].printed \in 0 .. Portions /\ child[t].printed < Portions
        BY <1>6, <2>1 DEF Prints, Children
      <3> QED
        BY <3>1, ToolAssumption
    <2>3. [child[t] EXCEPT !.printed = n] \in Children
      BY <2>1 DEF Children
    <2>4. /\ child' = [child EXCEPT ![t] = [child[t] EXCEPT !.printed = n]]
          /\ UNCHANGED <<call, aborted, all>>
      BY <1>6, <2>2 DEF Prints
    <2> QED
      BY <1>4, <2>3, <2>4
  <1>7. ASSUME NEW t \in Tool, (\E code \in {"ok", "failed"} : Exit(t, code)) \/ SignalFells(t)
        PROVE  ToolTypeOK'
    <2>1. child[t] \in Children
      BY <1>1
    <2>2. child[t].sent \in {"none"} \union Signals
      BY <2>1 DEF Children
    <2>3. PICK code \in {"ok", "failed"}, signal \in {"none"} \union Signals :
             Ended(t, code, signal)
      BY <1>7, <2>2 DEF Exit, SignalFells
    <2>4. PICK holds \in BOOLEAN : child' = [child EXCEPT ![t] =
              [child[t] EXCEPT !.state = "ended", !.code = code, !.signal = signal, !.held = holds]]
      BY <2>3 DEF Ended
    <2>5. [child[t] EXCEPT !.state = "ended", !.code = code, !.signal = signal, !.held = holds]
             \in Children
      BY <2>1 DEF Children
    <2>6. UNCHANGED <<call, aborted, all>>
      BY <1>7 DEF Exit, SignalFells
    <2> QED
      BY <1>4, <2>4, <2>5, <2>6
  <1>8. ASSUME NEW t \in Tool, PipesClose(t) PROVE ToolTypeOK'
    <2>1. [child[t] EXCEPT !.held = FALSE] \in Children
      BY <1>1 DEF Children
    <2>2. /\ child' = [child EXCEPT ![t] = [child[t] EXCEPT !.held = FALSE]]
          /\ UNCHANGED <<call, aborted, all>>
      BY <1>8 DEF PipesClose
    <2> QED
      BY <1>4, <2>1, <2>2
  <1>9. \A t \in Tool : [child[t] EXCEPT !.sent = call[t].killSignal] \in Children
    <2> SUFFICES ASSUME NEW t \in Tool
                 PROVE  [child[t] EXCEPT !.sent = call[t].killSignal] \in Children
      OBVIOUS
    <2>1. child[t] \in Children /\ call[t] \in ToolCalls
      BY <1>1
    <2>2. PICK s \in Signals : s = call[t].killSignal
      BY <2>1 DEF ToolCalls
    <2>3. [child[t] EXCEPT !.sent = s] \in Children
      BY <2>1 DEF Children
    <2> QED
      BY <2>2, <2>3
  <1>10. ASSUME NEW t \in Tool, Timeout(t) PROVE ToolTypeOK'
    <2>1. /\ child' = [child EXCEPT ![t] = [child[t] EXCEPT !.sent = call[t].killSignal]]
          /\ UNCHANGED <<call, aborted, all>>
      BY <1>10 DEF Timeout
    <2> QED
      BY <1>4, <1>9, <2>1
  <1>11. CASE Abort
    <2>1. child' \in [Tool -> Children]
      BY <1>1, <1>9, <1>11 DEF Abort
    <2> QED
      BY <1>1, <1>2, <1>11, <2>1 DEF Abort
  <1>12. ASSUME NEW t \in Tool, Exited(t) PROVE ToolTypeOK'
    <2>1. child[t] \in Children /\ call[t] \in ToolCalls
      BY <1>1
    <2>2. PICK late \in BOOLEAN : late = WasSpawnTimedOut(t)
      BY DEF WasSpawnTimedOut
    <2>3. PICK state \in {"over", "reading"} : state = IF late THEN "over" ELSE "reading"
      OBVIOUS
    <2>4. PICK code \in {"none", "ok", "failed"} : code = child[t].code
      BY <2>1 DEF Children
    <2>5. [call[t] EXCEPT !.code = code, !.timedOut = late, !.state = state] \in ToolCalls
      BY <2>1 DEF ToolCalls
    <2>6. call' = [call EXCEPT ![t] =
                     [call[t] EXCEPT !.code = code, !.timedOut = late, !.state = state]]
      BY <1>12, <2>2, <2>3, <2>4 DEF Exited
    <2>7. UNCHANGED <<child, aborted, all>>
      BY <1>12 DEF Exited
    <2> QED
      BY <1>5, <2>5, <2>6, <2>7
  <1>13. ASSUME NEW t \in Tool, ReadPipes(t) PROVE ToolTypeOK'
    <2>1. child[t] \in Children /\ call[t] \in ToolCalls
      BY <1>1
    <2>2. PICK n \in 0 .. Portions : n = child[t].printed
      BY <2>1 DEF Children
    <2>3. [call[t] EXCEPT !.output = n, !.state = "over"] \in ToolCalls
      BY <2>1 DEF ToolCalls
    <2>4. /\ call' = [call EXCEPT ![t] = [call[t] EXCEPT !.output = n, !.state = "over"]]
          /\ UNCHANGED <<child, aborted, all>>
      BY <1>13, <2>2 DEF ReadPipes
    <2> QED
      BY <1>5, <2>3, <2>4
  <1>14. CASE AllOver
    BY <1>1, <1>2, <1>14 DEF AllOver
  <1>15. CASE UNCHANGED toolVars
    BY <1>1, <1>2, <1>15 DEF toolVars
  <1> QED
    BY <1>3, <1>6, <1>7, <1>8, <1>10, <1>11, <1>12, <1>13, <1>14, <1>15 DEF ToolNext

-----------------------------------------------------------------------------
\* The commands for secrets, the contexts and the token of a client.
CsrfRest ==
    /\ locked \in BOOLEAN /\ locks \in 0 .. MaxLocks
    /\ vaultRun \in [VaultCommand -> Kind \union {"none", "exit 0", "exit 1"}]
    /\ promise \in [Service -> AnySecret \union {Pending, NoBody}]
    /\ clientToken \in [secret : Secret, session : Session \union {NoSession}] \union {NoCsrfToken}

CsrfFull == CsrfInv /\ CsrfRest

LEMMA CsrfTypes == CsrfFull => CsrfTypeOK
  <1> SUFFICES ASSUME CsrfFull PROVE CsrfTypeOK
    OBVIOUS
  <1>1. ASSUME NEW s \in Service
        PROVE  /\ services[s].at \in {"none", "waiting", "serving", "stopped"}
               /\ services[s].bound \in BOOLEAN
               /\ services[s].secret \in AnySecret /\ services[s].since \subseteq AnySecret
    <2>1. services[s] \in ServiceState
      BY DEF CsrfFull, CsrfInv
    <2> QED
      BY <2>1 DEF ServiceState
  <1>2. ASSUME NEW s \in Service, services[s].at = "waiting"
        PROVE  promise[services[s].uses] # NoBody
    <2>1. Holds(promise[services[s].uses], services[s].since)
      BY <1>2 DEF CsrfFull, CsrfInv, ServiceHolds
    <2>2. NoBody \notin {Pending, Empty} \union AnySecret
      BY CsrfAssumption DEF AnySecret, Secret
    <2> QED
      BY <1>1, <2>1, <2>2 DEF Holds
  <1> QED
    BY <1>1, <1>2 DEF CsrfFull, CsrfRest, CsrfInv, AnySecret, CsrfTypeOK

LEMMA CsrfBegins == CsrfInit => CsrfFull
  <1>1. CsrfInit => CsrfRest
    <2> SUFFICES ASSUME CsrfInit PROVE CsrfRest
      OBVIOUS
    <2>1. locks \in 0 .. MaxLocks
      BY CsrfAssumption DEF CsrfInit
    <2> QED
      BY <2>1 DEF CsrfInit, CsrfRest
  <1> QED
    BY <1>1, CsrfInitially DEF CsrfFull

LEMMA CsrfGoesOn == CsrfFull /\ [CsrfNext]_csrfVars => CsrfFull'
  <1> SUFFICES ASSUME CsrfInv, CsrfRest, [CsrfNext]_csrfVars PROVE CsrfRest'
    BY CsrfStep DEF CsrfFull
  <1>1. CASE UNCHANGED csrfVars \/ Reload
    BY <1>1 DEF csrfVars, Reload, CsrfRest
  <1>2. CASE Lock
    <2>1. locks' \in 0 .. MaxLocks
      <3>1. locks \in 0 .. MaxLocks /\ locks < MaxLocks /\ locks' = locks + 1
        BY <1>2 DEF Lock, CsrfRest
      <3> QED
        BY <3>1, CsrfAssumption
    <2>2. locked' \in BOOLEAN
      BY <1>2 DEF Lock
    <2> QED
      BY <1>2, <2>1, <2>2 DEF Lock, CsrfRest
  <1>3. ASSUME NEW c \in VaultCommand,
               \/ \E kind \in Kind : BeginCommand(c, kind)
               \/ \E refused \in BOOLEAN : RotateSecret(c, refused) \/ SetSecret(c, refused)
               \/ DeleteSecret(c) \/ GetSecret(c) \/ ReadStatus(c) \/ VaultDoctor(c)
        PROVE  CsrfRest'
    <2>1. UNCHANGED <<locked, locks, promise, clientToken>>
      BY <1>3 DEF BeginCommand, RotateSecret, SetSecret, DeleteSecret, GetSecret, ReadStatus,
         VaultDoctor, Reads
    <2>2. \E how \in Kind \union {"exit 0", "exit 1"} : vaultRun' = [vaultRun EXCEPT ![c] = how]
      BY <1>3 DEF BeginCommand, RotateSecret, SetSecret, DeleteSecret, GetSecret, ReadStatus,
         VaultDoctor, Reads, Ends
    <2> QED
      BY <2>1, <2>2 DEF CsrfRest
  <1>4. ASSUME NEW s \in Service, NEW bound \in BOOLEAN, BeginService(s, bound) PROVE CsrfRest'
    <2>1. /\ UNCHANGED <<locked, locks, vaultRun, clientToken>>
          /\ promise' = [promise EXCEPT ![s] = Pending] \/ promise' = promise
      BY <1>4 DEF BeginService
    <2> QED
      BY <2>1 DEF CsrfRest
  <1>5. ASSUME NEW s \in Service, ReadSecret(s) PROVE CsrfRest'
    <2>1. UNCHANGED <<locked, locks, vaultRun, clientToken>>
      BY <1>5 DEF ReadSecret
    <2>2. PICK new \in AnySecret : promise' = [promise EXCEPT ![s] = new]
      BY <1>5 DEF ReadSecret, CsrfInv, AnySecret
    <2> QED
      BY <2>1, <2>2 DEF CsrfRest
  <1>6. ASSUME NEW s \in Service, ServiceServes(s) \/ CloseService(s) PROVE CsrfRest'
    BY <1>6 DEF ServiceServes, CloseService, CsrfRest
  <1>7. ASSUME NEW s \in Service, NEW session \in Session \union {NoSession},
               IssueToken(s, session)
        PROVE  CsrfRest'
    <2>1. UNCHANGED <<locked, locks, vaultRun, promise>>
      BY <1>7 DEF IssueToken
    <2>2. services[s].secret \in Secret
      <3>1. services[s] \in ServiceState /\ services[s].secret # Empty
        BY <1>7 DEF IssueToken, Guarded, CsrfInv
      <3> QED
        BY <3>1 DEF ServiceState, AnySecret
    <2>3. TokenSession(s, session) \in Session \union {NoSession}
      BY DEF TokenSession
    <2> QED
      BY <1>7, <2>1, <2>2, <2>3 DEF IssueToken, CsrfRest
  <1> QED
    BY <1>1, <1>2, <1>3, <1>4, <1>5, <1>6, <1>7 DEF CsrfNext
-----------------------------------------------------------------------------
\* The bounds of `sp doctor` and the versions that it saw.
DoctorBounds ==
    /\ fileChanges \in 0 .. MaxFileChanges /\ killed \in 0 .. MaxDoctorKills
    /\ \A p \in Process : \A s \in seen[p] : s.vault \in [Id -> Vault] /\ DOMAIN s.file = Path

DoctorFull == DoctorInv /\ DoctorBounds

LEMMA DoctorTypes == DoctorFull => DoctorTypeOK
  <1> SUFFICES ASSUME DoctorFull PROVE DoctorTypeOK
    OBVIOUS
  <1>1. ASSUME NEW p \in Process
        PROVE  /\ doctor[p].at \in {"off", "public", "private", "load", "metadata", "secrets",
                                    "master key", "rest", "pages", "index", "exit"}
                                     \union LoadStep \union DoctorOver
               /\ doctor[p].drift \in {"unknown", "no baseline", "drift", "quiet"}
               /\ doctor[p].todo \subseteq Path /\ doctor[p].reports \subseteq Report
    <2>1. doctor[p] \in DoctorState
      BY DEF DoctorFull, DoctorInv, FilesOk
    <2> QED
      BY <2>1 DEF DoctorState, Busy, Examining, Judging
  <1>2. snapshot.is \in {"none", "torn", "whole"} /\ snapshot.reports \subseteq Report
    BY DEF DoctorFull, DoctorInv, FilesOk
  <1> QED
    BY <1>1, <1>2 DEF DoctorFull, DoctorInv, DoctorBounds, FilesOk, MaybeContent, DoctorTypeOK

LEMMA DoctorBegins == DoctorInit => DoctorFull
  <1> SUFFICES ASSUME DoctorInit PROVE DoctorBounds
    BY DoctorInitially DEF DoctorFull
  <1>1. fileChanges \in 0 .. MaxFileChanges /\ killed \in 0 .. MaxDoctorKills
    BY DoctorAssumption DEF DoctorInit
  <1> QED
    BY <1>1 DEF DoctorInit, DoctorBounds

LEMMA DoctorGoesOn == DoctorFull /\ [DoctorNext]_doctorVars => DoctorFull'
  <1> SUFFICES ASSUME DoctorInv, DoctorBounds, [DoctorNext]_doctorVars PROVE DoctorBounds'
    BY DoctorStep DEF DoctorFull
  <1>1. \A w \in {OnDisk, OnDisk'} : w.vault \in [Id -> Vault] /\ DOMAIN w.file = Path
    <2>1. DoctorInv'
      BY DoctorStep
    <2> QED
      BY <2>1 DEF DoctorInv, FilesOk, OnDisk
  <1>2. DOMAIN seen = Process
    BY DEF DoctorInv, FilesOk
  <1>3. CASE UNCHANGED doctorVars
    BY <1>3 DEF doctorVars, DoctorBounds
  <1>4. CASE \/ \E f \in Path, content \in FileChange : ChangeFile(f, content)
             \/ \E i \in Id, content \in VaultChange : ChangeVault(i, content)
    <2>1. Changed
      BY <1>4 DEF ChangeFile, ChangeVault
    <2>2. fileChanges' \in 0 .. MaxFileChanges
      <3>1. /\ fileChanges \in 0 .. MaxFileChanges /\ fileChanges < MaxFileChanges
            /\ fileChanges' = fileChanges + 1
        BY <2>1 DEF Changed, DoctorBounds
      <3> QED
        BY <3>1, DoctorAssumption
    <2>3. \A p \in Process : \A s \in seen'[p] : s \in seen[p] \/ s = OnDisk'
      BY <2>1 DEF Changed
    <2>4. killed' \in 0 .. MaxDoctorKills
      BY <2>1 DEF Changed, DoctorBounds
    <2> QED
      BY <1>1, <2>2, <2>3, <2>4 DEF DoctorBounds
  <1>5. ASSUME NEW p \in Process,
               \/ \E warnings \in BOOLEAN : PeerMetaOnly(p, warnings)
               \/ \E update \in BOOLEAN : CompareSnapshot(p, update)
               \/ ReadPublicFile(p) \/ CheckPublic(p) \/ LoadConfig(p) \/ LoadInventory(p)
               \/ CheckPrivateFile(p) \/ CheckEncryptedStore(p) \/ CheckMasterKey(p)
               \/ CheckRest(p) \/ OpenSnapshot(p) \/ CloseSnapshot(p)
        PROVE  DoctorBounds'
    <2>1. UNCHANGED <<fileChanges, killed, seen>>
      BY <1>5 DEF PeerMetaOnly, CompareSnapshot, ReadPublicFile, CheckPublic, LoadConfig,
         LoadInventory, ReadNext, CheckPrivateFile, CheckEncryptedStore, CheckMasterKey, CheckRest,
         OpenSnapshot, CloseSnapshot, Written, Project
    <2> QED
      BY <2>1 DEF DoctorBounds
  <1>6. ASSUME NEW p \in Process,
               \/ \E setting \in RunSetting : BeginDoctor(p, setting)
               \/ \E errors \in BOOLEAN : ExitDoctor(p, errors)
        PROVE  DoctorBounds'
    <2>1. UNCHANGED <<fileChanges, killed>>
      BY <1>6 DEF BeginDoctor, ExitDoctor, Project
    <2>2. PICK S \in SUBSET {OnDisk} : seen' = [seen EXCEPT ![p] = S]
      BY <1>6 DEF BeginDoctor, ExitDoctor
    <2>3. \A q \in Process : \A s \in seen'[q] : s \in seen[q] \/ s = OnDisk
      BY <1>2, <2>2
    <2> QED
      BY <1>1, <2>1, <2>3 DEF DoctorBounds
  <1>7. ASSUME NEW p \in Process, KillDoctor(p) PROVE DoctorBounds'
    <2>1. killed' \in 0 .. MaxDoctorKills
      <3>1. killed \in 0 .. MaxDoctorKills /\ killed < MaxDoctorKills /\ killed' = killed + 1
        BY <1>7 DEF KillDoctor, DoctorBounds
      <3> QED
        BY <3>1, DoctorAssumption
    <2>2. UNCHANGED fileChanges /\ seen' = [seen EXCEPT ![p] = {}]
      BY <1>7 DEF KillDoctor
    <2>3. \A q \in Process : \A s \in seen'[q] : s \in seen[q]
      BY <1>2, <2>2
    <2> QED
      BY <2>1, <2>2, <2>3 DEF DoctorBounds
  <1> QED
    BY <1>3, <1>4, <1>5, <1>6, <1>7 DEF DoctorNext

-----------------------------------------------------------------------------
\* The connection of a feed's socket, and what a payload gives.
LEMMA PayloadType == \A messages : Payload(messages) \subseteq Rules \union NoFeed
  <1> SUFFICES ASSUME NEW messages PROVE Payload(messages) \subseteq Rules \union NoFeed
    OBVIOUS
  <1> DEFINE payload == Solid(messages)
             kinds == [n \in DOMAIN payload |-> payload[n].kind]
  <1>1. CASE payload = <<>>
    BY <1>1 DEF Payload
  <1>2. CASE payload # <<>> /\ kinds[1] \in {"document", "head", "line"}
    <2>1. Payload(messages) = IF kinds \in {<<"document">>, <<"head", "rest">>} THEN Rules ELSE NoFeed
      BY <1>2 DEF Payload
    <2> QED
      BY <2>1
  <1>3. CASE payload # <<>> /\ ~(kinds[1] \in {"document", "head", "line"})
    <2>1. Payload(messages) = LinesOf(payload)
      BY <1>3 DEF Payload
    <2> QED
      BY <2>1 DEF LinesOf
  <1> QED
    BY <1>1, <1>2, <1>3

LEMMA SocketBegins == SocketInit => SocketTypeOK
  <1> SUFFICES ASSUME SocketInit PROVE SocketTypeOK
    OBVIOUS
  <1>1. <<>> \in Seq(Message) /\ Len(<<>>) <= MaxMessages
    BY SocketAssumption
  <1> QED
    BY <1>1 DEF SocketInit, SocketTypeOK

\* A load is settled with a feed if there is one.
LEMMA SettlesTyped ==
  ASSUME SocketTypeOK, NEW how \in {"feed", "timed out", "failed", "closed"},
         NEW rules \in SUBSET (Rules \union NoFeed), how = "feed" <=> rules # NoFeed,
         Settles(how, rules)
  PROVE  /\ settled' \in {"no", "feed", "timed out", "failed", "closed"}
         /\ feed' \subseteq Rules \union NoFeed /\ timer' \in {"none", "set", "fired", "cleared"}
         /\ settled' = "feed" <=> feed' # NoFeed
  BY DEF SocketTypeOK, Settles

LEMMA SocketGoesOn == SocketTypeOK /\ [SocketNext \/ Connect]_socketVars => SocketTypeOK'
  <1> SUFFICES ASSUME SocketTypeOK, [SocketNext \/ Connect]_socketVars PROVE SocketTypeOK'
    OBVIOUS
  <1>1. /\ line \in {"none", "open", "closed", "failed"}
        /\ arriving \in Seq(Message) /\ sent \in Seq(Message) /\ Len(sent) <= MaxMessages
        /\ chunks \in Seq(Message)
    BY DEF SocketTypeOK
  <1>2. ASSUME NEW m \in Message, Send(m) PROVE SocketTypeOK'
    <2>1. /\ arriving' \in Seq(Message) /\ sent' \in Seq(Message) /\ Len(sent') <= MaxMessages
      <3>1. Len(sent') = Len(sent) + 1 /\ Len(sent) < MaxMessages
        BY <1>1, <1>2 DEF Send
      <3>2. arriving' \in Seq(Message) /\ sent' \in Seq(Message)
        BY <1>1, <1>2 DEF Send
      <3> QED
        BY <1>1, <3>1, <3>2, SocketAssumption
    <2> QED
      BY <1>2, <2>1 DEF Send, SocketTypeOK
  <1>3. CASE Connect \/ \E how \in {"closed", "failed"} : Disconnect(how)
    BY <1>3 DEF Connect, Disconnect, SocketTypeOK
  <1>4. CASE OnMessage
    <2>1. arriving' \in Seq(Message) /\ chunks' \in Seq(Message) /\ sent' = sent
      BY <1>1, <1>4 DEF OnMessage
    <2>2. PICK rules \in SUBSET (Rules \union NoFeed) : rules = Payload(chunks')
      BY PayloadType
    <2>3. CASE rules = NoFeed
      BY <1>4, <2>1, <2>2, <2>3 DEF OnMessage, SocketTypeOK
    <2>4. CASE rules # NoFeed
      <3>1. Settles("feed", rules) /\ line' = IF line = "open" THEN "closed" ELSE line
        BY <1>4, <2>2, <2>4 DEF OnMessage
      <3>2. /\ settled' \in {"no", "feed", "timed out", "failed", "closed"}
            /\ feed' \subseteq Rules \union NoFeed /\ timer' \in {"none", "set", "fired", "cleared"}
            /\ settled' = "feed" <=> feed' # NoFeed
        BY <2>4, <3>1, SettlesTyped
      <3> QED
        BY <1>1, <2>1, <3>1, <3>2 DEF SocketTypeOK
    <2> QED
      BY <2>3, <2>4
  <1>5. CASE OnError
    <2>1. Settles("failed", NoFeed) /\ line' = "closed" /\ UNCHANGED <<arriving, sent, chunks>>
      BY <1>5 DEF OnError
    <2>2. NoFeed \in SUBSET (Rules \union NoFeed)
      OBVIOUS
    <2>3. /\ settled' \in {"no", "feed", "timed out", "failed", "closed"}
          /\ feed' \subseteq Rules \union NoFeed /\ timer' \in {"none", "set", "fired", "cleared"}
          /\ settled' = "feed" <=> feed' # NoFeed
      BY <2>1, <2>2, SettlesTyped
    <2> QED
      BY <1>1, <2>1, <2>3 DEF SocketTypeOK
  <1>6. CASE OnClose
    <2>1. PICK rules \in SUBSET (Rules \union NoFeed) : rules = Payload(chunks)
      BY PayloadType
    <2>2. PICK how \in {"closed", "feed"} : how = IF rules = NoFeed THEN "closed" ELSE "feed"
      OBVIOUS
    <2>3. Settles(how, rules) /\ UNCHANGED <<line, arriving, sent, chunks>>
      BY <1>6, <2>1, <2>2 DEF OnClose
    <2>4. /\ settled' \in {"no", "feed", "timed out", "failed", "closed"}
          /\ feed' \subseteq Rules \union NoFeed /\ timer' \in {"none", "set", "fired", "cleared"}
          /\ settled' = "feed" <=> feed' # NoFeed
      BY <2>2, <2>3, SettlesTyped
    <2> QED
      BY <1>1, <2>3, <2>4 DEF SocketTypeOK
  <1>7. CASE OnTimeout
    BY <1>7 DEF OnTimeout, SocketTypeOK
  <1>8. CASE UNCHANGED socketVars
    BY <1>8 DEF socketVars, SocketTypeOK
  <1> QED
    BY <1>2, <1>3, <1>4, <1>5, <1>6, <1>7, <1>8 DEF SocketNext
-----------------------------------------------------------------------------
\* What is parsed arrived before, and what arrived was sent.
SourceBounds ==
    /\ pieces <= 2 * Len(body.lines) /\ readLines <= pieces /\ items \subseteq 1 .. readLines

SourceFull == SourceInv /\ SourceBounds /\ SocketTypeOK

LEMMA LinesAreCounted == SourceInv => Len(body.lines) \in Nat
  BY FeedSourceAssumption DEF SourceInv, SourceTyped

LEMMA SourceTypes == SourceFull => SourceTypeOK
  <1> SUFFICES ASSUME SourceFull PROVE SourceTypeOK
    OBVIOUS
  <1>1. pieces \in 0 .. 2 * Len(body.lines) /\ readLines \in 0 .. pieces
    BY LinesAreCounted DEF SourceFull, SourceBounds, SourceInv, SourceTyped
  <1>2. loading.setting \in FeedSetting /\ loading.at \in SourceAt /\ body \in Body
    BY DEF SourceFull, SourceInv, SourceTyped
  <1> QED
    BY <1>1, <1>2 DEF SourceFull, SourceBounds, SourceAt, SourceTypeOK

LEMMA SourceBegins == SourceInit => SourceFull
  <1> SUFFICES ASSUME SourceInit PROVE SourceFull
    OBVIOUS
  <1>1. SourceInv /\ SocketTypeOK
    BY SourceInitially, SocketBegins DEF SourceInit
  <1>2. pieces = 0 /\ readLines = 0 /\ items = {}
    BY DEF SourceInit
  <1>3. SourceBounds
    BY <1>1, <1>2, LinesAreCounted DEF SourceBounds
  <1> QED
    BY <1>1, <1>3 DEF SourceFull

\* The lines that p pieces give are no more than the pieces.
LEMMA FewerLines ==
  ASSUME NEW p \in Nat, NEW m \in Nat, Parsable(p) = 1 .. m
  PROVE  m <= p
  <1>1. p \div 2 \in Nat /\ p \div 2 <= p
    OBVIOUS
  <1>2. \A n \in 1 .. m : n <= p \div 2
    BY <1>1 DEF Parsable
  <1>3. CASE m = 0
    BY <1>3
  <1>4. CASE m # 0
    <2>1. m \in 1 .. m
      BY <1>4
    <2> QED
      BY <1>1, <1>2, <2>1
  <1> QED
    BY <1>3, <1>4

LEMMA SourceBoundsStep == SourceInv /\ SourceBounds /\ [SourceNext]_sourceVars => SourceBounds'
  <1> SUFFICES ASSUME SourceInv, SourceBounds, [SourceNext]_sourceVars PROVE SourceBounds'
    OBVIOUS
  <1>1. pieces \in Nat /\ readLines \in Nat /\ Len(body.lines) \in Nat
    BY LinesAreCounted DEF SourceInv, SourceTyped
  <1>2. BodyEnd \in Int /\ BodyEnd <= 2 * Len(body.lines)
    <2>1. PICK size \in Nat : size = Len(body.lines)
      BY <1>1
    <2>2. BodyEnd = 2 * size - 1 \/ BodyEnd = 2 * size
      <3>1. CASE body.cut
        BY <2>1, <3>1 DEF BodyEnd
      <3>2. CASE ~body.cut
        <4>1. 2 * size - 0 = 2 * size
          OBVIOUS
        <4> QED
          BY <2>1, <3>2, <4>1 DEF BodyEnd
      <3> QED
        BY <3>1, <3>2
    <2> QED
      BY <2>1, <2>2
  <1>3. CASE UNCHANGED <<body, pieces, readLines, items>>
    BY <1>3 DEF SourceBounds
  <1>4. ASSUME NEW s \in FeedSetting, NEW b \in Body, LoadThreatFeed(s, b) PROVE SourceBounds'
    <2>1. /\ pieces = 0 /\ readLines = 0 /\ items = {} /\ body' = b
          /\ UNCHANGED <<pieces, readLines, items>>
      BY <1>4 DEF LoadThreatFeed, SourceInv
    <2>2. Len(b.lines) \in Nat
      BY FeedSourceAssumption
    <2> QED
      BY <2>1, <2>2 DEF SourceBounds
  <1>5. CASE LoadLines
    <2>1. /\ UNCHANGED body /\ readLines' = Len(body.lines) /\ pieces' = 2 * readLines'
          /\ items' = Items(Whole)
      BY <1>5 DEF LoadLines
    <2>2. DOMAIN body.lines = 1 .. Len(body.lines)
      BY FeedSourceAssumption DEF SourceInv, SourceTyped
    <2>3. Items(Whole) \subseteq 1 .. Len(body.lines)
      BY <2>2 DEF Items, Whole
    <2> QED
      BY <1>1, <2>1, <2>3 DEF SourceBounds
  <1>6. ASSUME NEW p \in Nat, loading.at = "stream", pieces <= p, p <= BodyEnd, pieces' = p,
               body' = body,
               readLines' = readLines + Cardinality(ParseChunk(p)),
               items' = items \union Items(ParseChunk(p))
        PROVE  SourceBounds'
    <2>1. Parsable(pieces) = 1 .. readLines /\ items = Items(1 .. readLines)
      BY <1>6 DEF SourceInv, Streaming
    <2>2. PICK m \in Nat : /\ readLines <= m /\ Parsable(p) = 1 .. m
                           /\ ParseChunk(p) = readLines + 1 .. m
                           /\ Cardinality(ParseChunk(p)) = m - readLines
      BY <1>1, <1>6, <2>1, ParsesOn
    <2>3. readLines' = m
      BY <1>1, <1>6, <2>2
    <2>4. items' = Items(1 .. m)
      BY <1>1, <1>6, <2>1, <2>2, ItemsTogether
    <2>5. m <= p
      BY <2>2, FewerLines
    <2>6. p <= 2 * Len(body.lines)
      BY <1>1, <1>2, <1>6
    <2>7. items' \subseteq 1 .. m
      BY <2>4 DEF Items
    <2> QED
      BY <1>6, <2>3, <2>5, <2>6, <2>7 DEF SourceBounds
  <1>7. ASSUME NEW n \in 1 .. BodyEnd, ReadChunk(n) PROVE SourceBounds'
    <2>1. PICK p \in Nat : p = pieces + n /\ pieces <= p
      BY <1>1, <1>2
    <2> QED
      BY <1>6, <1>7, <2>1 DEF ReadChunk
  <1>8. CASE EndStream
    <2>1. pieces <= pieces /\ pieces <= BodyEnd /\ pieces' = pieces
      BY <1>1, <1>8 DEF EndStream
    <2> QED
      BY <1>1, <1>6, <1>8, <2>1 DEF EndStream
  <1>9. CASE \/ LoadDefaults \/ OpenSocket \/ AwaitSocket \/ StreamBreaks
             \/ \E ok \in BOOLEAN : LoadDocument(ok) \/ Attempt(ok) \/ AnswerFromCache(ok)
             \/ \E answer \in {"clean", "blocked", "short-lived", "unresolved"} : Inspect(answer)
             \/ \E html, sound \in BOOLEAN : ParseRemoteResponse(html, sound)
             \/ SocketNext /\ UNCHANGED sourceOwnVars
             \/ UNCHANGED sourceVars
    BY <1>3, <1>9 DEF LoadDefaults, OpenSocket, AwaitSocket, StreamBreaks, LoadDocument, Attempt,
       AnswerFromCache, Inspect, ParseRemoteResponse, sourceVars, sourceOwnVars
  <1> QED
    BY <1>4, <1>5, <1>7, <1>8, <1>9 DEF SourceNext

LEMMA SourceGoesOn == SourceFull /\ [SourceNext]_sourceVars => SourceFull'
  <1> SUFFICES ASSUME SourceFull, [SourceNext]_sourceVars PROVE SourceFull'
    OBVIOUS
  <1>1. [SocketNext \/ Connect]_socketVars
    BY DEF SourceNext, LoadThreatFeed, LoadLines, LoadDefaults, OpenSocket, AwaitSocket, LoadDocument,
       Attempt, AnswerFromCache, Inspect, ParseRemoteResponse, ReadChunk, EndStream, StreamBreaks,
       sourceVars
  <1> QED
    BY <1>1, SourceStep, SourceBoundsStep, SocketGoesOn DEF SourceFull
-----------------------------------------------------------------------------
\* What a scan holds belongs to the files that it found, also when it is over.
ScanFields ==
    /\ scan.errors \subseteq scan.checked
    /\ DOMAIN scan.loaded \subseteq scan.found /\ scan.checked \subseteq scan.found
    /\ \A n \in DOMAIN scan.chunks : scan.chunks[n] \in Seq(scan.found)
    /\ \A r \in scan.loading : r.of \in scan.found /\ Inventoried(r.config)
    /\ \A r \in scan.reading : r.of \in scan.found /\ (r.at = "file" <=> r.raw = Gone)

ScanFull == ScanInv /\ ScanFields

LEMMA ScanTypes == ScanFull => ScanTypeOK
  <1> SUFFICES ASSUME ScanFull PROVE ScanTypeOK
    OBVIOUS
  <1>1. scan \in Scans /\ source \in Text \union {Gone}
    BY DEF ScanFull, ScanInv
  <1>2. \A r \in scan.loading : r.of \in scan.found /\ Inventoried(r.config) /\ r.at \in LoadStep
    BY <1>1 DEF ScanFull, ScanFields, Scans, Loadings
  <1>3. \A r \in scan.reading :
           /\ r.of \in scan.found /\ r.failed \in BOOLEAN
           /\ r.raw \in Content \union {Gone} /\ (r.at = "file" <=> r.raw = Gone)
           /\ r.at \in {"file", "private", "metadata", "store"}
    BY <1>1 DEF ScanFull, ScanFields, Scans, Readings
  <1> QED
    BY <1>1, <1>2, <1>3 DEF ScanFull, ScanFields, Scans, ScanAt, ScanTypeOK

\* A run that holds no files.
Blank(r) ==
    /\ r.loaded = <<>> /\ r.chunks = <<>> /\ r.errors = {} /\ r.checked = {}
    /\ r.loading = {} /\ r.reading = {}

LEMMA BlankFields == Blank(scan) => ScanFields
  <1>1. DOMAIN <<>> = {}
    OBVIOUS
  <1> QED
    BY <1>1 DEF Blank, ScanFields

LEMMA ScanBegins == DoctorInit /\ ScanInit => ScanFull
  <1> SUFFICES ASSUME DoctorInit, ScanInit PROVE ScanFull
    OBVIOUS
  <1>1. Blank(scan)
    BY DEF ScanInit, NoScan, Blank
  <1> QED
    BY <1>1, BlankFields, ScanInitially DEF ScanFull

LEMMA ScanGoesFurther == ScanFull /\ [ScanNext]_<<scanOwnVars, doctorVars>> => ScanFull'
  <1> SUFFICES ASSUME ScanInv, ScanFields, [ScanNext]_<<scanOwnVars, doctorVars>>
               PROVE  ScanFields'
    BY ScanStep DEF ScanFull
  <1>1. ScanInv'
    BY ScanStep
  <1>2. scan \in Scans
    BY DEF ScanInv
  <1>3. CASE UNCHANGED scan
    BY <1>3 DEF ScanFields
  <1>4. CASE Blank(scan')
    <2>1. DOMAIN <<>> = {}
      OBVIOUS
    <2> QED
      BY <1>4, <2>1 DEF Blank, ScanFields
  <1>5. ASSUME scan'.at = "check", scan'.errors \subseteq scan'.checked PROVE ScanFields'
    <2>1. Halfway(scan', scanSeen') /\ Loading(scan', scanSeen')
      BY <1>1, <1>5 DEF ScanInv, Knowing
    <2>2. scan'.chunks \in Seq(Seq(scan'.found))
      BY <2>1 DEF Halfway
    <2>3. \A n \in DOMAIN scan'.chunks : scan'.chunks[n] \in Seq(scan'.found)
      BY <2>2
    <2>4. \A r \in scan'.loading : r.of \in scan'.found /\ Inventoried(r.config)
      BY <2>1 DEF Loading, HalfLoaded, ConfigSeen
    <2>5. \A r \in scan'.reading : r.of \in scan'.found /\ (r.at = "file" <=> r.raw = Gone)
      BY <2>1 DEF Halfway, HalfChecked, Readable
    <2>6. DOMAIN scan'.loaded \subseteq scan'.found /\ scan'.checked \subseteq scan'.found
      BY <2>1 DEF Halfway
    <2> QED
      BY <1>5, <2>3, <2>4, <2>5, <2>6 DEF ScanFields
  <1>6. CASE \/ EditDomains \/ UNCHANGED <<scanOwnVars, doctorVars>>
             \/ \E text \in Text \union {Gone} : Build(text)
    BY <1>3, <1>6 DEF EditDomains, Build, scanOwnVars
  <1>7. ASSUME NEW f \in Path, LoadDomain(f) \/ LoadDomainInventory(f) PROVE ScanFields'
    <2>1. \/ FailLoad
          \/ \E underway : scan' = [scan EXCEPT !.loading = underway]
          \/ \E underway, loaded : scan' = [scan EXCEPT !.loading = underway, !.loaded = loaded]
      <3>1. CASE LoadDomain(f)
        BY <3>1 DEF LoadDomain
      <3>2. CASE LoadDomainInventory(f)
        <4>1. ASSUME NEW r, DomainLoaded(r)
              PROVE  \E underway, loaded :
                        scan' = [scan EXCEPT !.loading = underway, !.loaded = loaded]
          BY <4>1 DEF DomainLoaded
        <4> QED
          BY <3>2, <4>1 DEF LoadDomainInventory
      <3> QED
        BY <1>7, <3>1, <3>2
    <2>2. CASE FailLoad
      <3>1. Blank(scan')
        BY <2>2 DEF FailLoad, NoScan, Blank
      <3> QED
        BY <1>4, <3>1
    <2>3. CASE ~FailLoad
      <3>1. scan.at = "load"
        BY <1>7 DEF LoadDomain, LoadDomainInventory
      <3>2. /\ scan'.at = "load" /\ scan'.found = scan.found /\ scan'.errors = scan.errors
            /\ scan'.checked = scan.checked /\ scan'.chunks = scan.chunks
            /\ scan'.reading = scan.reading
        BY <1>2, <2>1, <2>3, <3>1 DEF Scans
      <3>3. Loading(scan', scanSeen')
        BY <1>1, <3>2 DEF ScanInv, Knowing
      <3>4. \A r \in scan'.loading : r.of \in scan'.found /\ Inventoried(r.config)
        BY <3>3 DEF Loading, HalfLoaded, ConfigSeen
      <3>5. DOMAIN scan'.loaded \subseteq scan'.found
        BY <3>3 DEF Loading
      <3> QED
        BY <3>2, <3>4, <3>5 DEF ScanFields
    <2> QED
      BY <2>2, <2>3
  <1>8. CASE FanOut
    <2>1. \E parts : scan' = [scan EXCEPT !.at = "check", !.chunks = parts]
      BY <1>8 DEF FanOut
    <2>2. scan'.at = "check" /\ scan'.errors = scan.errors /\ scan'.checked = scan.checked
      BY <1>2, <2>1 DEF Scans
    <2> QED
      BY <1>5, <2>2 DEF ScanFields
  <1>9. ASSUME NEW f, NEW failed, Checked(f, failed), scan.at = "check" PROVE ScanFields'
    <2>1. \E reading : scan' = [scan EXCEPT
              !.checked = scan.checked \union {f},
              !.errors = IF failed THEN scan.errors \union {f} ELSE scan.errors,
              !.reading = reading]
      BY <1>9 DEF Checked
    <2>2. /\ scan'.at = "check" /\ scan'.checked = scan.checked \union {f}
          /\ scan'.errors \subseteq scan.errors \union {f}
      BY <1>2, <1>9, <2>1 DEF Scans
    <2> QED
      BY <1>5, <2>2 DEF ScanFields
  <1>10. ASSUME NEW f \in Path, CheckDomain(f) PROVE ScanFields'
    <2>1. scan.at = "check"
      BY <1>10 DEF CheckDomain, CheckLoaded, CheckFile, CheckExists, CheckMetadata, CheckStore,
         ReadingAt, Checking
    <2>2. ASSUME NEW reading, scan' = [scan EXCEPT !.reading = reading] PROVE ScanFields'
      <3>1. scan'.at = "check" /\ scan'.checked = scan.checked /\ scan'.errors = scan.errors
        BY <1>2, <2>1, <2>2 DEF Scans
      <3> QED
        BY <1>5, <3>1 DEF ScanFields
    <2>3. ASSUME NEW r, NEW stage, NEW raw, NEW failed, Onward(r, stage, raw, failed)
          PROVE  ScanFields'
      BY <2>2, <2>3 DEF Onward
    <2>4. ASSUME NEW failed, CheckMerged(f, failed) PROVE ScanFields'
      BY <1>9, <2>1, <2>4 DEF CheckMerged
    <2>5. CASE CheckLoaded(f)
      BY <2>2, <2>4, <2>5 DEF CheckLoaded
    <2>6. CASE CheckFile(f)
      BY <1>9, <2>1, <2>3, <2>6 DEF CheckFile
    <2>7. CASE CheckExists(f)
      BY <2>3, <2>4, <2>7 DEF CheckExists
    <2>8. CASE CheckMetadata(f)
      BY <2>3, <2>4, <2>8 DEF CheckMetadata
    <2>9. CASE CheckStore(f)
      BY <2>4, <2>9 DEF CheckStore
    <2> QED
      BY <1>10, <2>5, <2>6, <2>7, <2>8, <2>9 DEF CheckDomain
  <1>11. CASE NextChunk
    <2>1. /\ scan.at = "check"
          /\ scan' = [scan EXCEPT !.chunks = Tail(scan.chunks)]
      BY <1>11 DEF NextChunk
    <2>2. scan'.at = "check" /\ scan'.errors = scan.errors /\ scan'.checked = scan.checked
      BY <1>2, <2>1 DEF Scans
    <2> QED
      BY <1>5, <2>2 DEF ScanFields
  <1>12. CASE RunDomainsScan
    <2>1. \E at : scan' = [scan EXCEPT !.at = at, !.checked = {}, !.errors = {}]
      BY <1>12 DEF RunDomainsScan
    <2>2. /\ scan'.errors = {} /\ scan'.checked = {} /\ scan'.found = scan.found
          /\ scan'.loaded = scan.loaded /\ scan'.chunks = scan.chunks
          /\ scan'.loading = scan.loading /\ scan'.reading = scan.reading
      BY <1>2, <2>1 DEF Scans
    <2> QED
      BY <2>2 DEF ScanFields
  <1>13. CASE \/ \E json \in BOOLEAN : RunBundleScan(json)
              \/ \E text \in Text \union {Gone} : RunSourceScan(text) \/ FindBundle(text)
              \/ \E terminal, allowed, failed \in BOOLEAN :
                    RunInteractiveScan(terminal, allowed, failed)
              \/ \E ok \in BOOLEAN : RunOtherScan(ok)
              \/ \E workers \in WorkerCount : BeginDomainScan(workers)
              \/ \E f \in Path : WorkerFails(f)
    <2>1. ASSUME NEW at, scan' = [NoScan EXCEPT !.at = at] PROVE Blank(scan')
      BY <2>1 DEF NoScan, Blank
    <2>2. ASSUME NEW text, NEW loader, NEW findings, NEW strict,
                 EndScan(text, loader, findings, strict)
          PROVE  Blank(scan')
      BY <2>2 DEF EndScan, NoScan, Blank
    <2>3. ASSUME NEW json, RunBundleScan(json) PROVE Blank(scan')
      <3>2. NoText \/ EndScan(source, "js", Findings(source, "js"), json)
        BY <2>3 DEF RunBundleScan
      <3>3. CASE NoText
        BY <2>1, <3>3 DEF NoText
      <3>4. CASE EndScan(source, "js", Findings(source, "js"), json)
        BY <2>2, <3>4
      <3> QED
        BY <3>2, <3>3, <3>4
    <2>4. ASSUME NEW text, RunSourceScan(text) PROVE Blank(scan')
      BY <2>1, <2>2, <2>4 DEF RunSourceScan, NoText
    <2>5. ASSUME NEW text, FindBundle(text) PROVE Blank(scan')
      BY <2>1, <2>5 DEF FindBundle, NoText
    <2>6. ASSUME NEW terminal, NEW allowed, NEW failed, RunInteractiveScan(terminal, allowed, failed)
          PROVE  Blank(scan')
      BY <2>1, <2>6 DEF RunInteractiveScan
    <2>7. ASSUME NEW ok, RunOtherScan(ok) PROVE Blank(scan')
      BY <2>1, <2>7 DEF RunOtherScan
    <2>8. ASSUME NEW workers, BeginDomainScan(workers) PROVE Blank(scan')
      BY <2>8 DEF BeginDomainScan, NoScan, Blank
    <2>9. ASSUME NEW f, WorkerFails(f) PROVE Blank(scan')
      BY <2>1, <2>9 DEF WorkerFails
    <2> QED
      BY <1>4, <1>13, <2>3, <2>4, <2>5, <2>6, <2>7, <2>8, <2>9
  <1> QED
    BY <1>6, <1>7, <1>8, <1>10, <1>11, <1>12, <1>13 DEF ScanNext

-----------------------------------------------------------------------------
\* The changes of the system's CAs, and the directories of a report.

TlsFull == TlsInv /\ storeChanges \in 0 .. MaxStoreChanges

LEMMA TlsTypes == TlsFull => TlsTypeOK
  BY DEF TlsFull, TlsInv, Inspections, TlsTypeOK

LEMMA TlsBegins == TlsInit => TlsFull
  BY TlsInitially, TlsAssumption DEF TlsInit, TlsFull

LEMMA TlsFurther == TlsFull /\ [TlsNext]_tlsVars => TlsFull'
  <1> SUFFICES ASSUME TlsFull, [TlsNext]_tlsVars PROVE TlsFull'
    OBVIOUS
  <1>1. TlsInv'
    BY TlsStep DEF TlsFull
  <1>2. CASE StoreChanges
    BY <1>1, <1>2, TlsAssumption DEF StoreChanges, TlsFull
  <1>3. CASE UNCHANGED storeChanges
    BY <1>1, <1>3 DEF TlsFull
  <1>4. StoreChanges \/ UNCHANGED storeChanges
    BY DEF TlsNext, CacheAges, Ages, RefuseTls, RunTlsScan, SecureConnect, HandshakeFails, tlsVars
  <1> QED
    BY <1>2, <1>3, <1>4

ReportFull == ReportInv /\ temp \subseteq {"html", "image"}

LEMMA ReportTypes == ReportFull => ReportTypeOK
  BY DEF ReportFull, ReportInv, Reports, ReportStage, Sweeping, ReportTypeOK

LEMMA ReportStarts == ReportInit => ReportFull
  BY ReportInitially DEF ReportInit, ReportFull

LEMMA ReportFurther == ReportFull /\ [ReportNext]_reportVars => ReportFull'
  <1> SUFFICES ASSUME ReportFull, [ReportNext]_reportVars PROVE temp' \subseteq {"html", "image"}
    BY ReportStep DEF ReportFull
  <1>1. \/ UNCHANGED temp \/ temp' = {}
        \/ temp' = temp \union {"html"} \/ temp' = temp \union {"image"}
    <2>1. ASSUME NEW html, NEW rendered, FindPage(html, rendered) PROVE UNCHANGED temp
      BY <2>1 DEF FindPage
    <2>2. ASSUME NEW html, PageChanges(html) PROVE UNCHANGED temp
      BY <2>2 DEF PageChanges
    <2>3. ASSUME NEW available, ReadPage(available) \/ BeginPreview(available) PROVE UNCHANGED temp
      BY <2>3 DEF ReadPage, BeginPreview
    <2>4. ASSUME NEW available, NEW html, NEW output, BeginScreenshot(available, html, output)
          PROVE  UNCHANGED temp
      BY <2>4 DEF BeginScreenshot
    <2>5. ASSUME NEW fails, MakeImageDir(fails)
          PROVE  UNCHANGED temp \/ temp' = temp \union {"image"}
      BY <2>5 DEF MakeImageDir
    <2>6. ASSUME NEW fails, ScanRenderedDom(fails) \/ OpenView(fails) \/ PreviewHtmlReport(fails)
          PROVE  UNCHANGED temp
      BY <2>6 DEF ScanRenderedDom, OpenView, PreviewHtmlReport
    <2>7. OpenDom \/ RunSecurityScan \/ KillReport \/ UNCHANGED reportVars => UNCHANGED temp
      BY DEF OpenDom, RunSecurityScan, KillReport, reportVars
    <2>8. ASSUME NEW output, NEW fails, WriteHtml(output, fails) PROVE temp' = temp \union {"html"}
      BY <2>8 DEF WriteHtml
    <2>9. ASSUME NEW fails, ScreenshotHtml(fails) PROVE temp' = {}
      BY <2>9 DEF ScreenshotHtml
    <2> QED
      BY <2>1, <2>2, <2>3, <2>4, <2>5, <2>6, <2>7, <2>8, <2>9 DEF ReportNext
  <1> QED
    BY <1>1 DEF ReportFull
-----------------------------------------------------------------------------
(* All the commands together: what each of them keeps is kept whichever of *)
(* them runs.  The scans and the doctor are those that share something,    *)
(* the files of the domains and of their vaults.                           *)

AllInv ==
    /\ ShellInv /\ ToolTypeOK /\ VaultInv /\ QrFull /\ CsrfFull /\ DoctorFull
    /\ SourceFull /\ ScanFull /\ TlsFull /\ ReportFull

\* Where no scan was begun, nothing was seen of the files.
NoScanYet == scan = NoScan

CommandsInv == program \in Programs /\ AllInv /\ (program # "scan" => NoScanYet)

LEMMA AllBegin == Init => CommandsInv
  <1> SUFFICES ASSUME Init PROVE CommandsInv
    OBVIOUS
  <1>1. program \in Programs /\ NoScanYet
    BY DEF Init, ScanInit, NoScanYet
  <1>2. ShellInv /\ ToolTypeOK /\ VaultInv /\ QrFull /\ CsrfFull
    BY ShellBegins, ToolBegins, VaultInitInv, QrBegins, CsrfBegins DEF Init
  <1>3. DoctorFull /\ SourceFull /\ ScanFull /\ TlsFull /\ ReportFull
    BY DoctorBegins, SourceBegins, ScanBegins, TlsBegins, ReportStarts DEF Init
  <1> QED
    BY <1>1, <1>2, <1>3 DEF CommandsInv, AllInv

\* An edit is one of the doctor's world; nothing else that a scan does is.
LEMMA ScanStepIsSeen == ScanNext => [DoctorNext]_doctorVars
  <1>1. EditDomains => DoctorNext
    BY DEF EditDomains, DoctorNext
  <1>2. FanOut \/ NextChunk \/ RunDomainsScan => UNCHANGED doctorVars
    BY DEF FanOut, NextChunk, RunDomainsScan
  <1>3. ASSUME NEW json, RunBundleScan(json) PROVE UNCHANGED doctorVars
    BY <1>3 DEF RunBundleScan
  <1>4. ASSUME NEW text, RunSourceScan(text) \/ FindBundle(text) \/ Build(text)
        PROVE  UNCHANGED doctorVars
    BY <1>4 DEF RunSourceScan, FindBundle, Build
  <1>5. ASSUME NEW terminal, NEW allowed, NEW failed, RunInteractiveScan(terminal, allowed, failed)
        PROVE  UNCHANGED doctorVars
    BY <1>5 DEF RunInteractiveScan
  <1>6. ASSUME NEW ok, RunOtherScan(ok) PROVE UNCHANGED doctorVars
    BY <1>6 DEF RunOtherScan
  <1>7. ASSUME NEW workers, BeginDomainScan(workers) PROVE UNCHANGED doctorVars
    BY <1>7 DEF BeginDomainScan
  <1>8. ASSUME NEW f, LoadDomain(f) \/ LoadDomainInventory(f) \/ WorkerFails(f)
        PROVE  UNCHANGED doctorVars
    BY <1>8 DEF LoadDomain, LoadDomainInventory, WorkerFails
  <1>9. ASSUME NEW f, CheckDomain(f) PROVE UNCHANGED doctorVars
    BY <1>9 DEF CheckDomain, CheckLoaded, CheckFile, CheckExists, CheckMetadata, CheckStore
  <1> QED
    BY <1>1, <1>2, <1>3, <1>4, <1>5, <1>6, <1>7, <1>8, <1>9 DEF ScanNext

\* The scan that was not begun knows nothing that an edit could change.
LEMMA NothingToForget ==
  ASSUME ScanFull, NoScanYet, DoctorFull', UNCHANGED scanOwnVars
  PROVE  ScanFull' /\ NoScanYet'
  <1>1. UNCHANGED <<scan, scanSeen, source>> /\ scan.at = "off"
    BY NoScanType DEF NoScanYet, scanOwnVars
  <1>2. file' \in [Path -> MaybeContent] /\ vault' \in [Id -> Vault]
    BY DEF DoctorFull, DoctorInv, FilesOk
  <1>3. ScanInv'
    BY <1>1, <1>2 DEF ScanFull, ScanInv, Knowing, CleanEnd
  <1>4. ScanFields'
    BY <1>1 DEF ScanFull, ScanFields
  <1> QED
    BY <1>1, <1>3, <1>4 DEF ScanFull, NoScanYet

\* Each of the others sees a step of its own, or none.
LEMMA EachIsSeen ==
  ASSUME [Next]_vars
  PROVE  /\ [ShellNext]_shellVars /\ [ToolNext]_toolVars /\ [VaultNext]_vaultVars
         /\ [QrNext]_qrVars /\ [CsrfNext]_csrfVars /\ [SourceNext]_sourceVars
         /\ [TlsNext]_tlsVars /\ [ReportNext]_reportVars /\ [DoctorNext]_doctorVars
         /\ UNCHANGED program
         /\ \/ [ScanNext]_<<scanOwnVars, doctorVars>>
            \/ program # "scan" /\ UNCHANGED scanOwnVars
  <1>1. CASE RunScans
    BY <1>1, ScanStepIsSeen DEF RunScans
  <1>2. CASE RunDoctor
    BY <1>2 DEF RunDoctor
  <1>3. CASE RunShell \/ RunTools \/ RunMigration
    BY <1>3 DEF RunShell, RunTools, RunMigration
  <1>4. CASE RunQr \/ RunSecrets \/ RunFeed
    BY <1>4 DEF RunQr, RunSecrets, RunFeed
  <1>5. CASE RunInspections \/ RunReports
    BY <1>5 DEF RunInspections, RunReports
  <1>6. CASE UNCHANGED vars
    BY <1>6 DEF vars
  <1> QED
    BY <1>1, <1>2, <1>3, <1>4, <1>5, <1>6 DEF Next

LEMMA AllGoOn == CommandsInv /\ [Next]_vars => CommandsInv' /\ [Passing]_inspection
  <1> SUFFICES ASSUME CommandsInv, [Next]_vars PROVE CommandsInv' /\ [Passing]_inspection
    OBVIOUS
  <1>1. ShellInv' /\ ToolTypeOK' /\ VaultInv' /\ QrFull' /\ CsrfFull'
    BY EachIsSeen, ShellGoesOn, ToolGoesOn, VaultStepInv, QrGoesOn, CsrfGoesOn
       DEF CommandsInv, AllInv
  <1>2. DoctorFull' /\ SourceFull' /\ TlsFull' /\ ReportFull'
    BY EachIsSeen, DoctorGoesOn, SourceGoesOn, TlsFurther, ReportFurther DEF CommandsInv, AllInv
  <1>3. [Passing]_inspection
    BY EachIsSeen, TlsStep DEF CommandsInv, AllInv, TlsFull
  <1>4. UNCHANGED program
    BY EachIsSeen
  <1>5. ScanFull' /\ (program' # "scan" => NoScanYet')
    <2>1. CASE program = "scan"
      <3>1. [ScanNext]_<<scanOwnVars, doctorVars>>
        BY <2>1, EachIsSeen
      <3> QED
        BY <1>4, <2>1, <3>1, ScanGoesFurther DEF CommandsInv, AllInv
    <2>2. CASE program # "scan"
      <3>1. UNCHANGED scanOwnVars
        BY <2>2 DEF Next, RunScans, RunDoctor, RunShell, RunTools, RunMigration, RunQr,
           RunSecrets, RunFeed, RunInspections, RunReports, vars
      <3> QED
        BY <1>2, <2>2, <3>1, NothingToForget DEF CommandsInv, AllInv
    <2> QED
      BY <2>1, <2>2
  <1> QED
    BY <1>1, <1>2, <1>3, <1>4, <1>5 DEF CommandsInv, AllInv

LEMMA CommandsAreInductive == Spec => []CommandsInv /\ [][Passing]_inspection
  <1>1. Spec => Init /\ [][Next]_vars
    BY DEF Spec
  <1> QED
    BY <1>1, AllBegin, AllGoOn, PTL

\* Whatever command runs, and whatever is edited, rotated, locked, killed or
\* sent meanwhile: the state of each keeps its types and its bounds.
THEOREM CommandTypes == Spec => []TypeOK
  <1>1. CommandsInv => TypeOK
    BY ShellTypes, QrTypes, CsrfTypes, DoctorTypes, SourceTypes, ScanTypes, TlsTypes, ReportTypes
       DEF CommandsInv, AllInv, VaultInv, TypeOK
  <1> QED
    BY <1>1, CommandsAreInductive, PTL

\* What each command promises by itself it promises among the others: a scan
\* and a doctor over the same files included.
THEOREM CommandsKeepTheirWord ==
  Spec => /\ [](EveryScanIsAccounted /\ PromptHoldsNothing)
          /\ [](InventoryNeverLost /\ LoadNeverWrong)
          /\ [](QrCommandsHold /\ PassedMeansEntitled)
          /\ [](CleanExitMeansClean /\ UnchangedIsQuiet)
          /\ [](CleanScanMeansClean /\ ReportIsHonest /\ FeedIsWhole)
          /\ PassedMeansTrusted
  <1>1. CommandsInv => /\ EveryScanIsAccounted /\ PromptHoldsNothing
                       /\ InventoryNeverLost /\ LoadNeverWrong
                       /\ QrCommandsHold /\ PassedMeansEntitled
    BY ScansHold, PromptHolds, QrHolds, PassedHolds
       DEF CommandsInv, AllInv, ShellInv, VaultInv, FileInv, LoadInv, QrFull, CsrfFull
  <1>2. CommandsInv => /\ CleanExitMeansClean /\ UnchangedIsQuiet
                       /\ CleanScanMeansClean /\ ReportIsHonest /\ FeedIsWhole
    BY CleanExitHolds, QuietHolds, CleanScanHolds, ReportHolds
       DEF CommandsInv, AllInv, DoctorFull, ScanFull, ReportFull, SourceFull, SourceInv
  <1>3. [Passing]_inspection =>
            [ inspection.at = "handshake" /\ inspection'.at = "exit 0" =>
                /\ inspection.useSystemCA => "anchors" \in recentCAs
                /\ inspection.useSystemCA \/ inspection.left =>
                      "empty" \in recentCAs \/ inspection.server.system ]_inspection
    BY DEF Passing
  <1> QED
    BY <1>1, <1>2, <1>3, CommandsAreInductive, PTL DEF PassedMeansTrusted
=============================================================================
