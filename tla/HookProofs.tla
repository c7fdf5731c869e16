----------------------------- MODULE HookProofs ------------------------------
(***************************************************************************)
(* Proofs about the scanner's own file and the audit log in a database:    *)
(* AuditSqlite, HookCli and InstallHook, for any processes, settings,      *)
(* feeds and bounds.  An inductive invariant of each comes first.          *)
(***************************************************************************)
EXTENDS MCInstallHook, MatchProofs

-----------------------------------------------------------------------------
(* AuditSqlite.  An append that has not stored yet is the only call of its *)
(* entry; one that adds a thumbnail has the key of the row it replaces, so *)
(* that no row ever changes its key.                                       *)
CallsSound ==
    /\ IsFiniteSet(DOMAIN rows)
    /\ \A c \in calls :
        /\ sinks[c.by] # "unset"
        /\ c.visual => c.entry \in DOMAIN rows /\ rows[c.entry].key = sinks[c.by]
        /\ ~c.visual => c.entry \notin DOMAIN rows
    /\ \A c, d \in calls : ~c.visual /\ c.entry = d.entry => c = d

\* A set of entries is closed if nothing in front of one of them is missing,
\* but for what came late.
Closed(read) ==
    /\ read \subseteq Stream(tail.by)
    /\ \A n \in read, m \in Stream(tail.by) : m < n /\ m \notin late => m \in read

Reads == {r.entries : r \in tail.reading}
Nested(r, s) == r \subseteq s \/ s \subseteq r

\* The read that ended last: its entries were counted, and all of them that
\* did not come late are printed.
Counted(read) ==
    /\ Closed(read) /\ Cardinality(read) = tail.seen
    /\ read \ late \subseteq tail.printed
    /\ \A r \in Reads : Nested(read, r)

\* Reads of a table that only grows are nested.
TailSound ==
    tail # NoTail =>
        /\ tail.by \in Writer /\ sinks[tail.by] # "unset"
        /\ Closed(tail.printed)
        /\ \A r \in Reads : Closed(r) /\ \A s \in Reads : Nested(r, s)
        /\ \E read \in SUBSET LogEntry : Counted(read)

SqliteInv == SqliteTypeOK /\ CallsSound /\ AckedRowsStay /\ TailSound

-----------------------------------------------------------------------------
(* An entry of a read, that an earlier one does not have and that nothing  *)
(* of the earlier one follows, is placed after as many as that one had.    *)
LEMMA PlacedBehind ==
    ASSUME NEW L, IsFiniteSet(L), L \subseteq Nat, NEW P \in SUBSET L,
           NEW m \in L \ P, \A n \in P : ~(m < n)
    PROVE  Place(m, L) > Cardinality(P)
<1> DEFINE front == {f \in L : f <= m}
<1>1. front \subseteq L /\ P \union {m} \subseteq front
  OBVIOUS
<1>2. IsFiniteSet(front) /\ IsFiniteSet(P)
  BY <1>1, FS_Subset
<1>3. Cardinality(P \union {m}) = Cardinality(P) + 1
  BY <1>2, FS_AddElement
<1>4. Cardinality(P \union {m}) <= Cardinality(front)
  BY <1>1, <1>2, FS_Subset
<1>5. Cardinality(P) \in Nat /\ Cardinality(front) \in Nat
  BY <1>2, FS_CardinalityType
<1> QED
  BY <1>3, <1>4, <1>5 DEF Place

LEMMA SqliteBegins == ASSUME SqliteInit PROVE SqliteInv
<1> USE DEF SqliteInit
<1>1. IsFiniteSet(DOMAIN rows)
  <2>1. DOMAIN rows = {}
    OBVIOUS
  <2> QED
    BY <2>1, FS_EmptySet
<1>2. SqliteTypeOK
  <2>1. tail \in Follower
    BY DEF Follower, NoTail
  <2>2. rows \in [DOMAIN rows -> Row]
    OBVIOUS
  <2> QED
    BY <2>1, <2>2 DEF SqliteTypeOK
<1> QED
  BY <1>1, <1>2 DEF SqliteInv, CallsSound, AckedRowsStay, TailSound

(* A step that stores nothing keeps what is stored, and no step but these  *)
(* touches a key that is in use.                                           *)
LEMMA SinkOf == ASSUME NEW s \in Setup PROVE CreateAuditSink(s) \in SqlKey \union {"unset"}
  BY SqliteAssumption DEF CreateAuditSink, ResolveDomainAuditMasterKey

LEMMA Numbers == LogEntry \subseteq Nat /\ 1 \in 1 .. MaxPolls
  BY SqliteAssumption

LEMMA NoTailReads == NoTail.following = FALSE /\ NoTail.reading = {}
  BY DEF NoTail

LEMMA SqliteTyped == ASSUME SqliteInv, SqliteNext PROVE SqliteTypeOK'
<1> USE DEF SqliteInv, SqliteTypeOK
<1>1. ASSUME NEW w \in Writer, NEW s \in Setup, CreateDomain(w, s) PROVE SqliteTypeOK'
  BY <1>1, SinkOf DEF CreateDomain
<1>2. ASSUME NEW w \in Writer, CloseDomain(w) PROVE SqliteTypeOK'
  BY <1>2 DEF CloseDomain
<1>3. ASSUME NEW w \in Writer, KillWriter(w) PROVE SqliteTypeOK'
  BY <1>3 DEF KillWriter, NoTail, Follower
<1>4. ASSUME NEW w \in Writer, NEW i \in 1 .. MaxPolls
      PROVE  [poll |-> i, entries |-> Stream(w)] \in Read
  <2>1. Stream(w) \in SUBSET LogEntry
    BY DEF Stream, Decrypts
  <2> QED
    BY <2>1 DEF Read
<1>5. ASSUME NEW w \in Writer, StartTail(w) PROVE SqliteTypeOK'
  <2>1. tail' \in Follower
    BY <1>4, <1>5, Numbers DEF StartTail, NoTail, Follower
  <2> QED
    BY <1>5, <2>1 DEF StartTail
<1>6. ASSUME NEW w \in Writer, NEW e \in LogEntry, CallAppend(w, e) \/ AddThumbnail(w, e)
      PROVE  SqliteTypeOK'
  <2>1. \A b \in BOOLEAN : [by |-> w, entry |-> e, visual |-> b] \in Call
    BY DEF Call
  <2> QED
    BY <1>6, <2>1 DEF CallAppend, AddThumbnail
<1>7. ASSUME NEW c \in calls, InsertOrReplace(c) PROVE SqliteTypeOK'
  <2>1. c.entry \in LogEntry /\ c.visual \in BOOLEAN /\ sinks[c.by] \in SqlKey
    BY DEF CallsSound, Call
  <2>2. PICK row \in Row : Stores(c, row)
    BY <1>7, <2>1 DEF InsertOrReplace, Row
  <2>3. [entry |-> c.entry, key |-> sinks[c.by], visual |-> c.visual] \in Ack
    BY <2>1 DEF Ack
  <2>4. acked' \subseteq Ack /\ late' \subseteq LogEntry /\ calls' \subseteq Call
        /\ UNCHANGED <<sinks, tail>>
    BY <2>1, <2>2, <2>3 DEF Stores
  <2>5. DOMAIN rows' \subseteq LogEntry /\ rows' \in [DOMAIN rows' -> Row]
    BY <2>1, <2>2 DEF Stores
  <2> QED
    BY <2>4, <2>5
<1>8. ASSUME NEW c \in calls, InsertFails(c) PROVE SqliteTypeOK'
  BY <1>8 DEF InsertFails
<1>9. ASSUME NEW i \in 1 .. MaxPolls, Poll(i) PROVE SqliteTypeOK'
  <2>1. tail.by \in Writer
    BY <1>9, NoTailReads DEF Poll, TailSound
  <2>2. tail' \in Follower
    BY <1>4, <1>9, <2>1 DEF Poll, Follower
  <2> QED
    BY <1>9, <2>2 DEF Poll
<1>10. CASE StopTail
  BY <1>10 DEF StopTail, NoTail, Follower
<1>11. ASSUME NEW r \in tail.reading, EndRead(r) PROVE SqliteTypeOK'
  <2>1. r.entries \in SUBSET LogEntry
    BY DEF Read, Follower
  <2>2. tail # NoTail /\ r.entries \in Reads
    BY NoTailReads DEF Reads
  <2>3. IsFiniteSet(r.entries)
    BY <2>2, FS_Subset DEF CallsSound, Stream, Decrypts, TailSound, Closed
  <2>4. Cardinality(r.entries) \in Nat
    BY <2>3, FS_CardinalityType
  <2>5. tail' \in Follower
    BY <1>11, <2>1, <2>4 DEF EndRead, Follower
  <2> QED
    BY <1>11, <2>5 DEF EndRead
<1> QED
  BY <1>1, <1>2, <1>3, <1>5, <1>6, <1>7, <1>8, <1>9, <1>10, <1>11 DEF SqliteNext

(* A step that stores nothing keeps what is stored and what is closed, and *)
(* a step that stores an entry changes no key.                             *)
RowsGrow(c) ==
    /\ DOMAIN rows' = DOMAIN rows \union {c.entry}
    /\ \A e \in DOMAIN rows : rows'[e].key = rows[e].key
    /\ rows'[c.entry].key = sinks[c.by] /\ rows'[c.entry].visual = c.visual
    /\ \A e \in DOMAIN rows : e # c.entry => rows'[e] = rows[e]
    /\ c.entry \notin DOMAIN rows => \A f \in DOMAIN rows : c.entry < f => c.entry \in late'
    /\ late \subseteq late' /\ calls' = calls \ {c} /\ UNCHANGED <<sinks, tail>>

LEMMA RowsKept == ASSUME SqliteInv, SqliteTypeOK', NEW c \in calls, InsertOrReplace(c) PROVE RowsGrow(c)
<1> USE DEF SqliteInv, SqliteTypeOK
<1>1. c.entry \in LogEntry /\ c.visual \in BOOLEAN /\ sinks[c.by] \in SqlKey
  BY DEF CallsSound, Call
<1>2. PICK row \in Row : Stores(c, row) /\ row.key = sinks[c.by] /\ row.visual = c.visual
  BY <1>1 DEF InsertOrReplace, Row
<1>3. /\ DOMAIN rows' = DOMAIN rows \union {c.entry} /\ rows'[c.entry] = row
      /\ \A e \in DOMAIN rows : e # c.entry => rows'[e] = rows[e]
  BY <1>2 DEF Stores
<1>4. c.entry \in DOMAIN rows => rows[c.entry].key = sinks[c.by]
  BY DEF CallsSound
<1>5. c.entry \notin DOMAIN rows => \A f \in DOMAIN rows : c.entry < f => c.entry \in late'
  BY <1>1, <1>2, Numbers DEF Stores
<1>6. late \subseteq late' /\ calls' = calls \ {c} /\ UNCHANGED <<sinks, tail>>
  BY <1>2 DEF Stores
<1> QED
  BY <1>2, <1>3, <1>4, <1>5, <1>6 DEF RowsGrow

LEMMA CallsKept == ASSUME SqliteInv, SqliteTypeOK', SqliteNext PROVE CallsSound' /\ AckedRowsStay'
<1>0. ASSUME NEW c \in calls, InsertOrReplace(c) PROVE RowsGrow(c)
  BY <1>0, RowsKept
<1> USE DEF SqliteInv, SqliteTypeOK
<1>1. ASSUME NEW w \in Writer, NEW s \in Setup, CreateDomain(w, s) PROVE CallsSound' /\ AckedRowsStay'
  <2>1. \A c \in calls : c.by # w
    BY <1>1 DEF CreateDomain, CallsSound
  <2> QED
    BY <1>1, <2>1 DEF CreateDomain, CallsSound, AckedRowsStay, Call
<1>2. ASSUME NEW w \in Writer, CloseDomain(w) \/ KillWriter(w) PROVE CallsSound' /\ AckedRowsStay'
  <2>1. \A c \in calls' : c \in calls /\ c.by # w
    BY <1>2 DEF CloseDomain, KillWriter
  <2>2. \A c \in calls : c.by # w => sinks'[c.by] = sinks[c.by]
    BY <1>2 DEF CloseDomain, KillWriter, Call
  <2> QED
    BY <1>2, <2>1, <2>2 DEF CloseDomain, KillWriter, CallsSound, AckedRowsStay
<1>3. ASSUME NEW w \in Writer, NEW e \in LogEntry, CallAppend(w, e) PROVE CallsSound' /\ AckedRowsStay'
  <2> DEFINE new == [by |-> w, entry |-> e, visual |-> FALSE]
  <2>1. new.by = w /\ new.entry = e /\ ~new.visual /\ calls' = calls \union {new}
    BY <1>3 DEF CallAppend
  <2>2. /\ sinks[w] # "unset" /\ e \notin DOMAIN rows /\ \A c \in calls : c.entry # e
        /\ UNCHANGED <<rows, sinks, acked, late, tail>>
    BY <1>3 DEF CallAppend
  <2> HIDE DEF new
  <2>3. CallsSound'
    BY <2>1, <2>2 DEF CallsSound
  <2> QED
    BY <2>2, <2>3 DEF AckedRowsStay
<1>4. ASSUME NEW w \in Writer, NEW e \in LogEntry, AddThumbnail(w, e) PROVE CallsSound' /\ AckedRowsStay'
  <2> DEFINE new == [by |-> w, entry |-> e, visual |-> TRUE]
  <2>1. new.by = w /\ new.entry = e /\ new.visual /\ calls' = calls \union {new}
    BY <1>4 DEF AddThumbnail
  <2>2. sinks[w] # "unset" /\ e \in DOMAIN rows /\ rows[e].key = sinks[w]
        /\ UNCHANGED <<rows, sinks, acked, late, tail>>
    BY <1>4 DEF AddThumbnail, Stream, Decrypts
  <2> HIDE DEF new
  <2>3. CallsSound'
    BY <2>1, <2>2 DEF CallsSound
  <2> QED
    BY <2>2, <2>3 DEF AckedRowsStay
<1>5. ASSUME NEW c \in calls, InsertOrReplace(c) PROVE CallsSound' /\ AckedRowsStay'
  <2>1. RowsGrow(c)
    BY <1>0, <1>5
  <2>2. IsFiniteSet(DOMAIN rows')
    <3>1. IsFiniteSet(DOMAIN rows)
      BY DEF CallsSound
    <3> QED
      BY <2>1, <3>1, FS_AddElement DEF RowsGrow
  <2>3. \A d \in calls' : sinks'[d.by] # "unset"
    BY <2>1 DEF RowsGrow, CallsSound
  <2>4. \A d \in calls' : d.visual => d.entry \in DOMAIN rows' /\ rows'[d.entry].key = sinks'[d.by]
    BY <2>1 DEF RowsGrow, CallsSound
  <2>5. \A d \in calls' : ~d.visual => d.entry \notin DOMAIN rows'
    BY <2>1 DEF RowsGrow, CallsSound
  <2>6. \A d, e \in calls' : ~d.visual /\ d.entry = e.entry => d = e
    BY <2>1 DEF RowsGrow, CallsSound
  <2>7. CallsSound'
    BY <2>2, <2>3, <2>4, <2>5, <2>6 DEF CallsSound
  <2>8. \A a \in acked' : \/ a \in acked
                          \/ a.entry = c.entry /\ a.key = sinks[c.by] /\ (a.visual <=> c.visual)
    BY <1>5 DEF InsertOrReplace, Stores
  <2>9. c.entry \in DOMAIN rows => c.visual
    BY DEF CallsSound
  <2>10. ASSUME NEW a \in acked'
         PROVE  a.entry \in DOMAIN rows' /\ rows'[a.entry].key = a.key
                /\ (a.visual => rows'[a.entry].visual)
    <3>1. CASE a \in acked
      <4>1. a.entry \in DOMAIN rows /\ rows[a.entry].key = a.key /\ (a.visual => rows[a.entry].visual)
        BY <3>1 DEF AckedRowsStay
      <4> QED
        BY <2>1, <2>9, <4>1 DEF RowsGrow
    <3>2. CASE a.entry = c.entry /\ a.key = sinks[c.by] /\ (a.visual <=> c.visual)
      BY <2>1, <3>2 DEF RowsGrow
    <3> QED
      BY <2>8, <3>1, <3>2
  <2>11. AckedRowsStay'
    BY <2>10 DEF AckedRowsStay
  <2> QED
    BY <2>7, <2>11
<1>6. ASSUME NEW c \in calls, InsertFails(c) PROVE CallsSound' /\ AckedRowsStay'
  BY <1>6 DEF InsertFails, CallsSound, AckedRowsStay
<1>7. ASSUME UNCHANGED <<rows, sinks, calls, acked>> PROVE CallsSound' /\ AckedRowsStay'
  BY <1>7 DEF CallsSound, AckedRowsStay
<1> QED
  BY <1>1, <1>2, <1>3, <1>4, <1>5, <1>6, <1>7 DEF SqliteNext, Poll, EndRead, StartTail, StopTail

(* What a follower has read stays closed while its table grows.            *)
LEMMA ClosedKept ==
    ASSUME SqliteInv, SqliteTypeOK', NEW c \in calls, InsertOrReplace(c), tail # NoTail,
           NEW read, Closed(read)
    PROVE  Closed(read)'
<1>1. RowsGrow(c) /\ tail.by \in Writer
  BY RowsKept DEF SqliteInv, TailSound
<1>2. \A m \in Stream(tail.by)' : m \in Stream(tail.by) \/ (m = c.entry /\ m \notin DOMAIN rows)
  BY <1>1 DEF RowsGrow, Stream, Decrypts
<1>3. Stream(tail.by) \subseteq Stream(tail.by)' /\ Stream(tail.by) \subseteq DOMAIN rows
  BY <1>1 DEF RowsGrow, Stream, Decrypts
<1> QED
  BY <1>1, <1>2, <1>3 DEF Closed, RowsGrow

LEMMA TailKept == ASSUME SqliteInv, SqliteTypeOK', SqliteNext PROVE TailSound'
<1> USE DEF SqliteInv
<1>1. ASSUME NEW w \in Writer,
             (\E s \in Setup : CreateDomain(w, s)) \/ CloseDomain(w) \/ (KillWriter(w) /\ tail.by # w)
      PROVE  TailSound'
  <2>1. SUFFICES ASSUME tail # NoTail PROVE TailSound'
    BY <1>1 DEF CreateDomain, CloseDomain, KillWriter, TailSound
  <2>2. UNCHANGED <<rows, late, tail>> /\ sinks'[tail.by] = sinks[tail.by]
    BY <1>1, <2>1 DEF CreateDomain, CloseDomain, KillWriter, TailSound, SqliteTypeOK
  <2>3. Stream(tail.by)' = Stream(tail.by)
    BY <2>2 DEF Stream, Decrypts
  <2> QED
    BY <2>1, <2>2, <2>3 DEF TailSound, Closed, Counted, Reads
<1>2. ASSUME NEW w \in Writer, KillWriter(w), tail.by = w PROVE TailSound'
  BY <1>2 DEF KillWriter, TailSound
<1>3. ASSUME NEW w \in Writer, StartTail(w) PROVE TailSound'
  <2>1. /\ tail'.by = w /\ tail'.seen = 0 /\ tail'.printed = {} /\ sinks'[w] # "unset"
        /\ tail'.reading = {[poll |-> 1, entries |-> Stream(w)]}
    BY <1>3 DEF StartTail, NoTail
  <2>2. Reads' = {Stream(w)} /\ Stream(w)' = Stream(w)
    BY <1>3, <2>1 DEF Reads, StartTail, Stream, Decrypts
  <2>3. Closed({})' /\ Closed(Stream(w))'
    BY <2>1, <2>2 DEF Closed
  <2>4. Counted({})'
    BY <2>1, <2>2, <2>3, FS_EmptySet DEF Counted, Nested
  <2> QED
    BY <2>1, <2>2, <2>3, <2>4 DEF TailSound, Nested
<1>4. ASSUME UNCHANGED <<rows, sinks, late, tail>> PROVE TailSound'
  <2>1. Stream(tail.by)' = Stream(tail.by)
    BY <1>4 DEF Stream, Decrypts
  <2> QED
    BY <1>4, <2>1 DEF TailSound, Closed, Counted, Reads
<1>5. ASSUME NEW c \in calls, InsertOrReplace(c) PROVE TailSound'
  <2>1. SUFFICES ASSUME tail # NoTail PROVE TailSound'
    BY <1>5, RowsKept DEF RowsGrow, TailSound
  <2>2. RowsGrow(c)
    BY <1>5, RowsKept
  <2>3. \A read : Closed(read) => Closed(read)'
    BY <1>5, <2>1, ClosedKept
  <2>4. Reads' = Reads
    BY <2>2 DEF RowsGrow, Reads
  <2>5. PICK read \in SUBSET LogEntry : Counted(read)
    BY <2>1 DEF TailSound
  <2>6. Counted(read)'
    BY <2>2, <2>3, <2>4, <2>5 DEF Counted, RowsGrow
  <2> QED
    BY <2>1, <2>2, <2>3, <2>4, <2>6 DEF TailSound, RowsGrow
<1>6. ASSUME NEW i \in 1 .. MaxPolls, Poll(i) PROVE TailSound'
  <2> DEFINE now == Stream(tail.by)
  <2>1. tail # NoTail
    BY <1>6, NoTailReads DEF Poll
  <2>2. /\ tail'.by = tail.by /\ tail'.seen = tail.seen /\ tail'.printed = tail.printed
        /\ UNCHANGED <<rows, sinks, late>> /\ Reads' = Reads \union {now}
    <3>1. tail' = [tail EXCEPT !.reading = tail.reading \union {[poll |-> i, entries |-> now]}]
          /\ UNCHANGED <<rows, sinks, late>>
      BY <1>6 DEF Poll
    <3>2. /\ tail'.by = tail.by /\ tail'.seen = tail.seen /\ tail'.printed = tail.printed
          /\ tail'.reading = tail.reading \union {[poll |-> i, entries |-> now]}
      BY <3>1 DEF SqliteTypeOK, Follower
    <3> DEFINE poll == [poll |-> i, entries |-> now]
    <3> HIDE DEF now
    <3>3. Reads' = Reads \union {now}
      <4>1. poll.entries = now /\ tail'.reading = tail.reading \union {poll}
        BY <3>2
      <4> HIDE DEF poll
      <4>2. \A x : x \in Reads' <=> x \in Reads \/ x = now
        BY <4>1 DEF Reads
      <4> QED
        BY <4>2
    <3> QED
      BY <3>1, <3>2, <3>3
  <2>3. Stream(tail.by)' = now /\ \A read : Closed(read) <=> Closed(read)'
    <3>1. Stream(tail.by)' = now
      BY <2>2 DEF Stream, Decrypts
    <3> QED
      BY <2>2, <3>1 DEF Closed
  <2>4. PICK read \in SUBSET LogEntry : Counted(read)
    BY <2>1 DEF TailSound
  <2>5. Counted(read)'
    BY <2>2, <2>3, <2>4 DEF Counted, Closed, Nested
  <2>6. Closed(now)
    BY DEF Closed
  <2>7. \A r \in Reads : Nested(r, now) /\ Nested(now, r)
    BY <2>1 DEF TailSound, Closed, Nested
  <2>8. \A r \in Reads' : Closed(r)' /\ \A s \in Reads' : Nested(r, s)
    BY <2>1, <2>2, <2>3, <2>6, <2>7 DEF TailSound, Nested
  <2> QED
    BY <2>1, <2>2, <2>3, <2>5, <2>8 DEF TailSound
<1>7. CASE StopTail
  BY <1>7 DEF StopTail, TailSound
<1>8. ASSUME NEW r \in tail.reading, EndRead(r) PROVE TailSound'
  <2> DEFINE L == r.entries
  <2>1. tail # NoTail /\ L \in Reads
    BY NoTailReads DEF Reads
  <2>2. /\ tail'.by = tail.by /\ tail'.seen = Cardinality(L) /\ UNCHANGED <<rows, sinks, late>>
        /\ tail'.printed = tail.printed \union {e \in L : Place(e, L) > tail.seen}
        /\ Reads' \subseteq Reads
    BY <1>8 DEF EndRead, Reads, SqliteTypeOK, Follower
  <2>3. \A read : Closed(read) <=> Closed(read)'
    <3>1. Stream(tail.by)' = Stream(tail.by)
      BY <2>2 DEF Stream, Decrypts
    <3> QED
      BY <2>2, <3>1 DEF Closed
  <2>4. PICK read \in SUBSET LogEntry : Counted(read)
    BY <2>1 DEF TailSound
  <2>5. Closed(L) /\ L \subseteq LogEntry /\ IsFiniteSet(L)
    <3>1. Closed(L) /\ L \subseteq DOMAIN rows
      BY <2>1 DEF TailSound, Closed, Stream, Decrypts
    <3> QED
      BY <3>1, FS_Subset DEF CallsSound, SqliteTypeOK
  <2>6. ASSUME NEW m \in L \ late PROVE m \in tail'.printed
    <3>1. CASE m \in read
      BY <2>2, <2>4, <2>6, <3>1 DEF Counted
    <3>2. CASE m \notin read
      <4>1. \A n \in read : ~(m < n)
        BY <2>4, <2>5, <2>6, <3>2 DEF Counted, Closed
      <4>2. read \in SUBSET L
        BY <2>1, <2>4, <2>6, <3>2 DEF Counted, Nested
      <4>3. Place(m, L) > Cardinality(read)
        BY <2>5, <3>2, <4>1, <4>2, Numbers, PlacedBehind
      <4> QED
        BY <2>2, <2>4, <4>3 DEF Counted
    <3> QED
      BY <3>1, <3>2
  <2>7. Closed(tail'.printed)
    BY <2>1, <2>2, <2>5, <2>6 DEF TailSound, Closed
  <2>8. Counted(L)'
    BY <2>1, <2>2, <2>3, <2>5, <2>6 DEF Counted, TailSound
  <2> QED
    BY <2>1, <2>2, <2>3, <2>5, <2>7, <2>8 DEF TailSound
<1> QED
  BY <1>1, <1>2, <1>3, <1>4, <1>5, <1>6, <1>7, <1>8
  DEF SqliteNext, CallAppend, AddThumbnail, InsertFails

LEMMA SqliteSteps == ASSUME SqliteInv, SqliteNext \/ UNCHANGED sqliteVars PROVE SqliteInv'
<1>1. CASE SqliteNext
  BY <1>1, SqliteTyped, CallsKept, TailKept DEF SqliteInv
<1>2. CASE UNCHANGED sqliteVars
  BY <1>2 DEF sqliteVars, SqliteInv, SqliteTypeOK, CallsSound, AckedRowsStay, TailSound,
              Closed, Counted, Reads, Stream, Decrypts
<1> QED
  BY <1>1, <1>2

(* What an append was acknowledged for stays in the table, and a follower  *)
(* leaves out nothing but what was stored late: of any number of           *)
(* processes, configs, appends and polls (encrypted-sqlite-sink.ts:61-84,  *)
(* shell.ts:625-659).                                                      *)
THEOREM DatabaseKeepsItsRows == SqliteSpec => []SqliteLogHolds
<1>1. SqliteInit => SqliteInv
  BY SqliteBegins
<1>2. SqliteInv /\ [SqliteNext]_sqliteVars => SqliteInv'
  BY SqliteSteps
<1>3. SqliteInv => SqliteLogHolds
  BY DEF SqliteInv, SqliteLogHolds, TailSound, TailMissesOnlyTheLate, Closed
<1> QED
  BY <1>1, <1>2, <1>3, PTL DEF SqliteSpec

-----------------------------------------------------------------------------
(* HookCli.  An answer of a health check is about something that was, or   *)
(* was not, within reach since it began; and while it runs, what can be    *)
(* reached now is in its history.                                          *)
Since(p, what, answer) ==
    /\ answer = "yes" => what \in reach[p].up
    /\ answer = "no" => what \in reach[p].down

Needed(line) ==
    (IF line.feed = "own" THEN {} ELSE {"feed"})
        \union (IF line.env THEN {} ELSE {"keychain"})
        \union (IF line.registry THEN {"registry"} ELSE {})

HealthSound(p, s) ==
    /\ "healthcheck" \in s.line.flags =>
          /\ s.at \in {"none", "health"} \union ProcOver
          /\ s.at = "exit 0" => Needed(s.line) \subseteq reach[p].up
          /\ s.at = "exit 1" => Needed(s.line) \intersect reach[p].down # {}
    /\ s.at # "none" => up \subseteq reach[p].up /\ Remote \ up \subseteq reach[p].down
    /\ Since(p, "keychain", s.store)
    /\ s.feed = "token" => s.line.feed = "remote"
    /\ s.feed = "no" => s.line.feed # "own"
    /\ s.line.feed # "own" => Since(p, "feed", s.feed)
    /\ s.secrets = "no" => ~s.line.env
    /\ ~s.line.env => Since(p, "keychain", s.secrets)
    /\ s.registry = "no" => s.line.registry
    /\ s.line.registry => Since(p, "registry", s.registry)

HookInv == HookTypeOK /\ ProbeIsSwept /\ \A p \in Proc : HealthSound(p, proc[p])

LEMMA Line == ASSUME NEW line \in CommandLine
              PROVE  line.env \in BOOLEAN /\ line.named \in BOOLEAN /\ line.registry \in BOOLEAN
                     /\ line.tty \in BOOLEAN /\ line.feed \in {"remote", "file", "own"}
  BY HookCliAssumption

LEMMA NoProcTyped ==
    /\ NoProc \in Process /\ NoProc.at = "none"
    /\ {NoProc.store, NoProc.feed, NoProc.secrets, NoProc.registry} = {Unknown}
<1>1. (CHOOSE c \in CommandLine : TRUE) \in CommandLine
  BY HookCliAssumption
<1> QED
  BY <1>1 DEF NoProc, Process, Asked

LEMMA HookBegins == ASSUME HookInit PROVE HookInv
<1>1. HookTypeOK
  <2>1. [up |-> {}, down |-> {}] \in [up : SUBSET Remote, down : SUBSET Remote]
    OBVIOUS
  <2>2. proc \in [Proc -> Process] /\ reach \in [Proc -> [up : SUBSET Remote, down : SUBSET Remote]]
    BY <2>1, NoProcTyped DEF HookInit
  <2>3. outages \in 0 .. MaxOutages
    BY HookCliAssumption DEF HookInit
  <2>4. up \subseteq Remote /\ token = NoToken /\ probe = FALSE /\ strandedProbe = FALSE
    BY DEF HookInit
  <2> QED
    BY <2>2, <2>3, <2>4 DEF HookTypeOK
<1>2. \A p \in Proc : proc[p] = NoProc
  BY DEF HookInit
<1>3. ProbeIsSwept
  BY DEF HookInit, ProbeIsSwept
<1>4. ASSUME NEW p \in Proc PROVE HealthSound(p, proc[p])
  BY <1>2, NoProcTyped DEF HealthSound, Since, Unknown
<1> QED
  BY <1>1, <1>3, <1>4 DEF HookInv

\* What is sound of a state s is sound of the process that has come to it.
LEMMA HealthStays ==
    ASSUME NEW p \in Proc, NEW s, s = proc'[p], HealthSound(p, s)' PROVE HealthSound(p, proc[p])'
<1>1. ("healthcheck" \in proc[p].line.flags =>
          /\ proc[p].at \in {"none", "health"} \union ProcOver
          /\ proc[p].at = "exit 0" => Needed(proc[p].line) \subseteq reach[p].up
          /\ proc[p].at = "exit 1" => Needed(proc[p].line) \intersect reach[p].down # {})'
  BY DEF HealthSound
<1>2. (proc[p].at # "none" => up \subseteq reach[p].up /\ Remote \ up \subseteq reach[p].down)'
  BY DEF HealthSound
<1>3. (/\ Since(p, "keychain", proc[p].store)
       /\ proc[p].line.feed # "own" => Since(p, "feed", proc[p].feed)
       /\ ~proc[p].line.env => Since(p, "keychain", proc[p].secrets)
       /\ proc[p].line.registry => Since(p, "registry", proc[p].registry))'
  BY DEF HealthSound, Since
<1>4. (/\ proc[p].feed = "token" => proc[p].line.feed = "remote"
       /\ proc[p].feed = "no" => proc[p].line.feed # "own"
       /\ proc[p].secrets = "no" => ~proc[p].line.env
       /\ proc[p].registry = "no" => proc[p].line.registry)'
  BY DEF HealthSound
<1> QED
  BY <1>1, <1>2, <1>3, <1>4 DEF HealthSound

(* One process goes on, to a state s that is sound.                        *)
Moves(p, s) ==
    /\ proc' = [proc EXCEPT ![p] = s]
    /\ s \in Process /\ HealthSound(p, s)
    /\ UNCHANGED <<up, outages, reach>>

LEMMA OneMoves ==
    ASSUME HookInv, NEW p \in Proc, NEW s, Moves(p, s),
           token' \in Proc \union {NoToken}, probe' \in BOOLEAN, strandedProbe' \in BOOLEAN,
           strandedProbe => strandedProbe',
           probe' => \/ strandedProbe' \/ s.at = "probed"
                     \/ probe /\ (proc[p].at = "probed" => strandedProbe')
    PROVE  HookInv'
<1>1. HookTypeOK'
  BY DEF HookInv, HookTypeOK, Moves
<1>2. proc'[p] = s /\ \A q \in Proc : q # p => proc'[q] = proc[q]
  BY DEF HookInv, HookTypeOK, Moves
<1>3. ASSUME NEW q \in Proc PROVE HealthSound(q, proc[q])'
  <2>1. PICK v : v = proc'[q]
    OBVIOUS
  <2>2. HealthSound(q, v)
    BY <1>2, <2>1 DEF HookInv, Moves
  <2>3. HealthSound(q, v)'
    <3>1. UNCHANGED <<up, reach>>
      BY DEF Moves
    <3>2. \A what, answer : Since(q, what, answer) => Since(q, what, answer)'
      BY <3>1 DEF Since
    <3> QED
      BY <2>2, <3>1, <3>2 DEF HealthSound
  <2> QED
    BY <2>1, <2>3, HealthStays
<1>4. ProbeIsSwept'
  BY <1>2 DEF HookInv, HookTypeOK, ProbeIsSwept
<1> QED
  BY <1>1, <1>3, <1>4 DEF HookInv

(* A process that only goes to another place, from one where it was not    *)
(* asking for health.                                                      *)
LEMMA OneGoes ==
    ASSUME HookInv, NEW p \in Proc, NEW at \in Running \union ProcOver, Goes(p, at),
           proc[p].at \in Running \ {"health"} \/ at = "killed", proc[p].at \in Running,
           UNCHANGED <<up, outages, reach>>
    PROVE  \E s : Moves(p, s) /\ s.at = at
<1> DEFINE s == [proc[p] EXCEPT !.at = at]
<1>1. proc[p] \in Process /\ HealthSound(p, proc[p])
  BY DEF HookInv, HookTypeOK
<1>2. proc' = [proc EXCEPT ![p] = s]
  BY DEF Goes
<1>3. s \in Process /\ s.at = at
  BY <1>1 DEF Process
<1>4. /\ s.line = proc[p].line /\ s.store = proc[p].store /\ s.feed = proc[p].feed
      /\ s.secrets = proc[p].secrets /\ s.registry = proc[p].registry
  BY <1>1 DEF Process
<1> HIDE DEF s
<1>5. HealthSound(p, s)
  BY <1>1, <1>3, <1>4 DEF HealthSound, Running, ProcOver
<1> QED
  BY <1>2, <1>3, <1>5 DEF Moves

(* Each answer of a health check is right, and so is its report.           *)
LEMMA FeedAnswered ==
    ASSUME HookInv, NEW p \in Proc, FeedToken(p) PROVE \E s : Moves(p, s) /\ proc[p].at = "health"
<1> USE DEF Answered, Asked, Unknown
<1>1. proc[p] \in Process /\ HealthSound(p, proc[p]) /\ proc[p].at = "health" /\ proc[p].feed = Unknown
  BY DEF HookInv, HookTypeOK, FeedToken, Turn
<1>2. proc[p].line \in CommandLine
  BY <1>1 DEF Process
<1>3. CASE proc[p].line.feed # "remote"
  <2> DEFINE s == [proc[p] EXCEPT !.feed = Verdict(proc[p].line.feed = "file" => "feed" \in up)]
  <2>1. proc' = [proc EXCEPT ![p] = s]
    BY <1>3 DEF FeedToken
  <2>2. s \in Process
    BY <1>1 DEF Process, Verdict
  <2>3. HealthSound(p, s)
    BY <1>1, <1>2, <1>3, Line DEF HealthSound, Since, Verdict, Process, Remote, ProcOver
  <2> QED
    BY <1>1, <2>1, <2>2, <2>3 DEF Moves, FeedToken
<1>4. CASE proc[p].line.feed = "remote" /\ (proc[p].line.env \/ ~proc[p].line.named)
  <2> DEFINE s == [proc[p] EXCEPT !.feed = "token"]
  <2>1. proc' = [proc EXCEPT ![p] = s]
    BY <1>4 DEF FeedToken
  <2>2. s \in Process
    BY <1>1 DEF Process
  <2>3. HealthSound(p, s)
    BY <1>1, <1>2, <1>4, Line DEF HealthSound, Since, Process, ProcOver
  <2> QED
    BY <1>1, <2>1, <2>2, <2>3 DEF Moves, FeedToken
<1>5. CASE /\ proc[p].line.feed = "remote" /\ ~(proc[p].line.env \/ ~proc[p].line.named)
           /\ StoreReached(p)
  <2> DEFINE s == [proc[p] EXCEPT !.feed = "token", !.store = "yes"]
  <2>1. proc' = [proc EXCEPT ![p] = s]
    BY <1>5 DEF FeedToken
  <2>2. s \in Process
    BY <1>1 DEF Process
  <2>3. HealthSound(p, s)
    BY <1>1, <1>2, <1>5, Line DEF HealthSound, Since, Process, ProcOver, StoreReached
  <2> QED
    BY <1>1, <2>1, <2>2, <2>3 DEF Moves, FeedToken
<1>6. CASE /\ proc[p].line.feed = "remote" /\ ~(proc[p].line.env \/ ~proc[p].line.named)
           /\ ~StoreReached(p)
  <2> DEFINE s == [proc[p] EXCEPT !.at = "exit 1", !.store = "no"]
  <2>1. proc' = [proc EXCEPT ![p] = s]
    BY <1>6 DEF FeedToken
  <2>2. s \in Process
    BY <1>1 DEF Process, ProcOver
  <2>3. "keychain" \in reach[p].down
    BY <1>1, <1>6 DEF HealthSound, Since, Process, Remote, StoreReached
  <2>4. HealthSound(p, s)
    BY <1>1, <1>2, <1>6, <2>3, Line DEF HealthSound, Since, Process, ProcOver, Needed
  <2> QED
    BY <1>1, <2>1, <2>2, <2>4 DEF Moves, FeedToken
<1> QED
  BY <1>3, <1>4, <1>5, <1>6

LEMMA HealthAnswered ==
    ASSUME HookInv, NEW p \in Proc, FeedHealth(p) \/ SecretsHealth(p) \/ RegistryHealth(p)
    PROVE  \E s : Moves(p, s) /\ proc[p].at = "health"
<1> USE DEF Answered, Asked, Unknown
<1>1. proc[p] \in Process /\ HealthSound(p, proc[p]) /\ proc[p].at = "health"
  BY DEF HookInv, HookTypeOK, FeedHealth, SecretsHealth, RegistryHealth, Turn
<1>2. proc[p].line \in CommandLine
  BY <1>1 DEF Process
<1>3. CASE FeedHealth(p)
  <2> DEFINE s == [proc[p] EXCEPT !.feed = Verdict("feed" \in up)]
  <2>1. proc' = [proc EXCEPT ![p] = s] /\ proc[p].feed = "token"
    BY <1>3 DEF FeedHealth, AnswersTo
  <2>2. s \in Process
    BY <1>1 DEF Process, Verdict
  <2>3. HealthSound(p, s)
    BY <1>1, <1>2, <2>1, Line DEF HealthSound, Since, Verdict, Process, Remote, ProcOver
  <2> QED
    BY <1>1, <1>3, <2>1, <2>2, <2>3 DEF Moves, FeedHealth
<1>4. CASE SecretsHealth(p) /\ proc[p].line.env
  <2> DEFINE s == [proc[p] EXCEPT !.secrets = Verdict(TRUE)]
  <2>1. proc' = [proc EXCEPT ![p] = s]
    BY <1>4 DEF SecretsHealth, AnswersTo
  <2>2. s \in Process
    BY <1>1 DEF Process, Verdict
  <2>3. HealthSound(p, s)
    BY <1>1, <1>2, <1>4, Line DEF HealthSound, Since, Verdict, Process, ProcOver
  <2> QED
    BY <1>1, <1>4, <2>1, <2>2, <2>3 DEF Moves, SecretsHealth
<1>5. CASE SecretsHealth(p) /\ ~proc[p].line.env
  <2> DEFINE s == [proc[p] EXCEPT !.secrets = Verdict(StoreReached(p)),
                                  !.store = Verdict(StoreReached(p))]
  <2>1. proc' = [proc EXCEPT ![p] = s]
    BY <1>1, <1>5 DEF SecretsHealth, HookInv, HookTypeOK
  <2>2. s \in Process
    BY <1>1 DEF Process, Verdict
  <2>3. Since(p, "keychain", Verdict(StoreReached(p)))
    BY <1>1 DEF HealthSound, Since, Verdict, Process, Remote, StoreReached
  <2>4. HealthSound(p, s)
    BY <1>1, <1>2, <1>5, <2>3, Line DEF HealthSound, Verdict, Process, ProcOver
  <2> QED
    BY <1>1, <1>5, <2>1, <2>2, <2>4 DEF Moves, SecretsHealth
<1>6. CASE RegistryHealth(p)
  <2> DEFINE s == [proc[p] EXCEPT !.registry = Verdict(proc[p].line.registry => "registry" \in up)]
  <2>1. proc' = [proc EXCEPT ![p] = s]
    BY <1>6 DEF RegistryHealth, AnswersTo
  <2>2. s \in Process
    BY <1>1 DEF Process, Verdict
  <2>3. /\ s.at = "health" /\ s.line = proc[p].line /\ s.store = proc[p].store
        /\ s.feed = proc[p].feed /\ s.secrets = proc[p].secrets
        /\ s.registry = Verdict(s.line.registry => "registry" \in up)
    BY <1>1, <1>6, <2>2 DEF Process
  <2>4. s.line.registry \in BOOLEAN /\ up \subseteq reach[p].up /\ Remote \ up \subseteq reach[p].down
        /\ "registry" \in Remote
    BY <1>1, <1>2, <2>3, Line DEF HealthSound, Remote
  <2>5. (s.registry = "no" => s.line.registry) /\ (s.line.registry => Since(p, "registry", s.registry))
    BY <2>3, <2>4 DEF Since, Verdict
  <2> HIDE DEF s
  <2>6. HealthSound(p, s)
    BY <1>1, <2>3, <2>4, <2>5 DEF HealthSound, ProcOver
  <2> QED
    BY <1>1, <1>6, <2>1, <2>2, <2>6 DEF Moves, RegistryHealth
<1> QED
  BY <1>3, <1>4, <1>5, <1>6

LEMMA HealthReported ==
    ASSUME HookInv, NEW p \in Proc, ReportHealth(p) PROVE \E s : Moves(p, s) /\ proc[p].at = "health"
<1> DEFINE s == [proc[p] EXCEPT !.at = IF AllHealthy(p) THEN "exit 0" ELSE "exit 1"]
<1>1. proc[p] \in Process /\ HealthSound(p, proc[p]) /\ proc[p].at = "health"
  BY DEF HookInv, HookTypeOK, ReportHealth
<1>2. proc[p].line \in CommandLine
  BY <1>1 DEF Process
<1>3. proc' = [proc EXCEPT ![p] = s] /\ s \in Process
  BY <1>1 DEF ReportHealth, Goes, Process, ProcOver
<1>4. {proc[p].feed, proc[p].secrets, proc[p].registry} \subseteq {"yes", "no"}
  BY DEF ReportHealth, Answered
<1>5. CASE AllHealthy(p)
  <2>1. proc[p].feed = "yes" /\ proc[p].secrets = "yes" /\ proc[p].registry = "yes"
    BY <1>5 DEF AllHealthy
  <2>2. Needed(proc[p].line) \subseteq reach[p].up
    BY <1>1, <1>2, <2>1, Line DEF HealthSound, Since, Needed
  <2>3. HealthSound(p, s)
    BY <1>1, <1>5, <2>2 DEF HealthSound, Process, ProcOver
  <2> QED
    BY <1>1, <1>3, <2>3 DEF Moves, ReportHealth
<1>6. CASE ~AllHealthy(p)
  <2>1. proc[p].feed = "no" \/ proc[p].secrets = "no" \/ proc[p].registry = "no"
    BY <1>4, <1>6 DEF AllHealthy
  <2>2. Needed(proc[p].line) \intersect reach[p].down # {}
    BY <1>1, <1>2, <2>1, Line DEF HealthSound, Since, Needed
  <2>3. HealthSound(p, s)
    BY <1>1, <1>6, <2>2 DEF HealthSound, Process, ProcOver
  <2> QED
    BY <1>1, <1>3, <2>3 DEF Moves, ReportHealth
<1> QED
  BY <1>5, <1>6

\* A history only grows.
LEMMA Monotone ==
    ASSUME NEW p \in Proc, HealthSound(p, proc[p]), proc'[p] = proc[p],
           reach[p].up \subseteq reach'[p].up, reach[p].down \subseteq reach'[p].down,
           \/ UNCHANGED up
           \/ up' \subseteq reach'[p].up /\ Remote \ up' \subseteq reach'[p].down
    PROVE  HealthSound(p, proc[p])'
<1>1. PICK s : s = proc[p]
  OBVIOUS
<1>2. \A what, answer : Since(p, what, answer) => Since(p, what, answer)'
  BY DEF Since
<1>3. /\ "healthcheck" \in s.line.flags => s.at \in {"none", "health"} \union ProcOver
      /\ "healthcheck" \in s.line.flags /\ s.at = "exit 0" => Needed(s.line) \subseteq reach'[p].up
      /\ "healthcheck" \in s.line.flags /\ s.at = "exit 1" =>
            Needed(s.line) \intersect reach'[p].down # {}
  BY <1>1 DEF HealthSound
<1>4. s.at # "none" => up' \subseteq reach'[p].up /\ Remote \ up' \subseteq reach'[p].down
  BY <1>1 DEF HealthSound
<1>5. HealthSound(p, s)'
  BY <1>1, <1>2, <1>3, <1>4 DEF HealthSound
<1> QED
  BY <1>1, <1>5, HealthStays

LEMMA HookStep == ASSUME HookInv, HookNext PROVE HookInv'
<1>0. token \in Proc \union {NoToken} /\ probe \in BOOLEAN /\ strandedProbe \in BOOLEAN
  BY DEF HookInv, HookTypeOK
<1>1. ASSUME NEW what \in Remote, Outage(what) PROVE HookInv'
  <2>1. HookTypeOK'
    <3>1. outages' \in 0 .. MaxOutages /\ up' \subseteq Remote
      BY <1>1, HookCliAssumption DEF HookInv, HookTypeOK, Outage
    <3>2. reach' \in [Proc -> [up : SUBSET Remote, down : SUBSET Remote]]
      BY <1>1, <3>1 DEF HookInv, HookTypeOK, Outage
    <3> QED
      BY <1>0, <1>1, <3>1, <3>2 DEF HookInv, HookTypeOK, Outage
  <2>2. ASSUME NEW p \in Proc PROVE HealthSound(p, proc[p])'
    <3>1. /\ proc'[p] = proc[p]
          /\ reach'[p].up = reach[p].up \union up' /\ reach'[p].down = reach[p].down \union (Remote \ up')
      BY <1>1 DEF Outage
    <3>2. HealthSound(p, proc[p])
      BY DEF HookInv
    <3> QED
      BY <3>1, <3>2, Monotone
  <2>3. ProbeIsSwept'
    BY <1>1 DEF HookInv, ProbeIsSwept, Outage
  <2> QED
    BY <2>1, <2>2, <2>3 DEF HookInv
<1>2. ASSUME NEW p \in Proc, NEW line \in CommandLine, Begin(p, line) PROVE HookInv'
  <2> DEFINE s == [NoProc EXCEPT !.at = FirstHelper(line.flags), !.line = line]
             now == [up |-> up, down |-> Remote \ up]
  <2>1. s \in Process /\ s.at = FirstHelper(line.flags) /\ s.line = line
        /\ {s.store, s.feed, s.secrets, s.registry} = {Unknown}
    BY NoProcTyped DEF Process, FirstHelper, Running
  <2>2. now \in [up : SUBSET Remote, down : SUBSET Remote] /\ now.up = up /\ now.down = Remote \ up
    BY DEF HookInv, HookTypeOK
  <2>3. proc' = [proc EXCEPT ![p] = s] /\ reach' = [reach EXCEPT ![p] = now]
        /\ UNCHANGED <<up, outages, token, probe, strandedProbe>> /\ proc[p].at = "none"
    BY <1>2 DEF Begin
  <2> HIDE DEF s, now
  <2>4. HookTypeOK'
    BY <1>0, <2>1, <2>2, <2>3 DEF HookInv, HookTypeOK
  <2>5. ASSUME NEW q \in Proc PROVE HealthSound(q, proc[q])'
    <3>1. CASE q = p
      <4>1. proc'[q] = s /\ reach'[q] = now
        BY <2>3, <3>1 DEF HookInv, HookTypeOK
      <4> QED
        BY <2>1, <2>2, <2>3, <4>1 DEF HealthSound, Since, Unknown, FirstHelper
    <3>2. CASE q # p
      <4>1. proc'[q] = proc[q] /\ reach'[q] = reach[q] /\ HealthSound(q, proc[q])
        BY <2>3, <3>2 DEF HookInv, HookTypeOK
      <4> QED
        BY <2>3, <4>1, Monotone
    <3> QED
      BY <3>1, <3>2
  <2>6. ProbeIsSwept'
    BY <2>3 DEF HookInv, HookTypeOK, ProbeIsSwept
  <2> QED
    BY <2>4, <2>5, <2>6 DEF HookInv
<1>3. ASSUME NEW p \in Proc, UNCHANGED <<token, probe, strandedProbe>>,
             \E s : Moves(p, s) /\ proc[p].at # "probed"
      PROVE  HookInv'
  BY <1>0, <1>3, OneMoves
<1>4. ASSUME NEW p \in Proc, FeedToken(p) PROVE HookInv'
  BY <1>3, <1>4, FeedAnswered DEF FeedToken
<1>5. ASSUME NEW p \in Proc, FeedHealth(p) \/ SecretsHealth(p) \/ RegistryHealth(p) PROVE HookInv'
  <2>1. UNCHANGED <<token, probe, strandedProbe>>
    BY <1>5 DEF FeedHealth, SecretsHealth, RegistryHealth
  <2> QED
    BY <1>3, <1>5, <2>1, HealthAnswered
<1>6. ASSUME NEW p \in Proc, ReportHealth(p) PROVE HookInv'
  BY <1>3, <1>6, HealthReported DEF ReportHealth
<1>7. ASSUME NEW p \in Proc, \/ CheckRegistry(p) \/ RefuseTokenCli(p) \/ NoSecretsApi(p) \/ Import(p)
                             \/ ListToken(p) \/ (\E given \in BOOLEAN : AskToken(p, given))
      PROVE  HookInv'
  <2>1. UNCHANGED <<up, outages, token, probe, strandedProbe, reach>>
    BY <1>7 DEF CheckRegistry, RefuseTokenCli, NoSecretsApi, Import, ListToken, AskToken
  <2>2. proc[p].at \in {"registry", "token", "swept"}
    BY <1>7 DEF CheckRegistry, RefuseTokenCli, NoSecretsApi, Import, ListToken, AskToken, Commands
  <2>3. \E at \in Running \union ProcOver : Goes(p, at)
    BY <1>7 DEF CheckRegistry, RefuseTokenCli, NoSecretsApi, Import, ListToken, AskToken,
                Running, ProcOver
  <2>4. \E s : Moves(p, s)
    BY <2>1, <2>2, <2>3, OneGoes DEF Running
  <2> QED
    BY <1>3, <2>1, <2>2, <2>4
<1>8. ASSUME NEW p \in Proc, WriteProbe(p) \/ SweepProbe(p) \/ StoreToken(p) \/ ClearToken(p)
      PROVE  HookInv'
  <2>1. PICK at \in Running \union ProcOver :
          /\ Goes(p, at)
          /\ probe' \in BOOLEAN /\ strandedProbe' \in BOOLEAN /\ (strandedProbe => strandedProbe')
          /\ probe' => \/ strandedProbe' \/ at = "probed"
                       \/ probe /\ (proc[p].at = "probed" => strandedProbe')
    <3>1. CASE WriteProbe(p)
      BY <1>0, <3>1 DEF WriteProbe, Commands, Running, ProcOver
    <3>2. CASE SweepProbe(p)
      BY <1>0, <3>2 DEF SweepProbe, Running
    <3>3. CASE StoreToken(p) \/ ClearToken(p)
      <4>1. \E at \in ProcOver : Goes(p, at)
        BY <3>3 DEF StoreToken, ClearToken, ProcOver
      <4>2. UNCHANGED <<probe, strandedProbe>> /\ proc[p].at # "probed"
        BY <3>3 DEF StoreToken, ClearToken, Commands
      <4> QED
        BY <1>0, <4>1, <4>2
    <3> QED
      BY <1>8, <3>1, <3>2, <3>3
  <2>2. /\ token' \in Proc \union {NoToken} /\ UNCHANGED <<up, outages, reach>>
        /\ proc[p].at \in {"token", "probed", "asked"}
    BY <1>0, <1>8 DEF WriteProbe, SweepProbe, StoreToken, ClearToken, Commands
  <2>3. PICK s : Moves(p, s) /\ s.at = at
    BY <2>1, <2>2, OneGoes DEF Running
  <2> QED
    BY <2>1, <2>2, <2>3, OneMoves
<1>9. ASSUME NEW p \in Proc, KillHook(p) PROVE HookInv'
  <2>1. /\ Goes(p, "killed") /\ proc[p].at \in Running /\ "killed" \in ProcOver
        /\ UNCHANGED <<up, outages, token, probe, reach>>
        /\ strandedProbe' = (strandedProbe \/ proc[p].at = "probed")
    BY <1>9 DEF KillHook, ProcOver
  <2>2. PICK s : Moves(p, s) /\ s.at = "killed"
    BY <2>1, OneGoes
  <2>3. strandedProbe' \in BOOLEAN
    BY <1>0, <2>1
  <2> QED
    BY <1>0, <2>1, <2>2, <2>3, OneMoves
<1> QED
  BY <1>1, <1>2, <1>4, <1>5, <1>6, <1>7, <1>8, <1>9 DEF HookNext

LEMMA HookSteps == ASSUME HookInv, HookNext \/ UNCHANGED hookVars PROVE HookInv'
<1>1. CASE UNCHANGED hookVars
  BY <1>1 DEF hookVars, HookInv, HookTypeOK, ProbeIsSwept, HealthSound, Since
<1> QED
  BY <1>1, HookStep

(* A health check tells the truth about what was within reach since it     *)
(* began, and no placeholder stays in the keychain: of any processes,      *)
(* command lines and outages (index.ts:1125-1298, 1324-1461).              *)
THEOREM CommandsHold == HookSpec => []HookCommandsHold
<1>1. HookInit => HookInv
  BY HookBegins
<1>2. HookInv /\ [HookNext]_hookVars => HookInv'
  BY HookSteps
<1>3. HookInv => HookCommandsHold
  <2>1. HookInv => HealthIsTrue
    BY DEF HookInv, HealthIsTrue, HealthSound, Needed
  <2> QED
    BY <2>1 DEF HookInv, HookCommandsHold
<1> QED
  BY <1>1, <1>2, <1>3, PTL DEF HookSpec

-----------------------------------------------------------------------------
(* InstallHook.  The threats of a scan are a sequence, each of a rule and  *)
(* of packages of the scan, of at least one.                               *)
LEMMA ThreatsTyped ==
    ASSUME NEW packages \in Seq(Packages), NEW f \in Feed
    PROVE  /\ FindThreats(packages, f) \in Seq(Hit)
           /\ \A i \in DOMAIN FindThreats(packages, f) : FindThreats(packages, f)[i].matching # <<>>
<1>1. f.rules \in Seq(Rules)
  BY HookAssumption
<1> DEFINE all == [i \in DOMAIN f.rules |-> MatchRule(f.rules[i], packages, f.allowlist)]
           matched == Filter(all, {i \in DOMAIN f.rules : all[i].matching # <<>>})
<1>2. ASSUME NEW i \in DOMAIN f.rules PROVE MatchRule(f.rules[i], packages, f.allowlist) \in Hit
  <2>1. f.rules[i] \in Rules
    BY <1>1
  <2>2. {j \in DOMAIN packages : Hits(f.rules[i], packages[j], f.allowlist)} \in SUBSET (DOMAIN packages)
    OBVIOUS
  <2> QED
    BY <2>1, <2>2, FilterTyped DEF MatchRule, Hit
<1>3. all \in Seq(Hit) /\ DOMAIN all = DOMAIN f.rules
  BY <1>1, <1>2
<1>4. matched \in Seq(Hit) /\ \A n \in DOMAIN matched : matched[n].matching # <<>>
  <2> DEFINE hits == {i \in DOMAIN f.rules : all[i].matching # <<>>}
  <2>1. hits \in SUBSET (DOMAIN all) /\ \A i \in hits : all[i].matching # <<>>
    BY <1>3
  <2> HIDE DEF all, hits
  <2>2. Filter(all, hits) \in Seq(Hit)
        /\ \A n \in DOMAIN Filter(all, hits) : Filter(all, hits)[n].matching # <<>>
    BY <1>3, <2>1, FilterTyped
  <2> QED
    BY <2>2 DEF hits
<1>5. MatchThreats(packages, f.rules, f.allowlist) = matched
  BY DEF MatchThreats
<1> HIDE DEF matched
<1> DEFINE known == {i \in DOMAIN matched : Categorize(matched[i].item, HookPolicy) # "none"}
<1>6. FindThreats(packages, f) = Filter(matched, known)
  BY <1>5 DEF FindThreats
<1>7. known \in SUBSET (DOMAIN matched)
  OBVIOUS
<1> HIDE DEF known
<1> QED
  BY <1>4, <1>6, <1>7, FilterTyped

(* The inductive invariant.  A feed in the cache, in an answer or in use   *)
(* was published; one that a scan fetched, while it ran.                   *)
CacheSound ==
    /\ origin \in published
    /\ cache \notin {None, Torn} => cache.feed \in published

\* A scan's history has what the origin and the registry have now.
HistorySound(s) ==
    s.pc # "idle" /\ s.kind = "scan" =>
        /\ s.packages \in List /\ origin \in s.feeds
        /\ \A p \in Tarballs : <<p, registry[p]>> \in s.tarballs

Fetched(s, f) == f \in published /\ (s.kind = "scan" => f \in s.feeds)

FeedSound(s) ==
    /\ s.pc = "body" /\ s.feed.ok => Fetched(s, s.feed.feed)
    /\ s.pc \in {"open", "close"} => Fetched(s, s.feed)
    /\ s.pc \in {"match", "verify"} =>
          s.feed \in published /\ (s.source = "remote" => s.feed \in s.feeds)

\* A package that is no reason to report: its tarball was another one.
Cleared(s, p, blocked) == p.tarball => HashesOf(s, p) \ blocked # {}

Judged(s, i) ==
    LET blocked == s.threats[i].item.hashes
        matching == s.threats[i].matching
    IN IF i \in s.reported
         THEN blocked # {} =>
                \E j \in DOMAIN matching :
                    matching[j].tarball /\ HashesOf(s, matching[j]) \cap blocked # {}
         ELSE blocked # {} /\ \A j \in DOMAIN matching : Cleared(s, matching[j], blocked)

\* The threats before the one being verified are judged, and the packages
\* before the one whose tarball is next are cleared.
VerdictsSound(s) ==
    /\ s.pc # "verify" => s.threats = <<>> /\ s.threat = 1 /\ s.package = 1 /\ s.reported = {}
    /\ s.pc = "verify" =>
          /\ s.kind = "scan" /\ s.threats = FindThreats(s.packages, s.feed)
          /\ \A i \in DOMAIN s.threats : s.threats[i].matching # <<>>
          /\ \A i \in DOMAIN s.threats : i < s.threat => Judged(s, i)
          /\ s.threat \in DOMAIN s.threats =>
                \A j \in DOMAIN s.threats[s.threat].matching :
                    j < s.package => Cleared(s, s.threats[s.threat].matching[j],
                                             s.threats[s.threat].item.hashes)

TaskTyped(s) ==
    /\ s.kind = "refresh" => s.pc \in {"token", "fetch", "body", "open", "close"}
    /\ s.pc = "body" => s.feed \in Reply
    /\ s.pc \in {"open", "close", "match", "verify"} => s.feed \in Feed
    /\ s.threat \in 1 .. Len(s.threats) + 1
    /\ s.reported \subseteq 1 .. s.threat - 1
    /\ s.package > 1 => s.package <= Len(s.threats[s.threat].matching)

TaskSound(s) == TaskTyped(s) /\ HistorySound(s) /\ FeedSound(s) /\ VerdictsSound(s)

InstallInv == TypeOK /\ CacheSound /\ \A t \in Task : TaskSound(task[t])

-----------------------------------------------------------------------------
LEMMA IdleSound == Idle \in TaskState /\ TaskSound(Idle) /\ Idle.pc = "idle" /\ Idle.kind = "scan"
<1>1. Idle \in TaskState
  BY DEF Idle, TaskState
<1>2. /\ Idle.pc = "idle" /\ Idle.kind = "scan" /\ Idle.threats = <<>> /\ Idle.threat = 1
      /\ Idle.package = 1 /\ Idle.reported = {}
  BY DEF Idle
<1>3. TaskTyped(Idle) /\ HistorySound(Idle) /\ FeedSound(Idle) /\ VerdictsSound(Idle)
  BY <1>2 DEF TaskTyped, HistorySound, FeedSound, VerdictsSound
<1> QED
  BY <1>1, <1>2, <1>3 DEF TaskSound

(* What is sound stays so while the origin and the registry stay.          *)
\* A verdict stays as the history of the tarballs grows.
LEMMA JudgedKept ==
    ASSUME NEW s, NEW u, NEW i, u.threats = s.threats, i \in u.reported <=> i \in s.reported,
           \A p : HashesOf(s, p) \subseteq HashesOf(u, p), Judged(s, i)
    PROVE  Judged(u, i)
<1> DEFINE blocked == s.threats[i].item.hashes
           matching == s.threats[i].matching
<1>1. CASE i \in s.reported
  <2>1. blocked # {} => \E j \in DOMAIN matching :
                           matching[j].tarball /\ HashesOf(u, matching[j]) \cap blocked # {}
    BY <1>1 DEF Judged
  <2> QED
    BY <1>1, <2>1 DEF Judged
<1>2. CASE i \notin s.reported
  <2>1. blocked # {} /\ \A j \in DOMAIN matching : Cleared(u, matching[j], blocked)
    BY <1>2 DEF Judged, Cleared
  <2> QED
    BY <1>2, <2>1 DEF Judged
<1> QED
  BY <1>1, <1>2

LEMMA VerdictsKept ==
    ASSUME NEW s, NEW u, VerdictsSound(s), u.pc = s.pc, u.kind = s.kind, u.packages = s.packages,
           u.feed = s.feed, u.threats = s.threats, u.threat = s.threat, u.package = s.package,
           u.reported = s.reported, s.tarballs \subseteq u.tarballs
    PROVE  VerdictsSound(u)
<1>1. \A p : HashesOf(s, p) \subseteq HashesOf(u, p)
  BY DEF HashesOf
<1>2. CASE s.pc # "verify"
  BY <1>2 DEF VerdictsSound
<1>3. CASE s.pc = "verify"
  <2>1. \A i \in DOMAIN u.threats : i < u.threat => Judged(u, i)
    BY <1>1, <1>3, JudgedKept DEF VerdictsSound
  <2>2. u.threat \in DOMAIN u.threats =>
          \A j \in DOMAIN u.threats[u.threat].matching :
              j < u.package => Cleared(u, u.threats[u.threat].matching[j],
                                       u.threats[u.threat].item.hashes)
    BY <1>1, <1>3 DEF VerdictsSound, Cleared
  <2> QED
    BY <1>3, <2>1, <2>2 DEF VerdictsSound
<1> QED
  BY <1>2, <1>3

LEMMA VerdictsStay ==
    ASSUME NEW u \in Task, VerdictsSound(task'[u]) PROVE VerdictsSound(task[u])'
<1>1. \A i : Judged(task'[u], i) => Judged(task[u], i)'
  BY DEF Judged, Cleared, HashesOf
<1> QED
  BY <1>1 DEF VerdictsSound, Cleared, HashesOf

LEMMA SoundStays ==
    ASSUME NEW u \in Task, TaskSound(task'[u]), UNCHANGED <<origin, registry, published>>
    PROVE  TaskSound(task[u])'
<1>1. TaskTyped(task[u])' /\ HistorySound(task[u])' /\ FeedSound(task[u])'
  BY DEF TaskSound, TaskTyped, HistorySound, FeedSound, Fetched
<1>2. VerdictsSound(task[u])'
  BY VerdictsStay DEF TaskSound
<1> QED
  BY <1>1, <1>2 DEF TaskSound

\* A cache file never goes away.
CacheStep ==
    /\ cache' \in {None, Torn} \union [feed : Feed, fresh : BOOLEAN]
    /\ cache # None => cache' # None
    /\ cache' \notin {None, Torn} => cache'.feed \in published
    /\ available' \in {"unknown", "yes"}
    /\ UNCHANGED <<origin, registry, published>>

(* A step of tasks, to states that are sound.                              *)
LEMMA AllTasks ==
    ASSUME InstallInv, task' \in [Task -> TaskState], CacheStep,
           \A u \in Task : TaskSound(task'[u]) /\ (task'[u].pc = "close" => cache' # None)
    PROVE  InstallInv'
<1>1. ASSUME NEW u \in Task PROVE TaskSound(task[u])'
  BY SoundStays DEF CacheStep
<1>2. TypeOK'
  <2>1. \A u \in Task : TaskTyped(task'[u])
    BY DEF TaskSound
  <2> QED
    BY <2>1 DEF TypeOK, TaskTyped, InstallInv, CacheStep
<1>3. CacheSound'
  BY DEF InstallInv, CacheSound, CacheStep
<1> QED
  BY <1>1, <1>2, <1>3 DEF InstallInv

LEMMA OneTask ==
    ASSUME InstallInv, NEW t \in Task, NEW s \in TaskState, TaskSound(s),
           task' = [task EXCEPT ![t] = s], CacheStep, s.pc = "close" => cache' # None
    PROVE  InstallInv'
<1>1. task' \in [Task -> TaskState] /\ \A u \in Task : task'[u] = s \/ task'[u] = task[u]
  BY DEF InstallInv, TypeOK
<1>2. \A u \in Task : TaskSound(task'[u]) /\ (task'[u].pc = "close" => cache' # None)
  BY <1>1 DEF InstallInv, TypeOK, CacheStep
<1> QED
  BY <1>1, <1>2, AllTasks

(* The steps of a task, but for those that judge a threat and those that   *)
(* end the process.                                                        *)
LEMMA FetchSteps ==
    ASSUME InstallInv, NEW t \in Task,
           \/ GetToken(t) \/ Answer(t) \/ BodyArrives(t) \/ FetchFails(t)
           \/ DownloadFails(t) \/ ScanReturns(t)
    PROVE  InstallInv'
<1> DEFINE s0 == task[t]
<1>1. s0 \in TaskState /\ TaskTyped(s0) /\ HistorySound(s0) /\ FeedSound(s0) /\ VerdictsSound(s0)
  BY DEF InstallInv, TypeOK, TaskSound
<1>2. UNCHANGED <<origin, registry, published, cache>> /\ available' \in {"unknown", "yes"}
  BY DEF InstallInv, TypeOK, GetToken, Answer, BodyArrives, FetchFails, DownloadFails, ScanReturns, external
<1>3. CacheStep
  BY <1>2 DEF CacheStep, InstallInv, TypeOK, CacheSound
<1>4. CASE GetToken(t)
  <2> DEFINE s == [s0 EXCEPT !.pc = "fetch"]
  <2>1. task' = [task EXCEPT ![t] = s] /\ s0.pc = "token"
    BY <1>4 DEF GetToken
  <2>2. s \in TaskState
    BY <1>1 DEF TaskState
  <2>3. TaskTyped(s) /\ HistorySound(s) /\ FeedSound(s) /\ VerdictsSound(s)
    BY <1>1, <2>1 DEF TaskTyped, HistorySound, FeedSound, VerdictsSound, TaskState
  <2>4. s.pc # "close"
    BY <1>1 DEF TaskState
  <2> QED
    BY <1>3, <2>1, <2>2, <2>3, <2>4, OneTask DEF TaskSound
<1>5. CASE Answer(t)
  <2>1. PICK a \in Answers : task' = [task EXCEPT ![t].pc = "body", ![t].feed = a] /\ s0.pc = "fetch"
    BY <1>5 DEF Answer
  <2> DEFINE s == [s0 EXCEPT !.pc = "body", !.feed = a]
  <2>2. task' = [task EXCEPT ![t] = s]
    BY <1>1, <2>1 DEF InstallInv, TypeOK
  <2>3. a \in Reply /\ (a.ok => a.feed = origin)
    <3>1. origin \in Feed
      BY DEF InstallInv, TypeOK
    <3>2. CASE a = [ok |-> TRUE, feed |-> origin]
      BY <3>1, <3>2 DEF Reply
    <3>3. CASE a = [ok |-> FALSE, feed |-> EmptyFeed]
      BY <3>3 DEF Reply
    <3> QED
      BY <3>2, <3>3 DEF Answers
  <2>4. s \in TaskState
    BY <1>1, <2>3 DEF TaskState
  <2>5. TaskTyped(s) /\ HistorySound(s) /\ VerdictsSound(s)
    BY <1>1, <2>1, <2>3 DEF TaskTyped, HistorySound, VerdictsSound, TaskState
  <2>6. FeedSound(s)
    BY <1>1, <2>1, <2>3 DEF FeedSound, Fetched, HistorySound, TaskState, InstallInv, CacheSound
  <2>7. s.pc # "close"
    BY <1>1 DEF TaskState
  <2> QED
    BY <1>3, <2>2, <2>4, <2>5, <2>6, <2>7, OneTask DEF TaskSound
<1>6. CASE BodyArrives(t)
  <2> DEFINE s == [s0 EXCEPT !.pc = "open", !.feed = s0.feed.feed]
  <2>1. task' = [task EXCEPT ![t] = s] /\ s0.pc = "body" /\ s0.feed.ok
    BY <1>1, <1>6 DEF BodyArrives, InstallInv, TypeOK
  <2>2. Fetched(s0, s0.feed.feed) /\ s0.feed.feed \in Feed
    BY <1>1, <2>1 DEF FeedSound, Fetched, InstallInv, TypeOK
  <2>3. s \in TaskState
    BY <1>1, <2>2 DEF TaskState
  <2>4. TaskTyped(s) /\ HistorySound(s) /\ VerdictsSound(s)
    BY <1>1, <2>1, <2>2 DEF TaskTyped, HistorySound, VerdictsSound, TaskState
  <2>5. FeedSound(s)
    BY <1>1, <2>1, <2>2 DEF FeedSound, Fetched, TaskState
  <2>6. s.pc # "close"
    BY <1>1 DEF TaskState
  <2> QED
    BY <1>3, <2>1, <2>3, <2>4, <2>5, <2>6, OneTask DEF TaskSound
<1>7. CASE FetchFails(t) \/ DownloadFails(t) \/ ScanReturns(t)
  <2>1. task' = [task EXCEPT ![t] = Idle]
    BY <1>7 DEF FetchFails, DownloadFails, ScanReturns, Ends
  <2> QED
    BY <1>3, <2>1, IdleSound, OneTask
<1> QED
  BY <1>4, <1>5, <1>6, <1>7

LEMMA CacheSteps ==
    ASSUME InstallInv, NEW t \in Task, OpenCache(t) \/ CloseCache(t) PROVE InstallInv'
<1> DEFINE s0 == task[t]
<1>1. s0 \in TaskState /\ TaskTyped(s0) /\ HistorySound(s0) /\ FeedSound(s0) /\ VerdictsSound(s0)
  BY DEF InstallInv, TypeOK, TaskSound
<1>2. s0.pc \in {"open", "close"} /\ Fetched(s0, s0.feed) /\ s0.feed \in Feed
  BY <1>1 DEF OpenCache, CloseCache, FeedSound, TaskTyped
<1>3. CacheStep
  <2>1. CASE OpenCache(t)
    <3>1. cache' \in {cache, Torn} /\ UNCHANGED <<origin, registry, published, available>>
      BY <2>1 DEF OpenCache, external
    <3> QED
      BY <3>1, HookAssumption DEF CacheStep, InstallInv, TypeOK, CacheSound
  <2>2. CASE CloseCache(t)
    <3> DEFINE new == [feed |-> s0.feed, fresh |-> TRUE]
    <3>1. cache' \in {new, Torn} /\ UNCHANGED <<origin, registry, published, available>>
      BY <2>2 DEF CloseCache, external
    <3>2. new \in [feed : Feed, fresh : BOOLEAN] /\ new.feed \in published
      BY <1>2 DEF Fetched
    <3>3. new # None /\ new # Torn /\ None # Torn
      BY <3>2, HookAssumption
    <3> HIDE DEF new
    <3> QED
      BY <3>1, <3>2, <3>3 DEF CacheStep, InstallInv, TypeOK
  <2> QED
    BY <2>1, <2>2
<1>4. CASE Loaded(t) /\ s0.kind = "refresh"
  BY <1>3, <1>4, IdleSound, OneTask DEF Loaded, Ends
<1>5. CASE Loaded(t) /\ s0.kind # "refresh"
  <2> DEFINE s == [s0 EXCEPT !.pc = "match", !.source = "remote"]
  <2>1. task' = [task EXCEPT ![t] = s]
    BY <1>1, <1>5 DEF Loaded, InstallInv, TypeOK
  <2>2. s \in TaskState /\ s0.kind = "scan"
    BY <1>1, <1>5 DEF TaskState
  <2>3. TaskTyped(s) /\ HistorySound(s) /\ FeedSound(s) /\ VerdictsSound(s)
    BY <1>1, <1>2, <2>2 DEF TaskTyped, HistorySound, FeedSound, Fetched, VerdictsSound, TaskState
  <2>4. s.pc # "close"
    BY <1>1 DEF TaskState
  <2> QED
    BY <1>3, <2>1, <2>2, <2>3, <2>4, OneTask DEF TaskSound
<1>6. CASE cache' = Torn /\ task' = [task EXCEPT ![t].pc = "close"]
  <2> DEFINE s == [s0 EXCEPT !.pc = "close"]
  <2>1. task' = [task EXCEPT ![t] = s] /\ cache' # None
    BY <1>6, HookAssumption
  <2>2. s \in TaskState
    BY <1>1 DEF TaskState
  <2>3. TaskTyped(s) /\ HistorySound(s) /\ FeedSound(s) /\ VerdictsSound(s)
    BY <1>1, <1>2 DEF TaskTyped, HistorySound, FeedSound, Fetched, VerdictsSound, TaskState
  <2> QED
    BY <1>3, <2>1, <2>2, <2>3, OneTask DEF TaskSound
<1> QED
  BY <1>4, <1>5, <1>6 DEF OpenCache, CloseCache

(* A fresh cache file is used, and a refresh is left running.              *)
LEMMA ReadStep == ASSUME InstallInv, NEW t \in Task, ReadCache(t) PROVE InstallInv'
<1> DEFINE s0 == task[t]
<1>1. s0 \in TaskState /\ TaskTyped(s0) /\ HistorySound(s0) /\ FeedSound(s0) /\ VerdictsSound(s0)
  BY DEF InstallInv, TypeOK, TaskSound
<1>2. CacheStep /\ s0.pc = "cache" /\ s0.kind = "scan"
  <2>1. s0.pc = "cache" /\ UNCHANGED <<origin, registry, published, cache, available>>
    BY DEF ReadCache, external
  <2> QED
    BY <1>1, <2>1 DEF CacheStep, InstallInv, TypeOK, CacheSound, TaskTyped, TaskState
<1>3. CASE ~Fresh
  <2> DEFINE s == [s0 EXCEPT !.pc = "token"]
  <2>1. task' = [task EXCEPT ![t] = s]
    BY <1>3 DEF ReadCache
  <2>2. s \in TaskState
    BY <1>1 DEF TaskState
  <2>3. TaskTyped(s) /\ HistorySound(s) /\ FeedSound(s) /\ VerdictsSound(s)
    BY <1>1, <1>2 DEF TaskTyped, HistorySound, FeedSound, VerdictsSound, TaskState
  <2>4. s.pc # "close"
    BY <1>1 DEF TaskState
  <2> QED
    BY <1>2, <2>1, <2>2, <2>3, <2>4, OneTask DEF TaskSound
<1>4. CASE Fresh
  <2>1. PICK r \in Task : /\ task[r].pc = "idle"
                          /\ task' = [task EXCEPT
                               ![r] = [Idle EXCEPT !.pc = "token", !.kind = "refresh"],
                               ![t] = [@ EXCEPT !.pc = "match", !.source = "cache", !.feed = cache.feed]]
    BY <1>4 DEF ReadCache
  <2> DEFINE r1 == [Idle EXCEPT !.pc = "token", !.kind = "refresh"]
             s == [s0 EXCEPT !.pc = "match", !.source = "cache", !.feed = cache.feed]
  <2>2. r # t
    BY <1>2, <2>1
  <2>3. task' = [task EXCEPT ![r] = r1, ![t] = s]
    BY <2>1, <2>2 DEF InstallInv, TypeOK
  <2>4. cache.feed \in Feed /\ cache.feed \in published
    BY <1>4 DEF Fresh, InstallInv, TypeOK, CacheSound
  <2>5. s \in TaskState
    BY <1>1, <2>4 DEF TaskState
  <2>6. TaskTyped(s) /\ HistorySound(s) /\ FeedSound(s) /\ VerdictsSound(s) /\ s.pc # "close"
    BY <1>1, <1>2, <2>4 DEF TaskTyped, HistorySound, FeedSound, VerdictsSound, TaskState
  <2>7. r1 \in TaskState /\ TaskTyped(r1) /\ HistorySound(r1) /\ FeedSound(r1) /\ VerdictsSound(r1)
        /\ r1.pc # "close"
    BY IdleSound DEF TaskSound, TaskTyped, HistorySound, FeedSound, VerdictsSound, TaskState
  <2> HIDE DEF s, r1
  <2>8. \A u \in Task : task'[u] \in {s, r1, task[u]}
    BY <2>3 DEF InstallInv, TypeOK
  <2>9. task' \in [Task -> TaskState]
    BY <2>3, <2>5, <2>7 DEF InstallInv, TypeOK
  <2>10. \A u \in Task : TaskSound(task'[u]) /\ (task'[u].pc = "close" => cache # None)
    BY <2>6, <2>7, <2>8 DEF TaskSound, InstallInv, TypeOK
  <2> QED
    BY <1>2, <2>9, <2>10, AllTasks DEF ReadCache
<1> QED
  BY <1>3, <1>4

LEMMA HitTyped ==
    ASSUME NEW threats \in Seq(Hit), NEW i \in DOMAIN threats
    PROVE  /\ threats[i].matching \in Seq(Packages)
           /\ DOMAIN threats[i].matching = 1 .. Len(threats[i].matching)
           /\ Len(threats[i].matching) \in Nat
<1>1. PICK h \in Hit : h = threats[i]
  OBVIOUS
<1>2. h.matching \in Seq(Packages)
  BY DEF Hit
<1>3. DOMAIN h.matching = 1 .. Len(h.matching) /\ Len(h.matching) \in Nat
  BY <1>2
<1> QED
  BY <1>1, <1>2, <1>3

LEMMA MatchStep == ASSUME InstallInv, NEW t \in Task, Match(t) PROVE InstallInv'
<1> DEFINE s0 == task[t]
<1>1. s0 \in TaskState /\ TaskTyped(s0) /\ HistorySound(s0) /\ FeedSound(s0) /\ VerdictsSound(s0)
  BY DEF InstallInv, TypeOK, TaskSound
<1>2. s0.pc = "match" /\ s0.kind = "scan" /\ s0.feed \in Feed
  BY <1>1 DEF Match, TaskTyped, TaskState
<1>3. CacheStep
  BY DEF Match, external, CacheStep, InstallInv, TypeOK, CacheSound
<1>4. PICK found : found = FindThreats(s0.packages, s0.feed)
  OBVIOUS
<1>5. found \in Seq(Hit) /\ \A i \in DOMAIN found : found[i].matching # <<>>
  <2>1. s0.packages \in Seq(Packages)
    BY <1>1, <1>2, HookAssumption DEF HistorySound
  <2> QED
    BY <1>2, <1>4, <2>1, ThreatsTyped
<1> DEFINE s == [s0 EXCEPT !.pc = "verify", !.threats = found]
<1>6. task' = [task EXCEPT ![t] = s]
  BY <1>4 DEF Match, InstallInv, TypeOK
<1>7. s \in TaskState
  BY <1>1, <1>5 DEF TaskState
<1>8. /\ s.pc = "verify" /\ s.kind = "scan" /\ s.threats = found /\ s.threat = 1 /\ s.package = 1
      /\ s.reported = {} /\ s.packages = s0.packages /\ s.feed = s0.feed /\ s.feeds = s0.feeds
      /\ s.tarballs = s0.tarballs /\ s.source = s0.source
  BY <1>1, <1>2 DEF VerdictsSound, TaskState
<1> HIDE DEF s
<1>9. Len(found) \in Nat /\ DOMAIN found = 1 .. Len(found)
  BY <1>5
<1>10. TaskTyped(s)
  BY <1>2, <1>8, <1>9 DEF TaskTyped
<1>11. HistorySound(s) /\ FeedSound(s)
  BY <1>1, <1>2, <1>8 DEF HistorySound, FeedSound
<1>12. VerdictsSound(s)
  <2>1. \A i \in DOMAIN found : ~(i < 1) /\ \A j \in DOMAIN found[i].matching : ~(j < 1)
    <3>1. \A i \in DOMAIN found : \A j \in DOMAIN found[i].matching : j \in Nat \ {0}
      BY <1>5, HitTyped
    <3> QED
      BY <1>9, <3>1
  <2> QED
    BY <1>4, <1>5, <1>8, <2>1 DEF VerdictsSound
<1> QED
  BY <1>3, <1>6, <1>7, <1>8, <1>10, <1>11, <1>12, OneTask DEF TaskSound

(* A threat is judged, or one of its packages is cleared.                  *)
LEMMA VerifySteps ==
    ASSUME InstallInv, NEW t \in Task, ReportUnhashed(t) \/ CompareHash(t) PROVE InstallInv'
<1> DEFINE s0 == task[t]
           n == s0.threat
           matching == s0.threats[n].matching
           blocked == s0.threats[n].item.hashes
           Same(s) == /\ s.pc = "verify" /\ s.kind = "scan" /\ s.threats = s0.threats
                       /\ s.packages = s0.packages /\ s.feed = s0.feed /\ s.feeds = s0.feeds
                       /\ s.tarballs = s0.tarballs /\ s.source = s0.source
<1>1. s0 \in TaskState /\ TaskTyped(s0) /\ HistorySound(s0) /\ FeedSound(s0) /\ VerdictsSound(s0)
  BY DEF InstallInv, TypeOK, TaskSound
<1>2. s0.pc = "verify" /\ s0.kind = "scan" /\ n <= Len(s0.threats)
  BY <1>1 DEF ReportUnhashed, CompareHash, Verifying, VerdictsSound
<1>3. CacheStep
  BY DEF ReportUnhashed, CompareHash, external, CacheStep, InstallInv, TypeOK, CacheSound
<1>4. /\ s0.threats \in Seq(Hit) /\ DOMAIN s0.threats = 1 .. Len(s0.threats)
      /\ n \in DOMAIN s0.threats /\ n \in Nat \ {0} /\ s0.package \in Nat \ {0}
  BY <1>1, <1>2 DEF TaskState
<1>5. matching \in Seq(Packages) /\ matching # <<>> /\ DOMAIN matching = 1 .. Len(matching)
      /\ Len(matching) \in Nat
  <2>1. matching # <<>>
    BY <1>1, <1>2, <1>4 DEF VerdictsSound
  <2> QED
    BY <1>4, <2>1, HitTyped
<1>6. s0.package \in DOMAIN matching
  <2>1. s0.package > 1 => s0.package <= Len(matching)
    BY <1>1 DEF TaskTyped
  <2>2. Len(matching) # 0
    BY <1>5
  <2> HIDE DEF matching
  <2> QED
    BY <1>4, <1>5, <2>1, <2>2
<1>7. ASSUME NEW s, Same(s) PROVE HistorySound(s) /\ FeedSound(s) /\ \A p : HashesOf(s, p) = HashesOf(s0, p)
  BY <1>1, <1>2, <1>7 DEF HistorySound, FeedSound, HashesOf
<1>8. ASSUME NEW s \in TaskState, Same(s), s.threat = n + 1, s.package = 1,
             s.reported \in {s0.reported, s0.reported \union {n}}, Judged(s, n),
             task' = [task EXCEPT ![t] = s]
      PROVE  InstallInv'
  <2>1. TaskTyped(s)
    BY <1>1, <1>2, <1>4, <1>8 DEF TaskTyped
  <2>2. ASSUME NEW i \in DOMAIN s0.threats, i < n + 1 PROVE Judged(s, i)
    <3>1. CASE i = n
      BY <1>8, <3>1
    <3>2. CASE i # n
      <4>1. Judged(s0, i) /\ (i \in s.reported <=> i \in s0.reported)
        BY <1>1, <1>2, <1>4, <1>8, <2>2, <3>2 DEF VerdictsSound
      <4> QED
        BY <1>7, <1>8, <4>1, JudgedKept
    <3> QED
      BY <3>1, <3>2
  <2>3. n + 1 \in DOMAIN s0.threats => \A j \in DOMAIN s0.threats[n + 1].matching : ~(j < 1)
    <3>1. SUFFICES ASSUME n + 1 \in DOMAIN s0.threats,
                          NEW j \in DOMAIN s0.threats[n + 1].matching PROVE ~(j < 1)
      OBVIOUS
    <3>2. PICK next : next = s0.threats[n + 1].matching
      OBVIOUS
    <3>3. DOMAIN next = 1 .. Len(next) /\ Len(next) \in Nat
      BY <1>4, <3>1, <3>2, HitTyped
    <3> QED
      BY <3>1, <3>2, <3>3
  <2>4. VerdictsSound(s)
    BY <1>1, <1>2, <1>8, <2>2, <2>3 DEF VerdictsSound
  <2> QED
    BY <1>3, <1>7, <1>8, <2>1, <2>4, OneTask DEF TaskSound
<1>9. ASSUME NEW s \in TaskState, Same(s), s.threat = n,
             s.package = s0.package + 1, s.package \in DOMAIN matching, s.reported = s0.reported,
             Cleared(s0, matching[s0.package], blocked), task' = [task EXCEPT ![t] = s]
      PROVE  InstallInv'
  <2>1. TaskTyped(s)
    <3>1. s.package <= Len(s.threats[s.threat].matching)
      <4>1. s.package \in 1 .. Len(matching) /\ Len(matching) \in Nat
        BY <1>5, <1>9
      <4>2. matching = s.threats[s.threat].matching
        BY <1>9
      <4> HIDE DEF matching
      <4> QED
        BY <4>1, <4>2
    <3>2. s.threat \in 1 .. Len(s.threats) + 1 /\ s.reported \subseteq 1 .. s.threat - 1
      BY <1>1, <1>9 DEF TaskTyped
    <3>3. s.feed \in Feed
      BY <1>1, <1>2, <1>9 DEF TaskTyped
    <3> QED
      BY <1>9, <3>1, <3>2, <3>3 DEF TaskTyped
  <2>2. ASSUME NEW i \in DOMAIN s0.threats, i < n PROVE Judged(s, i)
    <3>1. Judged(s0, i)
      BY <1>1, <1>2, <2>2 DEF VerdictsSound
    <3> QED
      BY <1>7, <1>9, <3>1, JudgedKept
  <2>3. ASSUME NEW j \in DOMAIN matching, j < s.package PROVE Cleared(s, matching[j], blocked)
    <3>1. j = s0.package \/ j < s0.package
      <4>1. j \in Nat
        BY <1>5
      <4> QED
        BY <1>4, <1>9, <2>3, <4>1
    <3>2. Cleared(s0, matching[j], blocked)
      BY <1>1, <1>2, <1>4, <1>9, <3>1 DEF VerdictsSound
    <3> QED
      BY <1>7, <1>9, <3>2 DEF Cleared
  <2>4. VerdictsSound(s)
    BY <1>1, <1>2, <1>9, <2>2, <2>3 DEF VerdictsSound
  <2> QED
    BY <1>3, <1>7, <1>9, <2>1, <2>4, OneTask DEF TaskSound
<1> DEFINE Settle(rep) == [s0 EXCEPT !.threat = n + 1, !.package = 1, !.reported = rep]
           p == matching[s0.package]
<1>10. ASSUME NEW rep \in {s0.reported, s0.reported \union {n}}
       PROVE  /\ Settle(rep) \in TaskState /\ Same(Settle(rep))
              /\ Settle(rep).threat = n + 1 /\ Settle(rep).package = 1 /\ Settle(rep).reported = rep
  <2>1. rep \in SUBSET Nat /\ n + 1 \in Nat \ {0}
    <3>1. s0.reported \in SUBSET Nat
      BY <1>1 DEF TaskState
    <3> QED
      BY <1>4, <3>1
  <2>2. PICK m \in Nat \ {0} : m = n + 1
    BY <2>1
  <2>3. [s0 EXCEPT !.threat = m, !.package = 1, !.reported = rep] \in TaskState
    <3>1. PICK one \in Nat \ {0} : one = 1
      OBVIOUS
    <3>2. [s0 EXCEPT !.threat = m, !.package = one, !.reported = rep] \in TaskState
      BY <1>1, <2>1 DEF TaskState
    <3> QED
      BY <3>1, <3>2
  <2>4. LET s == [s0 EXCEPT !.threat = m, !.package = 1, !.reported = rep]
        IN Same(s) /\ s.threat = m /\ s.package = 1 /\ s.reported = rep
    BY <1>1, <1>2 DEF TaskState
  <2> QED
    BY <2>2, <2>3, <2>4
<1>11. CASE ReportUnhashed(t)
  <2> DEFINE s == Settle(s0.reported \union {n})
  <2>1. task' = [task EXCEPT ![t] = s] /\ blocked = {}
    BY <1>1, <1>11 DEF ReportUnhashed, Settled, Threat, InstallInv, TypeOK
  <2>2. Judged(s, n)
    BY <1>10, <2>1 DEF Judged
  <2> QED
    BY <1>8, <1>10, <2>1, <2>2
<1>12. ASSUME CompareHash(t), p.tarball
       PROVE  p \in Tarballs /\ registry[p] \in HashesOf(s0, p)
  <2>1. p \in Packages
    BY <1>5, <1>6
  <2>2. p \in Tarballs
    BY <1>12, <2>1 DEF Tarballs
  <2> QED
    BY <1>1, <1>2, <2>2 DEF HistorySound, HashesOf, InstallInv, TypeOK
<1>13. CASE CompareHash(t) /\ p.tarball /\ registry[p] \in blocked
  <2> DEFINE s == Settle(s0.reported \union {n})
  <2>1. task' = [task EXCEPT ![t] = s]
    BY <1>1, <1>13 DEF CompareHash, Settled, Threat, Suspect, InstallInv, TypeOK
  <2>2. HashesOf(s, p) \cap blocked # {}
    <3>1. HashesOf(s, p) = HashesOf(s0, p)
      <4>1. Same(s)
        BY <1>10
      <4> HIDE DEF s
      <4> QED
        BY <1>7, <4>1
    <3>2. registry[p] \in HashesOf(s0, p) /\ registry[p] \in blocked
      BY <1>12, <1>13
    <3> HIDE DEF s, p, blocked
    <3> QED
      BY <3>1, <3>2
  <2>3. Judged(s, n)
    BY <1>6, <1>10, <1>13, <2>2 DEF Judged
  <2> QED
    BY <1>8, <1>10, <2>1, <2>3
<1>14. CASE CompareHash(t) /\ ~(p.tarball /\ registry[p] \in blocked)
  <2>1. blocked # {} /\ Cleared(s0, p, blocked)
    BY <1>12, <1>14 DEF CompareHash, Threat, Cleared
  <2>2. CASE s0.package = Len(matching)
    <3> DEFINE s == Settle(s0.reported)
    <3>1. task' = [task EXCEPT ![t] = s]
      BY <1>1, <1>14, <2>2 DEF CompareHash, NextSuspect, Settled, Threat, Suspect, InstallInv, TypeOK
    <3>2. ASSUME NEW j \in DOMAIN matching PROVE Cleared(s0, matching[j], blocked)
      <4>1. j \in Nat /\ s0.package \in Nat /\ (j < s0.package \/ j = s0.package)
        <5>1. j \in 1 .. Len(matching) /\ Len(matching) \in Nat /\ s0.package \in Nat
          BY <1>4, <1>5
        <5> HIDE DEF s0, matching
        <5> QED
          BY <2>2, <5>1
      <4>2. CASE j < s0.package
        BY <1>1, <1>2, <1>4, <4>2 DEF VerdictsSound
      <4>3. CASE j = s0.package
        BY <2>1, <4>3
      <4> QED
        BY <4>1, <4>2, <4>3
    <3>3. n \notin s0.reported
      BY <1>1, <1>4 DEF TaskTyped
    <3>4. Judged(s, n)
      <4>1. /\ s.threats = s0.threats /\ s.reported = s0.reported
            /\ \A q : HashesOf(s, q) = HashesOf(s0, q)
        <5>1. s0.reported \in {s0.reported, s0.reported \union {n}}
          OBVIOUS
        <5>2. Same(s) /\ s.reported = s0.reported
          BY <1>10, <5>1
        <5> HIDE DEF s
        <5> QED
          BY <1>7, <5>2
      <4> HIDE DEF s
      <4> QED
        BY <2>1, <3>2, <3>3, <4>1 DEF Judged, Cleared
    <3> QED
      BY <1>8, <1>10, <3>1, <3>4
  <2>3. CASE s0.package # Len(matching)
    <3> DEFINE s == [s0 EXCEPT !.package = s0.package + 1]
    <3>1. task' = [task EXCEPT ![t] = s]
      BY <1>1, <1>14, <2>3 DEF CompareHash, NextSuspect, Threat, Suspect, InstallInv, TypeOK
    <3>2. s \in TaskState /\ Same(s) /\ s.threat = n /\ s.package = s0.package + 1
          /\ s.reported = s0.reported
      BY <1>1, <1>2, <1>4 DEF TaskState
    <3>3. s.package \in DOMAIN matching
      BY <1>6, <2>3, <3>2
    <3> QED
      BY <1>9, <2>1, <3>1, <3>2, <3>3
  <2> QED
    BY <2>2, <2>3
<1> QED
  BY <1>11, <1>13, <1>14

(* The origin, the registry and the clock, the start of a scan and the end *)
(* of the process.                                                         *)
LEMMA OtherSteps ==
    ASSUME InstallInv,
           \/ \E f \in Feed : Publish(f)
           \/ \E p \in Tarballs, h \in Hash : Republish(p, h)
           \/ Expire \/ \E t \in Task, l \in List : StartScan(t, l)
           \/ ProcessEnds \/ \E t \in Task : ExitForToken(t)
    PROVE  InstallInv'
<1>0. /\ \A t \in Task : task[t] \in TaskState /\ TaskSound(task[t])
      /\ origin \in Feed /\ published \subseteq Feed /\ registry \in [Tarballs -> Hash]
      /\ origin \in published
  BY DEF InstallInv, TypeOK, CacheSound
<1>1. ASSUME NEW f \in Feed, Publish(f) PROVE InstallInv'
  <2> DEFINE new(t) == IF t \in Under({"scan"}) THEN [task[t] EXCEPT !.feeds = @ \union {f}] ELSE task[t]
  <2>1. /\ task' = [t \in Task |-> new(t)] /\ origin' = f /\ published' = published \union {f}
        /\ UNCHANGED <<registry, cache, available>>
    BY <1>1 DEF Publish
  <2>2. ASSUME NEW t \in Task
        PROVE  /\ task'[t] \in TaskState
               /\ task'[t].pc = task[t].pc /\ task'[t].kind = task[t].kind
               /\ task'[t].packages = task[t].packages /\ task'[t].source = task[t].source
               /\ task'[t].feed = task[t].feed /\ task'[t].threats = task[t].threats
               /\ task'[t].threat = task[t].threat /\ task'[t].package = task[t].package
               /\ task'[t].reported = task[t].reported /\ task'[t].tarballs = task[t].tarballs
               /\ task[t].feeds \subseteq task'[t].feeds
               /\ task[t].pc # "idle" /\ task[t].kind = "scan" => f \in task'[t].feeds
    <3>1. task[t] \in TaskState
      BY <1>0
    <3>2. CASE t \in Under({"scan"})
      BY <2>1, <3>1, <3>2 DEF TaskState
    <3>3. CASE t \notin Under({"scan"})
      BY <2>1, <3>1, <3>3 DEF Under
    <3> QED
      BY <3>2, <3>3
  <2>3. ASSUME NEW t \in Task PROVE TaskSound(task[t])'
    <3>1. TaskTyped(task[t])'
      BY <1>0, <2>2 DEF TaskSound, TaskTyped
    <3>2. HistorySound(task[t])'
      BY <1>0, <2>1, <2>2 DEF TaskSound, HistorySound
    <3>3. FeedSound(task[t])'
      BY <1>0, <2>1, <2>2 DEF TaskSound, FeedSound, Fetched
    <3>4. VerdictsSound(task'[t])
      BY <1>0, <2>2, VerdictsKept DEF TaskSound
    <3> QED
      BY <3>1, <3>2, <3>3, <3>4, VerdictsStay DEF TaskSound
  <2>4. TypeOK'
    <3>1. task' \in [Task -> TaskState]
      BY <2>1, <2>2
    <3> QED
      BY <2>1, <2>2, <3>1 DEF InstallInv, TypeOK
  <2>5. CacheSound'
    BY <2>1 DEF InstallInv, CacheSound
  <2> QED
    BY <2>3, <2>4, <2>5 DEF InstallInv
<1>2. ASSUME NEW p \in Tarballs, NEW h \in Hash, Republish(p, h) PROVE InstallInv'
  <2> DEFINE new(t) == IF t \in Under({"scan"}) THEN [task[t] EXCEPT !.tarballs = @ \union {<<p, h>>}]
                       ELSE task[t]
  <2>1. /\ task' = [t \in Task |-> new(t)] /\ registry' = [registry EXCEPT ![p] = h]
        /\ UNCHANGED <<origin, published, cache, available>>
    BY <1>2 DEF Republish
  <2>2. ASSUME NEW t \in Task
        PROVE  /\ task'[t] \in TaskState
               /\ task'[t].pc = task[t].pc /\ task'[t].kind = task[t].kind
               /\ task'[t].packages = task[t].packages /\ task'[t].source = task[t].source
               /\ task'[t].feed = task[t].feed /\ task'[t].threats = task[t].threats
               /\ task'[t].threat = task[t].threat /\ task'[t].package = task[t].package
               /\ task'[t].reported = task[t].reported /\ task'[t].feeds = task[t].feeds
               /\ task[t].tarballs \subseteq task'[t].tarballs
               /\ task[t].pc # "idle" /\ task[t].kind = "scan" => <<p, h>> \in task'[t].tarballs
    <3>1. task[t] \in TaskState
      BY <1>0
    <3>2. CASE t \in Under({"scan"})
      BY <2>1, <3>1, <3>2 DEF TaskState
    <3>3. CASE t \notin Under({"scan"})
      BY <2>1, <3>1, <3>3 DEF Under
    <3> QED
      BY <3>2, <3>3
  <2>3. ASSUME NEW t \in Task PROVE TaskSound(task[t])'
    <3>1. TaskTyped(task[t])'
      BY <1>0, <2>2 DEF TaskSound, TaskTyped
    <3>2. HistorySound(task[t])'
      <4>1. HistorySound(task[t]) /\ \A q \in Tarballs : registry'[q] = registry[q] \/ (q = p /\ registry'[q] = h)
        BY <1>0, <2>1 DEF TaskSound
      <4>2. CASE task[t].pc # "idle" /\ task[t].kind = "scan"
        <5>1. /\ task[t].packages \in List /\ origin \in task[t].feeds
              /\ \A q \in Tarballs : <<q, registry[q]>> \in task[t].tarballs
          BY <4>1, <4>2 DEF HistorySound
        <5>2. ASSUME NEW q \in Tarballs PROVE <<q, registry'[q]>> \in task'[t].tarballs
          <6>1. CASE registry'[q] = registry[q]
            BY <2>2, <5>1, <6>1
          <6>2. CASE q = p /\ registry'[q] = h
            BY <2>2, <4>2, <6>2
          <6> QED
            BY <4>1, <6>1, <6>2
        <5>3. \A q \in Tarballs : <<q, registry'[q]>> \in task'[t].tarballs
          BY <5>2
        <5>4. \A q \in Tarballs' : <<q, registry'[q]>> \in task'[t].tarballs
          BY <5>3 DEF Tarballs, Packages
        <5> QED
          BY <2>1, <2>2, <5>1, <5>4 DEF HistorySound
      <4>3. CASE ~(task[t].pc # "idle" /\ task[t].kind = "scan")
        BY <2>2, <4>3 DEF HistorySound
      <4> QED
        BY <4>2, <4>3
    <3>3. FeedSound(task[t])'
      BY <1>0, <2>1, <2>2 DEF TaskSound, FeedSound, Fetched
    <3>4. VerdictsSound(task'[t])
      BY <1>0, <2>2, VerdictsKept DEF TaskSound
    <3> QED
      BY <3>1, <3>2, <3>3, <3>4, VerdictsStay DEF TaskSound
  <2>4. TypeOK'
    <3>1. task' \in [Task -> TaskState]
      BY <2>1, <2>2
    <3> QED
      BY <2>1, <2>2, <3>1 DEF InstallInv, TypeOK
  <2>5. CacheSound'
    BY <2>1 DEF InstallInv, CacheSound
  <2> QED
    BY <2>3, <2>4, <2>5 DEF InstallInv
<1>3. CASE Expire
  <2>1. CacheStep /\ UNCHANGED task /\ cache' # None
    <3>1. cache' \in [feed : Feed, fresh : BOOLEAN] /\ cache'.feed = cache.feed
          /\ cache \notin {None, Torn} /\ UNCHANGED <<origin, registry, published, available, task>>
      BY <1>3 DEF Expire, external, InstallInv, TypeOK
    <3>2. cache' \notin {None, Torn}
      BY <3>1, HookAssumption
    <3> QED
      BY <3>1, <3>2 DEF CacheStep, InstallInv, TypeOK, CacheSound
  <2> QED
    BY <1>0, <2>1, AllTasks DEF InstallInv, TypeOK
<1>4. ASSUME NEW t \in Task, NEW l \in List, StartScan(t, l) PROVE InstallInv'
  <2> DEFINE now == {<<p, registry[p]>> : p \in Tarballs}
             s == [Idle EXCEPT !.pc = "cache", !.packages = l, !.feeds = {origin}, !.tarballs = now]
  <2>1. task' = [task EXCEPT ![t] = s] /\ UNCHANGED <<origin, registry, published, cache, available>>
    BY <1>4 DEF StartScan, external
  <2>2. now \subseteq Tarballs \X Hash /\ \A p \in Tarballs : <<p, registry[p]>> \in now
    BY <1>0
  <2> HIDE DEF now
  <2>3. s \in TaskState
    BY <1>0, <2>2, IdleSound DEF TaskState
  <2>4. /\ s.pc = "cache" /\ s.kind = "scan" /\ s.packages = l /\ s.feeds = {origin} /\ s.tarballs = now
        /\ s.threats = <<>> /\ s.threat = 1 /\ s.package = 1 /\ s.reported = {}
    BY DEF Idle
  <2> HIDE DEF s
  <2>5. TaskTyped(s) /\ HistorySound(s) /\ FeedSound(s) /\ VerdictsSound(s)
    BY <2>2, <2>4 DEF TaskTyped, HistorySound, FeedSound, VerdictsSound
  <2>6. CacheStep
    BY <2>1 DEF CacheStep, InstallInv, TypeOK, CacheSound
  <2> QED
    BY <2>1, <2>3, <2>4, <2>5, <2>6, OneTask DEF TaskSound
<1>5. CASE ProcessEnds \/ \E t \in Task : ExitForToken(t)
  <2>1. task' = [t \in Task |-> Idle] /\ CacheStep
    BY <1>5 DEF ProcessEnds, ExitForToken, Dies, external, CacheStep, InstallInv, TypeOK, CacheSound
  <2> QED
    BY <2>1, IdleSound, AllTasks
<1> QED
  BY <1>1, <1>2, <1>3, <1>4, <1>5

LEMMA InstallBegins == ASSUME Init PROVE InstallInv
<1>1. task = [t \in Task |-> Idle] /\ \A t \in Task : task[t] = Idle
  BY DEF Init
<1>2. /\ origin \in published /\ published \subseteq Feed /\ origin \in Feed
      /\ registry \in [Tarballs -> Hash] /\ available = "unknown"
      /\ cache \in {None, Torn} \union [feed : Feed, fresh : BOOLEAN]
      /\ cache \notin {None, Torn} => cache.feed \in published
  <2>1. CASE cache \in {None, Torn} /\ published = {origin}
    BY <2>1 DEF Init
  <2>2. ASSUME NEW f \in Feed, cache = [feed |-> f, fresh |-> TRUE], published = {origin, f}
        PROVE  /\ origin \in published /\ published \subseteq Feed /\ origin \in Feed
               /\ registry \in [Tarballs -> Hash] /\ available = "unknown"
               /\ cache \in [feed : Feed, fresh : BOOLEAN] /\ cache.feed \in published
    BY <2>2 DEF Init
  <2> QED
    BY <2>1, <2>2 DEF Init
<1>3. TypeOK
  BY <1>1, <1>2, IdleSound DEF TypeOK, TaskSound, TaskTyped
<1> QED
  BY <1>1, <1>2, <1>3, IdleSound DEF InstallInv, CacheSound

LEMMA InstallStep == ASSUME InstallInv, Next PROVE InstallInv'
  BY FetchSteps, CacheSteps, ReadStep, MatchStep, VerifySteps, OtherSteps DEF Next, TaskStep

LEMMA InstallStutters == ASSUME InstallInv, UNCHANGED vars PROVE InstallInv'
<1>1. CacheStep /\ UNCHANGED task
  BY DEF vars, external, CacheStep, InstallInv, TypeOK, CacheSound
<1>2. \A u \in Task : TaskSound(task'[u]) /\ (task'[u].pc = "close" => cache' # None)
  BY <1>1 DEF InstallInv, TypeOK, CacheStep
<1> QED
  BY <1>1, <1>2, AllTasks DEF InstallInv, TypeOK

(* What a scan returns.                                                    *)
LEMMA ReturnStep ==
    ASSUME InstallInv, Next, Returned'
    PROVE  \E t \in Task : ScanReturns(t)
<1>1. result' # None /\ result'.how = "returns"
  BY DEF Returned
<1>2. CASE \/ \E f \in Feed : Publish(f)
           \/ \E p \in Tarballs, h \in Hash : Republish(p, h)
           \/ Expire
           \/ \E t \in Task, l \in List : StartScan(t, l)
           \/ ProcessEnds
  <2>1. result' = None
    BY <1>2 DEF Publish, Republish, Expire, StartScan, ProcessEnds
  <2> QED
    BY <1>1, <2>1
<1>3. ASSUME NEW t \in Task, TaskStep(t) PROVE ScanReturns(t)
  <2>1. CASE ReadCache(t) \/ GetToken(t) \/ Answer(t) \/ BodyArrives(t)
    BY <1>1, <2>1 DEF ReadCache, GetToken, Answer, BodyArrives
  <2>2. CASE OpenCache(t) \/ CloseCache(t) \/ Match(t) \/ ReportUnhashed(t) \/ CompareHash(t)
    BY <1>1, <2>2 DEF OpenCache, CloseCache, Match, ReportUnhashed, CompareHash
  <2>3. CASE ExitForToken(t)
    <3>1. result'.how = "exit"
      BY <2>3 DEF ExitForToken
    <3> QED
      BY <1>1, <3>1
  <2>4. CASE FetchFails(t) \/ DownloadFails(t)
    <3>1. result'.how = "throws"
      BY <2>4 DEF FetchFails, DownloadFails
    <3> QED
      BY <1>1, <3>1
  <2> QED
    BY <1>3, <2>1, <2>2, <2>3, <2>4 DEF TaskStep
<1> QED
  BY <1>2, <1>3 DEF Next

LEMMA ReturnedSound == ASSUME InstallInv, Next PROVE FeedIsGenuine' /\ ReportedMeansBlocked'
<1>1. SUFFICES ASSUME Returned' PROVE FeedIsGenuine' /\ ReportedMeansBlocked'
  BY DEF FeedIsGenuine, ReportedMeansBlocked
<1>2. PICK t \in Task : ScanReturns(t)
  BY <1>1, ReturnStep
<1>3. PICK s \in TaskState : s = task[t]
  BY DEF InstallInv, TypeOK
<1>4. result'.scan = s /\ s.pc = "verify" /\ s.threat > Len(s.threats) /\ UNCHANGED published
  BY <1>2, <1>3 DEF ScanReturns, external
<1>5. FeedSound(s) /\ VerdictsSound(s)
  BY <1>3 DEF InstallInv, TaskSound
<1>6. FeedIsGenuine'
  BY <1>4, <1>5 DEF FeedIsGenuine, FeedSound
<1>7. s.threats = FindThreats(s.packages, s.feed)
  BY <1>4, <1>5 DEF VerdictsSound
<1>8. ASSUME NEW i \in DOMAIN s.threats PROVE Judged(s, i)
  <2>1. s.threats \in Seq(Hit) /\ s.threat \in Nat
    BY DEF TaskState
  <2>2. i < s.threat
    BY <1>4, <2>1
  <2> QED
    BY <1>4, <1>5, <2>2 DEF VerdictsSound
<1>9. ReportedMeansBlocked'
  <2>1. PICK threats : threats = FindThreats(s.packages, s.feed)
    OBVIOUS
  <2> DEFINE Suspects(i) ==
               {p \in {threats[i].matching[j] : j \in DOMAIN threats[i].matching} : p.tarball}
  <2>2. ASSUME NEW i \in DOMAIN threats
        PROVE  LET blocked == threats[i].item.hashes
               IN IF i \in s.reported
                    THEN blocked # {} => \E p \in Suspects(i) : HashesOf(s, p) \cap blocked # {}
                    ELSE blocked # {} /\ \A p \in Suspects(i) : HashesOf(s, p) \ blocked # {}
    <3>1. Judged(s, i) /\ threats = s.threats
      BY <1>7, <1>8, <2>1, <2>2
    <3> QED
      BY <3>1 DEF Judged, Cleared
  <2> QED
    BY <1>4, <2>1, <2>2 DEF ReportedMeansBlocked, HashesOf
<1> QED
  BY <1>6, <1>9

(* A scan that returns went by a feed that the origin published, and one   *)
(* it fetched is of the time of the scan: of any number of scans, install  *)
(* runs and feeds (index.ts:468-483, 510-575).                             *)
THEOREM ScansGoByPublishedFeeds == Spec => []FeedIsGenuine
<1>1. Init => InstallInv /\ FeedIsGenuine
  BY InstallBegins DEF Init, FeedIsGenuine, Returned
<1>2. InstallInv /\ FeedIsGenuine /\ [Next]_vars => (InstallInv /\ FeedIsGenuine)'
  <2>1. ASSUME InstallInv, Next PROVE (InstallInv /\ FeedIsGenuine)'
    BY <2>1, InstallStep, ReturnedSound
  <2>2. ASSUME InstallInv, FeedIsGenuine, UNCHANGED vars PROVE (InstallInv /\ FeedIsGenuine)'
    BY <2>2, InstallStutters DEF vars, external, FeedIsGenuine, Returned
  <2> QED
    BY <2>1, <2>2
<1> QED
  BY <1>1, <1>2, PTL DEF Spec

(* And it reports a rule exactly if it had reason to: no tarball is passed *)
(* over (index.ts:756-821, 886-937).                                       *)
THEOREM ScansReportWhatIsBlocked == Spec => []ReportedMeansBlocked
<1>1. Init => InstallInv /\ ReportedMeansBlocked
  BY InstallBegins DEF Init, ReportedMeansBlocked, Returned
<1>2. InstallInv /\ ReportedMeansBlocked /\ [Next]_vars => (InstallInv /\ ReportedMeansBlocked)'
  <2>1. ASSUME InstallInv, Next PROVE (InstallInv /\ ReportedMeansBlocked)'
    BY <2>1, InstallStep, ReturnedSound
  <2>2. ASSUME InstallInv, ReportedMeansBlocked, UNCHANGED vars
        PROVE  (InstallInv /\ ReportedMeansBlocked)'
    BY <2>2, InstallStutters DEF vars, external, ReportedMeansBlocked, Returned, HashesOf
  <2> QED
    BY <2>1, <2>2
<1> QED
  BY <1>1, <1>2, PTL DEF Spec

-----------------------------------------------------------------------------
(* Whichever of the three programs runs, its state has its types           *)
(* (index.ts, encrypted-sqlite-sink.ts).                                   *)
THEOREM ProgramsTypeCorrect == MCSpec => []MCTypeOK
<1> DEFINE ProgramsInv == program \in Programs /\ InstallInv /\ HookInv /\ SqliteInv
<1>1. MCInit => ProgramsInv
  BY InstallBegins, HookBegins, SqliteBegins DEF MCInit
<1>2. ProgramsInv /\ [MCNext]_<<program, vars, hookVars, sqliteVars>> => ProgramsInv'
  <2>1. ASSUME InstallInv, Next \/ UNCHANGED vars PROVE InstallInv'
    BY <2>1, InstallStep, InstallStutters
  <2>2. ASSUME HookInv, HookNext \/ UNCHANGED hookVars PROVE HookInv'
    BY <2>2, HookSteps
  <2>3. ASSUME SqliteInv, SqliteNext \/ UNCHANGED sqliteVars PROVE SqliteInv'
    BY <2>3, SqliteSteps
  <2> QED
    BY <2>1, <2>2, <2>3 DEF MCNext, RunInstall, RunCommand, RunLog
<1>3. ProgramsInv => MCTypeOK
  BY DEF MCTypeOK, InstallInv, HookInv, SqliteInv
<1> QED
  BY <1>1, <1>2, <1>3, PTL DEF MCSpec
=============================================================================
