---------------------------- MODULE AuditProofs -----------------------------
(***************************************************************************)
(* The audit log is an append-only log of whole entries, and its follower  *)
(* leaves none of them out, for any number of processes, entries, polls    *)
(* and torn writes.                                                        *)
(*                                                                         *)
(* The sink's part of the invariant says that an entry is in one place: it *)
(* waits in one chain, once, or it was written, once.  The follower's part *)
(* says that a poll holds what the file began with, and that all that is   *)
(* counted was printed: then the printed entries begin the file whatever   *)
(* poll ends next, although the count goes back and forth.                 *)
(***************************************************************************)
EXTENDS AuditJsonl, FiniteSetTheorems, TLAPS


SinkTyped ==
    /\ file \in Seq(Write)
    /\ chain \in [Process -> Seq(Record)]
    /\ status \in [Record -> {"new", "acked", "failed"} \union Pending]
    /\ owner \in [Record -> Process \union {NoOne}]

\* What is chained is the work of its owner; an entry waits in no chain twice.
ChainsSound ==
    \A p \in Process : \A i \in 1 .. Len(chain[p]) :
        /\ status[chain[p][i]] = "chained" /\ owner[chain[p][i]] = p
        /\ \A j \in 1 .. Len(chain[p]) : chain[p][i] = chain[p][j] => i = j

Written(e) == status[e] \in {"stored", "acked", "failed"}

\* What is in the file was written, once.
FileSound ==
    \A i \in 1 .. Len(file) :
        /\ Written(file[i].entry)
        /\ \A j \in 1 .. Len(file) : file[i].entry = file[j].entry => i = j

SinkInv == SinkTyped /\ ChainsSound /\ FileSound

TailTyped ==
    /\ follow \in {"off", "first", "on"}
    /\ seen \in 0 .. Cardinality(Record)
    /\ reading \in [Poll -> [busy : BOOLEAN, text : Seq(Write)]]
    /\ printed \in SUBSET Record

Begins(s, t) == Len(s) <= Len(t) /\ \A i \in 1 .. Len(s) : s[i] = t[i]

\* What a poll read is what the file began with, and only that is printed.
TextsAreOld ==
    /\ \A i \in Poll : Begins(reading[i].text, file)
    /\ \A e \in printed : \E i \in 1 .. Len(file) : file[i].entry = e

NoOpen(text) == \A i \in 1 .. Len(text) : text[i].kind # "open"

\* What is counted was printed.
CountedIsPrinted ==
    /\ seen <= Cardinality(Own(file))
    /\ \A n \in Own(file) : Place(file, n) <= seen => file[n].entry \in printed

NoGaps == \A m, n \in Own(file) : m < n /\ file[n].entry \in printed => file[m].entry \in printed

TailInv == TailTyped /\ TextsAreOld /\ (NoOpen(file) => CountedIsPrinted /\ NoGaps)

AuditInv == SinkInv /\ TailInv

-----------------------------------------------------------------------------
(* Texts                                                                   *)

LEMMA OwnIsFinite ==
  ASSUME NEW text \in Seq(Write), NEW S \in SUBSET Own(text)
  PROVE  /\ IsFiniteSet(S)
         /\ Cardinality(S) \in Nat
         /\ Cardinality(S) <= Len(text)
  <1>1. IsFiniteSet(1 .. Len(text)) /\ Cardinality(1 .. Len(text)) = Len(text)
    <2>1. Len(text) \in Nat
      OBVIOUS
    <2> HIDE DEF Write
    <2> QED
      BY <2>1, FS_Interval
  <1>2. S \subseteq 1 .. Len(text)
    BY DEF Own
  <1> QED
    BY <1>1, <1>2, FS_Subset, FS_CardinalityType

\* While no write was cut right before its newline, what stands on a line of
\* its own stays there.
LEMMA OwnGrows ==
  ASSUME NEW s \in Seq(Write), NEW t \in Seq(Write), Begins(s, t), NoOpen(t)
  PROVE  Own(s) = Own(t) \intersect (1 .. Len(s))
  BY DEF Own, OwnLine, Begins, NoOpen

LEMMA PlaceStays ==
  ASSUME NEW s \in Seq(Write), NEW t \in Seq(Write), Begins(s, t), NoOpen(t),
         NEW n \in 1 .. Len(s)
  PROVE  Place(s, n) = Place(t, n)
  <1>1. {j \in Own(s) : j <= n} = {j \in Own(t) : j <= n}
    BY OwnGrows DEF Own
  <1> QED
    BY <1>1 DEF Place

LEMMA PlaceBounds ==
  ASSUME NEW s \in Seq(Write), NEW t \in Seq(Write), Begins(s, t), NoOpen(t),
         NEW n \in Own(t)
  PROVE  /\ Place(t, n) \in Nat
         /\ n \in Own(s) => Place(t, n) <= Cardinality(Own(s))
         /\ n \notin Own(s) => Place(t, n) > Cardinality(Own(s))
  <1> DEFINE Upto == {j \in Own(t) : j <= n}
  <1>1. IsFiniteSet(Upto) /\ Cardinality(Upto) \in Nat
    BY OwnIsFinite
  <1>2. Place(t, n) = Cardinality(Upto)
    BY DEF Place
  <1>3. IsFiniteSet(Own(s)) /\ Cardinality(Own(s)) \in Nat
    BY OwnIsFinite
  <1>4. Own(s) = Own(t) \intersect (1 .. Len(s)) /\ n \in 1 .. Len(t)
    BY OwnGrows DEF Own
  <1>5. ASSUME n \in Own(s) PROVE Cardinality(Upto) <= Cardinality(Own(s))
    <2>1. Upto \subseteq Own(s)
      BY <1>4, <1>5 DEF Own
    <2> QED
      BY <2>1, <1>3, FS_Subset
  <1>6. ASSUME n \notin Own(s) PROVE Cardinality(Upto) > Cardinality(Own(s))
    <2>1. n > Len(s)
      BY <1>4, <1>6
    <2>2. Own(s) \union {n} \subseteq Upto
      BY <1>4, <2>1
    <2>3. Cardinality(Own(s) \union {n}) = Cardinality(Own(s)) + 1
      BY <1>3, <1>6, FS_AddElement
    <2>4. Cardinality(Own(s) \union {n}) <= Cardinality(Upto)
      BY <2>2, <1>1, FS_Subset
    <2> QED
      BY <1>1, <1>3, <2>3, <2>4
  <1> QED
    BY <1>1, <1>2, <1>5, <1>6

\* A file holds no entry twice, and so no more than there are.
LEMMA FileFits ==
  ASSUME NEW text \in Seq(Write),
         \A i, j \in 1 .. Len(text) : text[i].entry = text[j].entry => i = j
  PROVE  Len(text) <= Cardinality(Record)
  <1> DEFINE f == [i \in 1 .. Len(text) |-> text[i].entry]
  <1>1. f \in Injection(1 .. Len(text), Record)
    <2>1. \A i \in 1 .. Len(text) : text[i] \in Write
      OBVIOUS
    <2>2. \A i \in 1 .. Len(text) : text[i].entry \in Record
      BY <2>1 DEF Write
    <2> QED
      BY <2>2 DEF Injection, IsInjective
  <1>2. Cardinality(1 .. Len(text)) = Len(text)
    BY FS_Interval
  <1>3. Cardinality(1 .. Len(text)) <= Cardinality(Record)
    BY <1>1, FS_Injection, AuditAssumption
  <1> QED
    BY <1>2, <1>3

-----------------------------------------------------------------------------
(* The sink                                                                *)

LEMMA CallKeepsSink ==
  ASSUME SinkInv, NEW p \in Process, NEW e \in Record, CallAppend(p, e)
  PROVE  SinkInv'
  <1> USE DEF CallAppend, SinkInv, Pending
  <1>1. SinkTyped'
    BY DEF SinkTyped
  <1>2. ChainsSound'
    BY DEF SinkTyped, ChainsSound
  <1>3. FileSound'
    BY DEF SinkTyped, FileSound, Written, Write
  <1> QED
    BY <1>1, <1>2, <1>3

LEMMA ChainKeepsSink ==
  ASSUME SinkInv, NEW e \in Record, ChainWrite(e)
  PROVE  SinkInv'
  <1> USE DEF ChainWrite, SinkInv, Pending
  <1>1. /\ \A p \in Process : chain'[p] = IF p = owner[e] THEN Append(chain[p], e) ELSE chain[p]
        /\ chain' \in [Process -> Seq(Record)]
    <2>1. chain \in [Process -> Seq(Record)]
      BY DEF SinkTyped
    <2>2. chain' = [chain EXCEPT ![owner[e]] = Append(chain[owner[e]], e)]
      OBVIOUS
    <2>3. CASE owner[e] \in Process
      <3>1. Append(chain[owner[e]], e) \in Seq(Record)
        BY ONLY <2>1, <2>3, e \in Record
      <3> QED
        BY ONLY <2>1, <2>2, <2>3, <3>1
    <2>4. CASE owner[e] \notin Process
      BY ONLY <2>1, <2>2, <2>4
    <2> QED
      BY <2>3, <2>4
  <1>2. \A p \in Process : \A i \in 1 .. Len(chain[p]) : chain[p][i] # e
    BY DEF SinkTyped, ChainsSound
  <1>3. SinkTyped'
    BY <1>1 DEF SinkTyped
  <1>4. ChainsSound'
    <2>1. ASSUME NEW p \in Process, NEW i \in 1 .. Len(chain'[p])
          PROVE  \/ i \in 1 .. Len(chain[p]) /\ chain'[p][i] = chain[p][i]
                 \/ i = Len(chain[p]) + 1 /\ p = owner[e] /\ chain'[p][i] = e
      <3>1. chain[p] \in Seq(Record)
        BY DEF SinkTyped
      <3>2. CASE p = owner[e]
        BY <1>1, <2>1, <3>1, <3>2
      <3>3. CASE p # owner[e]
        BY <1>1, <2>1, <3>3
      <3> QED
        BY <3>2, <3>3
    <2>2. ASSUME NEW p \in Process, NEW i \in 1 .. Len(chain'[p])
          PROVE  status'[chain'[p][i]] = "chained" /\ owner'[chain'[p][i]] = p
      BY <1>2, <2>1, <2>2 DEF SinkTyped, ChainsSound
    <2>3. ASSUME NEW p \in Process, NEW i \in 1 .. Len(chain'[p]), NEW j \in 1 .. Len(chain'[p]),
                 chain'[p][i] = chain'[p][j]
          PROVE  i = j
      BY <1>2, <2>1, <2>3 DEF ChainsSound
    <2> QED
      BY <2>2, <2>3 DEF ChainsSound
  <1>5. FileSound'
    BY DEF SinkTyped, FileSound, Written, Write
  <1> QED
    BY <1>3, <1>4, <1>5

LEMMA ReturnKeepsSink ==
  ASSUME SinkInv, NEW e \in Record, AppendReturns(e)
  PROVE  SinkInv'
  <1> USE DEF AppendReturns, SinkInv, Pending
  <1>1. SinkTyped'
    BY DEF SinkTyped
  <1>2. ChainsSound'
    BY DEF SinkTyped, ChainsSound
  <1>3. FileSound'
    BY DEF SinkTyped, FileSound, Written, Write
  <1> QED
    BY <1>1, <1>2, <1>3

\* The entry at the head of a chain leaves it, to be in no chain, and it is not
\* in the file yet.
LEMMA HeadIsAlone ==
  ASSUME SinkInv, NEW p \in Process, chain[p] # <<>>
  PROVE  /\ Head(chain[p]) \in Record
         /\ status[Head(chain[p])] = "chained"
         /\ owner[Head(chain[p])] = p
         /\ \A q \in Process : \A i \in 1 .. Len(chain[q]) :
               chain[q][i] = Head(chain[p]) => q = p /\ i = 1
         /\ \A i \in 1 .. Len(file) : file[i].entry # Head(chain[p])
  <1>1. Head(chain[p]) = chain[p][1] /\ 1 \in 1 .. Len(chain[p]) /\ chain[p][1] \in Record
    BY DEF SinkInv, SinkTyped
  <1> QED
    BY <1>1 DEF SinkInv, ChainsSound, FileSound, Written

LEMMA WriteOverKeepsSink ==
  ASSUME SinkInv, NEW p \in Process, NEW how \in {"stored", "failed"}, WriteOver(p, how),
         \/ UNCHANGED file
         \/ \E kind \in {"line", "cut", "open"} : Reaches(p, kind)
  PROVE  SinkInv'
  <1>1. PICK e \in Record :
          /\ e = Head(chain[p]) /\ status[e] = "chained" /\ owner[e] = p
          /\ \A q \in Process : \A i \in 1 .. Len(chain[q]) : chain[q][i] = e => q = p /\ i = 1
          /\ \A i \in 1 .. Len(file) : file[i].entry # e
    BY HeadIsAlone DEF WriteOver
  <1>2. /\ chain[p] # <<>>
        /\ chain' = [chain EXCEPT ![p] = Tail(@)]
        /\ status' = [status EXCEPT ![e] = how]
        /\ owner' = owner \/ owner' = [owner EXCEPT ![e] = NoOne]
    BY <1>1 DEF WriteOver
  <1>3. file' = file \/ \E kind \in {"line", "cut", "open"} :
                            file' = Append(file, [entry |-> e, kind |-> kind])
    BY <1>1 DEF Reaches
  <1> USE DEF SinkInv, SinkTyped
  <1>4. SinkTyped'
    <2>1. file' \in Seq(Write)
      <3>1. \A kind \in {"line", "cut", "open"} : [entry |-> e, kind |-> kind] \in Write
        BY DEF Write
      <3>2. ASSUME NEW kind \in {"line", "cut", "open"}
            PROVE  Append(file, [entry |-> e, kind |-> kind]) \in Seq(Write)
        BY <3>1
      <3> QED
        BY <1>3, <3>2
    <2>2. chain' \in [Process -> Seq(Record)]
      BY <1>2
    <2>3. status' \in [Record -> {"new", "acked", "failed"} \union Pending]
      BY <1>2 DEF Pending
    <2>4. owner' \in [Record -> Process \union {NoOne}]
      BY <1>2
    <2> QED
      BY <2>1, <2>2, <2>3, <2>4
  <1>5. ChainsSound'
    <2>1. ASSUME NEW q \in Process, q # p, NEW i \in 1 .. Len(chain[q])
          PROVE  /\ chain'[q] = chain[q]
                 /\ status'[chain[q][i]] = "chained" /\ owner'[chain[q][i]] = q
      BY <2>1, <1>1, <1>2 DEF ChainsSound
    <2>2. ASSUME NEW i \in 1 .. Len(Tail(chain[p]))
          PROVE  /\ Tail(chain[p])[i] = chain[p][i + 1] /\ i + 1 \in 1 .. Len(chain[p])
                 /\ status'[chain[p][i + 1]] = "chained" /\ owner'[chain[p][i + 1]] = p
      <3>1. Tail(chain[p])[i] = chain[p][i + 1] /\ i + 1 \in 1 .. Len(chain[p])
        BY <1>2
      <3>2. i + 1 # 1
        OBVIOUS
      <3>3. chain[p][i + 1] # e
        BY <3>1, <3>2, <1>1
      <3> QED
        BY <3>1, <3>3, <1>1, <1>2 DEF ChainsSound
    <2>3. chain'[p] = Tail(chain[p])
      BY <1>2
    <2>4. \A q \in Process : q # p => chain'[q] = chain[q]
      BY <1>2
    <2>5. ASSUME NEW q \in Process, q # p, NEW i \in 1 .. Len(chain'[q]), NEW j \in 1 .. Len(chain'[q]),
                 chain'[q][i] = chain'[q][j]
          PROVE  i = j
      BY <2>4, <2>5 DEF ChainsSound
    <2>6. ASSUME NEW i \in 1 .. Len(chain'[p]), NEW j \in 1 .. Len(chain'[p]),
                 chain'[p][i] = chain'[p][j]
          PROVE  i = j
      <3>1. /\ chain[p][i + 1] = chain[p][j + 1]
            /\ i + 1 \in 1 .. Len(chain[p]) /\ j + 1 \in 1 .. Len(chain[p])
        BY <2>2, <2>3, <2>6
      <3>2. i + 1 = j + 1
        BY <3>1 DEF ChainsSound
      <3> QED
        BY <3>2, <2>3
    <2>7. ASSUME NEW q \in Process, NEW i \in 1 .. Len(chain'[q])
          PROVE  status'[chain'[q][i]] = "chained" /\ owner'[chain'[q][i]] = q
      <3>1. CASE q = p
        BY <3>1, <2>2, <2>3
      <3>2. CASE q # p
        BY <3>2, <2>1, <2>4
      <3> QED
        BY <3>1, <3>2
    <2>8. \A q \in Process : \A i, j \in 1 .. Len(chain'[q]) : chain'[q][i] = chain'[q][j] => i = j
      BY <2>5, <2>6
    <2>9. \A q \in Process : \A i \in 1 .. Len(chain'[q]) :
             status'[chain'[q][i]] = "chained" /\ owner'[chain'[q][i]] = q
      BY <2>7
    <2> QED
      BY <2>8, <2>9 DEF ChainsSound
  <1>6. FileSound'
    <2>1. \A i \in 1 .. Len(file) : file[i].entry # e /\ status'[file[i].entry] = status[file[i].entry]
      <3>1. \A i \in 1 .. Len(file) : file[i] \in Write
        OBVIOUS
      <3>2. \A i \in 1 .. Len(file) : file[i].entry \in Record
        BY <3>1 DEF Write
      <3> QED
        BY <3>2, <1>1, <1>2
    <2>2. status'[e] \in {"stored", "failed"}
      BY <1>1, <1>2
    <2>3. CASE file' = file
      BY <2>1, <2>3 DEF FileSound, Written
    <2>4. ASSUME NEW kind \in {"line", "cut", "open"},
                 file' = Append(file, [entry |-> e, kind |-> kind])
          PROVE  FileSound'
      <3>1. /\ Len(file') = Len(file) + 1
            /\ \A i \in 1 .. Len(file) : file'[i] = file[i]
            /\ file'[Len(file) + 1].entry = e
        BY <2>4
      <3>2. \A i \in 1 .. Len(file') : i \in 1 .. Len(file) \/ i = Len(file) + 1
        BY <3>1
      <3>3. \A i \in 1 .. Len(file') : status'[file'[i].entry] \in {"stored", "acked", "failed"}
        BY <3>1, <3>2, <2>1, <2>2 DEF FileSound, Written
      <3>4. \A i, j \in 1 .. Len(file') : file'[i].entry = file'[j].entry => i = j
        BY <3>1, <3>2, <2>1 DEF FileSound
      <3> QED
        BY <3>3, <3>4 DEF FileSound, Written
    <2> QED
      BY <1>3, <2>3, <2>4
  <1> QED
    BY <1>4, <1>5, <1>6

LEMMA CrashKeepsSink ==
  ASSUME SinkInv, NEW p \in Process, Crash(p)
  PROVE  SinkInv'
  <1> USE DEF SinkInv, SinkTyped
  <1>1. /\ chain' = [chain EXCEPT ![p] = <<>>]
        /\ status' = [e \in Record |-> IF owner[e] = p /\ status[e] \in Pending
                                         THEN "failed" ELSE status[e]]
        /\ owner' = [e \in Record |-> IF owner[e] = p THEN NoOne ELSE owner[e]]
    BY DEF Crash
  <1>2. ASSUME NEW e \in Record
        PROVE  /\ Written(e) => status'[e] \in {"stored", "acked", "failed"}
               /\ owner[e] = p /\ status[e] \in Pending => status'[e] = "failed"
               /\ owner[e] # p => status'[e] = status[e] /\ owner'[e] = owner[e]
    BY <1>1 DEF Written
  <1>3. \A i \in 1 .. Len(file) : file[i].entry \in Record
    <2>1. \A i \in 1 .. Len(file) : file[i] \in Write
      OBVIOUS
    <2> QED
      BY <2>1 DEF Write
  <1>4. \/ file' = file
        \/ /\ chain[p] # <<>>
           /\ \E kind \in {"cut", "open"} :
                 file' = Append(file, [entry |-> Head(chain[p]), kind |-> kind])
    BY DEF Crash, Reaches
  <1>5. ASSUME chain[p] # <<>>, NEW kind \in {"cut", "open"},
               file' = Append(file, [entry |-> Head(chain[p]), kind |-> kind])
        PROVE  file' \in Seq(Write) /\ FileSound'
    <2>1. PICK e \in Record :
            /\ e = Head(chain[p]) /\ status[e] = "chained" /\ owner[e] = p
            /\ \A i \in 1 .. Len(file) : file[i].entry # e
      BY <1>5, HeadIsAlone
    <2>2. [entry |-> e, kind |-> kind] \in Write /\ file' = Append(file, [entry |-> e, kind |-> kind])
      BY <1>5, <2>1 DEF Write
    <2>3. /\ Len(file') = Len(file) + 1 /\ file' \in Seq(Write)
          /\ \A i \in 1 .. Len(file) : file'[i] = file[i]
          /\ file'[Len(file) + 1].entry = e
      BY <2>2
    <2>4. \A i \in 1 .. Len(file') : i \in 1 .. Len(file) \/ i = Len(file) + 1
      BY <2>3
    <2>5. status'[e] = "failed"
      BY <2>1, <1>2 DEF Pending
    <2>6. \A i \in 1 .. Len(file') : status'[file'[i].entry] \in {"stored", "acked", "failed"}
      BY <2>3, <2>4, <2>5, <1>2, <1>3 DEF FileSound
    <2>7. \A i, j \in 1 .. Len(file') : file'[i].entry = file'[j].entry => i = j
      BY <2>1, <2>3, <2>4 DEF FileSound
    <2> QED
      BY <2>3, <2>6, <2>7 DEF FileSound, Written
  <1>6. ASSUME file' = file PROVE FileSound'
    BY <1>2, <1>3, <1>6 DEF FileSound, Written
  <1>7. file' \in Seq(Write) /\ FileSound'
    BY <1>4, <1>5, <1>6
  <1>8. ChainsSound'
    <2>1. \A q \in Process : q # p => chain'[q] = chain[q]
      BY <1>1
    <2>2. chain'[p] = <<>>
      BY <1>1
    <2>3. ASSUME NEW q \in Process, NEW i \in 1 .. Len(chain'[q])
          PROVE  q # p /\ chain'[q] = chain[q] /\ chain[q][i] \in Record
      BY <2>1, <2>2
    <2>4. ASSUME NEW q \in Process, NEW i \in 1 .. Len(chain'[q])
          PROVE  status'[chain'[q][i]] = "chained" /\ owner'[chain'[q][i]] = q
      BY <2>3, <1>2 DEF ChainsSound
    <2>5. ASSUME NEW q \in Process, NEW i \in 1 .. Len(chain'[q]), NEW j \in 1 .. Len(chain'[q]),
                 chain'[q][i] = chain'[q][j]
          PROVE  i = j
      <3>1. chain'[q] = chain[q]
        BY <2>3
      <3>2. i \in 1 .. Len(chain[q]) /\ j \in 1 .. Len(chain[q]) /\ chain[q][i] = chain[q][j]
        BY <2>5, <3>1
      <3> QED
        BY <3>2 DEF ChainsSound
    <2> QED
      BY <2>4, <2>5 DEF ChainsSound
  <1>9. /\ chain' \in [Process -> Seq(Record)]
        /\ status' \in [Record -> {"new", "acked", "failed"} \union Pending]
        /\ owner' \in [Record -> Process \union {NoOne}]
    BY <1>1
  <1> QED
    BY <1>7, <1>8, <1>9

\* The actions of the follower leave the sink alone.
LEMMA SinkStutters ==
  ASSUME SinkInv, UNCHANGED sinkVars
  PROVE  SinkInv'
  <1>1. file' = file /\ chain' = chain /\ status' = status /\ owner' = owner
    BY DEF sinkVars
  <1>2. SinkTyped'
    BY <1>1 DEF SinkInv, SinkTyped
  <1>3. ChainsSound'
    BY <1>1 DEF SinkInv, ChainsSound
  <1>4. FileSound'
    BY <1>1 DEF SinkInv, FileSound, Written
  <1> QED
    BY <1>2, <1>3, <1>4 DEF SinkInv

LEMMA SinkStep == SinkInv /\ [Next]_vars => SinkInv'
  <1> SUFFICES ASSUME SinkInv, [Next]_vars PROVE SinkInv'
    OBVIOUS
  <1>1. ASSUME NEW p \in Process, NEW e \in Record, CallAppend(p, e) PROVE SinkInv'
    BY <1>1, CallKeepsSink
  <1>2. ASSUME NEW e \in Record, ChainWrite(e) PROVE SinkInv'
    BY <1>2, ChainKeepsSink
  <1>3. ASSUME NEW e \in Record, AppendReturns(e) PROVE SinkInv'
    BY <1>3, ReturnKeepsSink
  <1>4. ASSUME NEW p \in Process, AppendLine(p) PROVE SinkInv'
    BY <1>4, WriteOverKeepsSink DEF AppendLine
  <1>5. ASSUME NEW p \in Process, WriteFails(p) PROVE SinkInv'
    BY <1>5, WriteOverKeepsSink DEF WriteFails
  <1>6. ASSUME NEW p \in Process, WriteTears(p) PROVE SinkInv'
    BY <1>6, WriteOverKeepsSink DEF WriteTears
  <1>7. ASSUME NEW p \in Process, Crash(p) PROVE SinkInv'
    BY <1>7, CrashKeepsSink
  <1>8. ASSUME NEW i \in Poll, StartPoll(i) \/ EndPoll(i) \/ PollFails(i) PROVE SinkInv'
    BY <1>8, SinkStutters DEF StartPoll, EndPoll, PollFails, sinkVars
  <1>9. CASE UNCHANGED vars
    BY <1>9, SinkStutters DEF vars
  <1> QED
    BY <1>1, <1>2, <1>3, <1>4, <1>5, <1>6, <1>7, <1>8, <1>9 DEF Next

-----------------------------------------------------------------------------
(* The follower                                                            *)

LEMMA RecordsAreCounted == Cardinality(Record) \in Nat
  BY FS_CardinalityType, AuditAssumption

LEMMA FileGrows ==
  ASSUME SinkInv, [Next]_vars
  PROVE  Begins(file, file')
  <1>1. file \in Seq(Write)
    BY DEF SinkInv, SinkTyped
  <1>2. \/ UNCHANGED file
        \/ \E p \in Process, kind \in {"line", "cut", "open"} : Reaches(p, kind)
    <2>1. ASSUME NEW p \in Process, NEW e \in Record, CallAppend(p, e) PROVE UNCHANGED file
      BY <2>1 DEF CallAppend
    <2>2. ASSUME NEW e \in Record, ChainWrite(e) \/ AppendReturns(e) PROVE UNCHANGED file
      BY <2>2 DEF ChainWrite, AppendReturns
    <2>3. ASSUME NEW p \in Process, AppendLine(p) \/ WriteFails(p) \/ WriteTears(p) \/ Crash(p)
          PROVE UNCHANGED file \/ \E kind \in {"line", "cut", "open"} : Reaches(p, kind)
      BY <2>3 DEF AppendLine, WriteFails, WriteTears, Crash
    <2>4. ASSUME NEW i \in Poll, StartPoll(i) \/ EndPoll(i) \/ PollFails(i) PROVE UNCHANGED file
      BY <2>4 DEF StartPoll, EndPoll, PollFails, sinkVars
    <2>5. CASE UNCHANGED vars
      BY <2>5 DEF vars, sinkVars
    <2> QED
      BY <2>1, <2>2, <2>3, <2>4, <2>5 DEF Next
  <1>3. ASSUME NEW w, file' = Append(file, w) PROVE Begins(file, file')
    BY <1>1, <1>3 DEF Begins
  <1>4. ASSUME UNCHANGED file PROVE Begins(file, file')
    BY <1>1, <1>4 DEF Begins
  <1> QED
    BY <1>2, <1>3, <1>4 DEF Reaches

\* While the file grows, a follower that does nothing keeps its invariant: what
\* is new lies beyond the count, and nobody has printed it.
LEMMA GrowthKeepsTail ==
  ASSUME SinkInv, SinkInv', TailInv, Begins(file, file'), UNCHANGED tailVars
  PROVE  TailInv'
  <1>1. file \in Seq(Write) /\ file' \in Seq(Write)
    BY DEF SinkInv, SinkTyped
  <1>2. TailTyped'
    BY DEF TailInv, TailTyped, tailVars
  <1>3. TextsAreOld'
    <2>1. ASSUME NEW i \in Poll PROVE Begins(reading[i].text, file')
      <3>1. Begins(reading[i].text, file) /\ reading[i].text \in Seq(Write)
        BY DEF TailInv, TailTyped, TextsAreOld
      <3> QED
        BY <1>1, <3>1 DEF Begins
    <2>2. ASSUME NEW e \in printed PROVE \E i \in 1 .. Len(file') : file'[i].entry = e
      <3>1. PICK i \in 1 .. Len(file) : file[i].entry = e
        BY DEF TailInv, TextsAreOld
      <3> QED
        BY <1>1, <3>1 DEF Begins
    <2> QED
      BY <2>1, <2>2 DEF TextsAreOld, tailVars
  <1>4. ASSUME NoOpen(file') PROVE CountedIsPrinted' /\ NoGaps'
    <2>1. NoOpen(file) /\ CountedIsPrinted /\ NoGaps
      BY <1>1, <1>4 DEF TailInv, NoOpen, Begins
    <2>2. /\ Own(file) = Own(file') \intersect (1 .. Len(file))
          /\ \A n \in 1 .. Len(file) : Place(file, n) = Place(file', n) /\ file'[n] = file[n]
      BY <1>1, <1>4, OwnGrows, PlaceStays DEF Begins
    <2>3. /\ seen \in Nat /\ UNCHANGED <<seen, printed>>
          /\ Cardinality(Own(file)) \in Nat /\ Cardinality(Own(file')) \in Nat
      BY <1>1, OwnIsFinite, RecordsAreCounted DEF TailInv, TailTyped, tailVars
    <2>4. seen <= Cardinality(Own(file'))
      <3>1. Cardinality(Own(file)) <= Cardinality(Own(file'))
        BY <1>1, <2>2, OwnIsFinite, FS_Subset
      <3> QED
        BY <2>1, <2>3, <3>1 DEF CountedIsPrinted
    <2>5. ASSUME NEW n \in Own(file'), n \notin Own(file)
          PROVE  Place(file', n) \in Nat /\ Place(file', n) > seen /\ file'[n].entry \notin printed
      <3>1. Place(file', n) \in Nat /\ Place(file', n) > Cardinality(Own(file))
        BY <1>1, <1>4, <2>5, PlaceBounds
      <3>2. n \in 1 .. Len(file') /\ n \notin 1 .. Len(file)
        BY <2>2, <2>5 DEF Own
      <3>3. \A i \in 1 .. Len(file) : i \in 1 .. Len(file') /\ file[i].entry # file'[n].entry
        BY <1>1, <2>2, <3>2 DEF SinkInv, FileSound, Begins
      <3>4. \A e \in printed : \E i \in 1 .. Len(file) : file[i].entry = e
        BY DEF TailInv, TextsAreOld
      <3> QED
        BY <2>1, <2>3, <3>1, <3>3, <3>4 DEF CountedIsPrinted
    <2>6. ASSUME NEW n \in Own(file)
          PROVE  /\ n \in Own(file') /\ n \in 1 .. Len(file)
                 /\ Place(file', n) = Place(file, n) /\ file'[n] = file[n]
      BY <2>2
    <2>7. \A n \in Own(file') : Place(file', n) <= seen => file'[n].entry \in printed
      BY <2>1, <2>3, <2>5, <2>6 DEF CountedIsPrinted
    <2>8. ASSUME NEW m \in Own(file'), NEW n \in Own(file'), m < n, file'[n].entry \in printed
          PROVE  file'[m].entry \in printed
      <3>1. n \in Own(file)
        BY <2>5, <2>8
      <3>2. m \in Own(file)
        BY <1>1, <2>2, <2>8, <3>1 DEF Own
      <3> QED
        BY <2>1, <2>6, <2>8, <3>1, <3>2 DEF NoGaps
    <2> QED
      BY <2>3, <2>4, <2>7, <2>8 DEF CountedIsPrinted, NoGaps
  <1> QED
    BY <1>2, <1>3, <1>4 DEF TailInv

LEMMA StartKeepsTail ==
  ASSUME SinkInv, TailInv, NEW i \in Poll, StartPoll(i)
  PROVE  TailInv'
  <1> USE DEF StartPoll, sinkVars
  <1>1. TailTyped'
    BY DEF TailInv, TailTyped, SinkInv, SinkTyped
  <1>2. TextsAreOld'
    BY DEF TailInv, TextsAreOld, TailTyped, Begins, SinkInv, SinkTyped
  <1>3. UNCHANGED <<file, seen, printed>>
    OBVIOUS
  <1> QED
    BY <1>1, <1>2, <1>3 DEF TailInv, CountedIsPrinted, NoGaps, NoOpen

LEMMA FailKeepsTail ==
  ASSUME SinkInv, TailInv, NEW i \in Poll, PollFails(i)
  PROVE  TailInv'
  <1> USE DEF PollFails, sinkVars, Idle
  <1>1. TailTyped'
    BY DEF TailInv, TailTyped
  <1>2. TextsAreOld'
    BY DEF TailInv, TextsAreOld, TailTyped, Begins, SinkInv, SinkTyped
  <1>3. UNCHANGED <<file, seen, printed>>
    OBVIOUS
  <1> QED
    BY <1>1, <1>2, <1>3 DEF TailInv, CountedIsPrinted, NoGaps, NoOpen

\* A poll that ends prints what lies beyond the count, so that all it read is
\* printed then.
LEMMA EndKeepsTail ==
  ASSUME SinkInv, TailInv, NEW i \in Poll, EndPoll(i)
  PROVE  TailInv'
  <1>1. PICK text \in Seq(Write) : text = reading[i].text /\ Begins(text, file)
    BY DEF TailInv, TailTyped, TextsAreOld
  <1>2. /\ printed' = printed \union
              {text[n].entry : n \in {n \in Own(text) : Place(text, n) > seen}}
        /\ seen' = Cardinality(Own(text))
        /\ follow' = "on" /\ reading' = [reading EXCEPT ![i] = Idle] /\ UNCHANGED file
    BY <1>1 DEF EndPoll, PrintNew, sinkVars
  <1>3. file \in Seq(Write)
    BY DEF SinkInv, SinkTyped
  <1>4. Own(text) \subseteq 1 .. Len(text) /\ Own(file) \subseteq 1 .. Len(file)
    BY DEF Own
  <1>5. \A n \in 1 .. Len(text) : n \in 1 .. Len(file) /\ text[n] = file[n] /\ text[n].entry \in Record
    <2>1. \A n \in 1 .. Len(text) : n \in 1 .. Len(file) /\ text[n] = file[n] /\ text[n] \in Write
      BY <1>1, <1>3 DEF Begins
    <2> QED
      BY <2>1 DEF Write
  <1>6. TailTyped'
    <2>1. seen' \in 0 .. Cardinality(Record)
      <3>1. Cardinality(Own(text)) \in Nat /\ Cardinality(Own(text)) <= Len(text)
        BY OwnIsFinite
      <3>2. Len(text) <= Len(file)
        BY <1>1 DEF Begins
      <3>3. Len(file) <= Cardinality(Record)
        BY <1>3, FileFits DEF SinkInv, FileSound
      <3>4. Len(text) \in Nat /\ Len(file) \in Nat
        BY <1>3
      <3> QED
        BY <1>2, <3>1, <3>2, <3>3, <3>4, RecordsAreCounted
    <2>2. printed' \in SUBSET Record
      BY <1>2, <1>4, <1>5 DEF TailInv, TailTyped
    <2>3. reading' \in [Poll -> [busy : BOOLEAN, text : Seq(Write)]]
      BY <1>2 DEF TailInv, TailTyped, Idle
    <2> QED
      BY <1>2, <2>1, <2>2, <2>3 DEF TailTyped
  <1>7. TextsAreOld'
    <2>1. ASSUME NEW j \in Poll PROVE Begins(reading'[j].text, file)
      BY <1>2, <1>3 DEF TailInv, TailTyped, TextsAreOld, Begins, Idle
    <2>2. ASSUME NEW e \in printed' PROVE \E n \in 1 .. Len(file) : file[n].entry = e
      BY <1>2, <1>4, <1>5 DEF TailInv, TextsAreOld
    <2> QED
      BY <1>2, <2>1, <2>2 DEF TextsAreOld
  <1>8. ASSUME NoOpen(file) PROVE CountedIsPrinted' /\ NoGaps'
    <2>1. CountedIsPrinted /\ NoGaps
      BY <1>8 DEF TailInv
    <2>2. Own(text) = Own(file) \intersect (1 .. Len(text))
      BY <1>1, <1>3, <1>8, OwnGrows
    <2>3. seen \in Nat
      BY RecordsAreCounted DEF TailInv, TailTyped
    <2>4. ASSUME NEW n \in Own(text) PROVE file[n].entry \in printed'
      <3>1. n \in Own(file) /\ Place(text, n) = Place(file, n) /\ Place(file, n) \in Nat
        BY <1>1, <1>3, <1>4, <1>8, <2>2, PlaceStays, PlaceBounds
      <3>2. CASE Place(file, n) <= seen
        BY <1>2, <2>1, <3>1, <3>2 DEF CountedIsPrinted
      <3>3. CASE Place(file, n) > seen
        BY <1>2, <1>4, <1>5, <3>1, <3>3
      <3> QED
        BY <2>3, <3>1, <3>2, <3>3
    <2>5. seen' <= Cardinality(Own(file))
      BY <1>2, <1>3, <2>2, OwnIsFinite, FS_Subset
    <2>6. ASSUME NEW n \in Own(file), Place(file, n) <= seen' PROVE file[n].entry \in printed'
      <3>1. /\ Place(file, n) \in Nat /\ Cardinality(Own(text)) \in Nat
            /\ n \notin Own(text) => Place(file, n) > Cardinality(Own(text))
        BY <1>1, <1>3, <1>8, PlaceBounds, OwnIsFinite
      <3> QED
        BY <1>2, <2>4, <2>6, <3>1
    <2>7. ASSUME NEW m \in Own(file), NEW n \in Own(file), m < n, file[n].entry \in printed'
          PROVE  file[m].entry \in printed'
      <3>1. CASE file[n].entry \in printed
        BY <1>2, <2>1, <2>7, <3>1 DEF NoGaps
      <3>2. ASSUME file[n].entry \notin printed PROVE m \in Own(text)
        <4>1. PICK k \in Own(text) : text[k].entry = file[n].entry
          BY <1>2, <2>7, <3>2
        <4>2. k = n
          BY <1>4, <1>5, <4>1 DEF SinkInv, FileSound
        <4> QED
          BY <1>3, <1>4, <2>2, <2>7, <4>2
      <3> QED
        BY <2>4, <3>1, <3>2
    <2> QED
      BY <1>2, <2>5, <2>6, <2>7 DEF CountedIsPrinted, NoGaps
  <1> QED
    BY <1>2, <1>6, <1>7, <1>8 DEF TailInv

-----------------------------------------------------------------------------
LEMMA InitAuditInv == Init => AuditInv
  <1> SUFFICES ASSUME Init PROVE AuditInv
    OBVIOUS
  <1> USE DEF Init
  <1>1. SinkInv
    BY DEF SinkInv, SinkTyped, ChainsSound, FileSound
  <1>2. TailTyped /\ TextsAreOld
    BY RecordsAreCounted DEF TailTyped, TextsAreOld, Begins, Idle
  <1>3. Own(file) = {}
    BY DEF Own
  <1>4. Cardinality(Own(file)) = 0
    BY <1>3, FS_EmptySet
  <1>5. CountedIsPrinted /\ NoGaps
    BY <1>3, <1>4 DEF CountedIsPrinted, NoGaps
  <1> QED
    BY <1>1, <1>2, <1>5 DEF AuditInv, TailInv

LEMMA AuditStep == AuditInv /\ [Next]_vars => AuditInv'
  <1> SUFFICES ASSUME SinkInv, TailInv, [Next]_vars PROVE SinkInv' /\ TailInv'
    BY DEF AuditInv
  <1>1. SinkInv'
    BY SinkStep
  <1>2. CASE UNCHANGED tailVars
    BY <1>1, <1>2, FileGrows, GrowthKeepsTail
  <1>3. CASE ~ UNCHANGED tailVars
    <2>1. PICK i \in Poll : StartPoll(i) \/ EndPoll(i) \/ PollFails(i)
      BY <1>3 DEF Next, vars, CallAppend, ChainWrite, AppendReturns, AppendLine, WriteFails,
                  WriteTears, Crash, WriteOver
    <2>2. CASE StartPoll(i)
      BY <1>1, <2>2, StartKeepsTail
    <2>3. CASE EndPoll(i)
      BY <1>1, <2>3, EndKeepsTail
    <2>4. CASE PollFails(i)
      BY <1>1, <2>4, FailKeepsTail
    <2> QED
      BY <1>1, <2>1, <2>2, <2>3, <2>4
  <1> QED
    BY <1>1, <1>2, <1>3

LEMMA AuditIsInductive == Spec => []AuditInv
  BY InitAuditInv, AuditStep, PTL DEF Spec

-----------------------------------------------------------------------------
(* Every reachable state is of its type: no more than the entries there    *)
(* are reach the file, and what is chained is its owner's                  *)
(* (encrypted-jsonl-sink.ts:22-54).                                        *)
THEOREM TypeCorrect == Spec => []TypeOK
  <1>1. AuditInv => TypeOK
    <2> SUFFICES ASSUME AuditInv PROVE TypeOK
      OBVIOUS
    <2>1. Len(file) <= Cardinality(Record)
      BY FileFits DEF AuditInv, SinkInv, SinkTyped, FileSound
    <2> QED
      BY <2>1 DEF AuditInv, SinkInv, TailInv, SinkTyped, ChainsSound, TailTyped, TypeOK
  <1> QED
    BY <1>1, AuditIsInductive, PTL

(* The follower leaves no readable entry out before one that it printed,   *)
(* however its polls overlap and fail, and whatever processes append,      *)
(* tear and die meanwhile (shell.ts:625-659).                              *)
THEOREM FollowerLeavesNoGaps == Spec => []TailHasNoGaps
  <1>1. AuditInv => TailHasNoGaps
    BY DEF AuditInv, TailInv, TailHasNoGaps, NoOpen, NoGaps, Torn
  <1> QED
    BY <1>1, AuditIsInductive, PTL

-----------------------------------------------------------------------------
(* The sink implements the log                                             *)

LEMMA CompleteLines ==
  ASSUME SinkInv
  PROVE  /\ Complete = {i \in 1 .. Len(file) : /\ i = 1 \/ file[i - 1].kind = "line"
                                               /\ file[i].kind = "line"}
         /\ EndsTorn <=> Len(file) # 0 /\ file[Len(file)].kind # "line"
  <1>1. file \in Seq(Write)
    BY DEF SinkInv, SinkTyped
  <1>2. EndsTorn <=> Len(file) # 0 /\ file[Len(file)].kind # "line"
    BY <1>1 DEF EndsTorn, Torn
  <1> QED
    BY <1>2 DEF Complete, Own, OwnLine

LEMMA SameFileSameLog ==
  ASSUME UNCHANGED file
  PROVE  UNCHANGED <<Logged, Before, EndsTorn>>
  BY DEF Logged, Before, InOrder, Complete, Own, OwnLine, EndsTorn, Torn

\* A whole line is a new last entry of the log, unless it shares its line with
\* a torn write; a torn write is none.
LEMMA AppendExtendsLog ==
  ASSUME SinkInv, SinkInv', NEW e, NEW kind \in {"line", "cut", "open"},
         file' = Append(file, [entry |-> e, kind |-> kind])
  PROVE  /\ EndsTorn' = (kind # "line")
         /\ kind # "line" \/ EndsTorn => UNCHANGED <<Logged, Before>>
         /\ kind = "line" /\ ~EndsTorn => /\ Logged' = Logged \union {e}
                                          /\ Before' = Before \union (Logged \X {e})
  <1>1. file \in Seq(Write) /\ Len(file) \in Nat
    BY DEF SinkInv, SinkTyped
  <1>2. /\ Len(file') = Len(file) + 1
        /\ \A i \in 1 .. Len(file) : file'[i] = file[i]
        /\ file'[Len(file) + 1] = [entry |-> e, kind |-> kind]
    BY <1>1
  <1> DEFINE Ends(text) == Len(text) # 0 /\ text[Len(text)].kind # "line"
             Whole(text, i) == (i = 1 \/ text[i - 1].kind = "line") /\ text[i].kind = "line"
  <1>3. EndsTorn' = (kind # "line")
    <2>1. EndsTorn' <=> Ends(file')
      <3>1. file' \in Seq(Write)
        BY DEF SinkInv, SinkTyped
      <3> QED
        BY <3>1 DEF EndsTorn, Torn
    <2>2. Ends(file') <=> kind # "line"
      BY <1>1, <1>2
    <2>3. EndsTorn' \in BOOLEAN
      BY DEF EndsTorn
    <2> HIDE DEF Ends
    <2> QED
      BY <2>1, <2>2, <2>3
  <1>4. /\ Complete \subseteq 1 .. Len(file) /\ Complete' \subseteq 1 .. Len(file) + 1
        /\ \A i \in 1 .. Len(file) : i \in Complete <=> Whole(file, i)
        /\ \A i \in 1 .. Len(file) + 1 : i \in Complete' <=> Whole(file', i)
    BY <1>2, CompleteLines DEF Complete, Own, OwnLine
  <1>5. ASSUME NEW i \in 1 .. Len(file) PROVE i \in Complete' <=> i \in Complete
    <2>1. i = 1 \/ i - 1 \in 1 .. Len(file)
      BY <1>1
    <2>2. Whole(file', i) <=> Whole(file, i)
      BY <1>2, <2>1
    <2> QED
      BY <1>1, <1>4, <2>2
  <1>6. Len(file) + 1 \in Complete' <=> kind = "line" /\ ~EndsTorn
    <2>1. Len(file) = 0 \/ Len(file) \in 1 .. Len(file)
      BY <1>1
    <2>2. Whole(file', Len(file) + 1) <=> kind = "line" /\ ~Ends(file)
      BY <1>1, <1>2, <2>1
    <2> QED
      BY <1>1, <1>4, <2>2, CompleteLines
  <1>7. Complete' = Complete \union {i \in {Len(file) + 1} : kind = "line" /\ ~EndsTorn}
    <2>1. \A i \in 1 .. Len(file) + 1 : i \in 1 .. Len(file) \/ i = Len(file) + 1
      BY <1>1
    <2> HIDE DEF Ends, Whole
    <2> QED
      BY <1>4, <1>5, <1>6, <2>1
  <1>8. ASSUME kind # "line" \/ EndsTorn PROVE UNCHANGED <<Logged, Before>>
    <2>1. Complete' = Complete
      BY <1>7, <1>8
    <2>2. \A i \in Complete : file'[i] = file[i]
      BY <1>2, <1>4
    <2>3. Logged' = Logged
      BY <2>1, <2>2 DEF Logged
    <2>4. Before' = Before
      BY <2>1, <2>2 DEF Before, InOrder
    <2> QED
      BY <2>3, <2>4
  <1>9. ASSUME kind = "line", ~EndsTorn
        PROVE  Logged' = Logged \union {e} /\ Before' = Before \union (Logged \X {e})
    <2> DEFINE n == Len(file) + 1
    <2>1. Complete' = Complete \union {n}
      BY <1>7, <1>9
    <2>2. \A i \in Complete : file'[i] = file[i] /\ i < n /\ i \in Nat
      BY <1>1, <1>2, <1>4
    <2>3. file'[n].entry = e /\ n \in Nat
      BY <1>1, <1>2
    <2> HIDE DEF n
    <2>4. Logged' = Logged \union {e}
      BY <2>1, <2>2, <2>3 DEF Logged
    <2>5. InOrder' = InOrder \union (Complete \X {n})
      BY <2>1, <2>2, <2>3 DEF InOrder
    <2>6. \A q \in InOrder : file'[q[1]] = file[q[1]] /\ file'[q[2]] = file[q[2]]
      BY <2>2 DEF InOrder
    <2>7. Before' = Before \union (Logged \X {e})
      <3>1. ASSUME NEW q \in InOrder'
            PROVE  <<file'[q[1]].entry, file'[q[2]].entry>> \in Before \union (Logged \X {e})
        <4>1. CASE q \in InOrder
          BY <2>6, <4>1 DEF Before
        <4>2. CASE q \in Complete \X {n}
          BY <2>2, <2>3, <4>2 DEF Logged
        <4> QED
          BY <2>5, <4>1, <4>2
      <3>2. Before \subseteq Before'
        BY <2>5, <2>6 DEF Before
      <3>3. ASSUME NEW i \in Complete PROVE <<file[i].entry, e>> \in Before'
        <4>1. <<i, n>> \in InOrder'
          BY <2>5
        <4>2. file'[i].entry = file[i].entry /\ file'[n].entry = e
          BY <2>2, <2>3
        <4>3. <<file'[<<i, n>>[1]].entry, file'[<<i, n>>[2]].entry>> \in Before'
          BY <4>1 DEF Before
        <4> QED
          BY <4>2, <4>3
      <3>4. Before' \subseteq Before \union (Logged \X {e})
        BY <3>1 DEF Before
      <3>5. Logged \X {e} \subseteq Before'
        BY <3>3 DEF Logged
      <3> QED
        BY <3>2, <3>4, <3>5
    <2> QED
      BY <2>4, <2>7
  <1> QED
    BY <1>3, <1>8, <1>9

LEMMA ToldStep ==
  ASSUME SinkInv, NEW e \in Record, NEW how, status' = [status EXCEPT ![e] = how]
  PROVE  Told' = [Told EXCEPT ![e] = IF how \in {"encrypting", "chained"} THEN "called" ELSE how]
  BY DEF Told, SinkInv, SinkTyped

LEMMA LogStep ==
  ASSUME SinkInv, SinkInv', [Next]_vars
  PROVE  [Log!Next]_(Log!vars)
  <1>1. ASSUME NEW p \in Process, NEW e \in Record, CallAppend(p, e) PROVE Log!Call(e)
    <2>1. Told[e] = "new" /\ Told' = [Told EXCEPT ![e] = "called"]
      BY <1>1, ToldStep DEF CallAppend, Told
    <2> QED
      BY <1>1, <2>1, SameFileSameLog DEF CallAppend, Log!Call
  <1>2. ASSUME NEW e \in Record, ChainWrite(e) PROVE UNCHANGED Log!vars
    <2>1. Told' = [Told EXCEPT ![e] = "called"] /\ Told[e] = "called"
      BY <1>2, ToldStep DEF ChainWrite, Told
    <2>2. Told' = Told
      BY <2>1 DEF Told
    <2> QED
      BY <1>2, <2>2, SameFileSameLog DEF ChainWrite, Log!vars
  <1>3. ASSUME NEW e \in Record, AppendReturns(e) PROVE Log!Acknowledge(e)
    <2>1. Told[e] = "stored" /\ Told' = [Told EXCEPT ![e] = "acked"]
      BY <1>3, ToldStep DEF AppendReturns, Told
    <2> QED
      BY <1>3, <2>1, SameFileSameLog DEF AppendReturns, Log!Acknowledge
  <1>4. ASSUME NEW p \in Process, NEW how \in {"stored", "failed"}, WriteOver(p, how)
        PROVE  \E e \in Record : /\ e = Head(chain[p]) /\ Told[e] = "called"
                                 /\ Told' = [Told EXCEPT ![e] = how]
    <2>1. PICK e \in Record : e = Head(chain[p]) /\ status[e] = "chained"
      BY <1>4, HeadIsAlone DEF WriteOver
    <2>2. Told[e] = "called" /\ status' = [status EXCEPT ![e] = how]
      BY <1>4, <2>1 DEF WriteOver, Told
    <2> QED
      BY <2>1, <2>2, ToldStep
  <1>5. ASSUME NEW p \in Process, AppendLine(p) PROVE \E e \in Record : Log!Store(e)
    <2>1. PICK e \in Record : /\ e = Head(chain[p]) /\ Told[e] = "called"
                              /\ Told' = [Told EXCEPT ![e] = "stored"]
      BY <1>4, <1>5 DEF AppendLine
    <2>2. file' = Append(file, [entry |-> e, kind |-> "line"])
      BY <1>5, <2>1 DEF AppendLine, Reaches
    <2>3. /\ EndsTorn' = FALSE
          /\ EndsTorn => UNCHANGED <<Logged, Before>>
          /\ ~EndsTorn => Logged' = Logged \union {e} /\ Before' = Before \union (Logged \X {e})
      BY <2>2, AppendExtendsLog
    <2> QED
      BY <2>1, <2>3 DEF Log!Store
  <1>6. ASSUME NEW p \in Process, WriteFails(p) PROVE \E e \in Record : Log!Break(e)
    <2>1. PICK e \in Record : Told[e] = "called" /\ Told' = [Told EXCEPT ![e] = "failed"]
      BY <1>4, <1>6 DEF WriteFails
    <2>2. UNCHANGED <<Logged, Before, EndsTorn>>
      BY <1>6, SameFileSameLog DEF WriteFails
    <2> QED
      BY <2>1, <2>2 DEF Log!Break
  <1>7. ASSUME NEW p \in Process, WriteTears(p) PROVE \E e \in Record : Log!Break(e)
    <2>1. PICK e \in Record : /\ e = Head(chain[p]) /\ Told[e] = "called"
                              /\ Told' = [Told EXCEPT ![e] = "failed"]
      BY <1>4, <1>7 DEF WriteTears
    <2>2. PICK kind \in {"cut", "open"} : file' = Append(file, [entry |-> e, kind |-> kind])
      BY <1>7, <2>1 DEF WriteTears, Reaches
    <2>3. EndsTorn' = TRUE /\ UNCHANGED <<Logged, Before>>
      BY <2>2, AppendExtendsLog
    <2> QED
      BY <2>1, <2>3 DEF Log!Break
  <1>8. ASSUME NEW p \in Process, Crash(p) PROVE Log!Die
    <2> DEFINE gone == {e \in Record : owner[e] = p /\ status[e] \in Pending}
    <2>1. gone # {} /\ gone \in SUBSET {e \in Record : Told[e] \in {"called", "stored"}}
      BY <1>8 DEF Crash, Told, Pending
    <2>2. Told' = [e \in Record |-> IF e \in gone THEN "failed" ELSE Told[e]]
      BY <1>8 DEF Crash, Told, Pending
    <2>3. UNCHANGED <<Logged, Before>> /\ EndsTorn' \in {EndsTorn, TRUE}
      <3>1. CASE UNCHANGED file
        BY <3>1, SameFileSameLog
      <3>2. ASSUME NEW kind \in {"cut", "open"}, Reaches(p, kind)
            PROVE  UNCHANGED <<Logged, Before>> /\ EndsTorn' = TRUE
        BY <3>2, AppendExtendsLog DEF Reaches
      <3> QED
        BY <1>8, <3>1, <3>2 DEF Crash
    <2> HIDE DEF gone
    <2> QED
      BY <2>1, <2>2, <2>3 DEF Log!Die
  <1>9. CASE UNCHANGED sinkVars
    <2>1. UNCHANGED <<Logged, Before, EndsTorn>>
      BY <1>9, SameFileSameLog DEF sinkVars
    <2>2. UNCHANGED Told
      BY <1>9 DEF sinkVars, Told
    <2> QED
      BY <2>1, <2>2 DEF Log!vars
  <1>10. ASSUME NEW i \in Poll, StartPoll(i) \/ EndPoll(i) \/ PollFails(i) PROVE UNCHANGED sinkVars
    BY <1>10 DEF StartPoll, EndPoll, PollFails
  <1>11. UNCHANGED vars => UNCHANGED sinkVars
    BY DEF vars
  <1> QED
    BY <1>1, <1>2, <1>3, <1>5, <1>6, <1>7, <1>8, <1>9, <1>10, <1>11 DEF Next, Log!Next

(* Seen from outside, the sink is the append-only log of AuditLog, however *)
(* its chained writes, failures and crashes interleave: what is stored     *)
(* stays, in one order, and is acknowledged only after it was stored       *)
(* (encrypted-jsonl-sink.ts:22-54).                                        *)
THEOREM SinkIsALog == Spec => ImplementsLog
  <1>1. Init => Log!Init
    <2> SUFFICES ASSUME Init PROVE Log!Init
      OBVIOUS
    <2>1. Complete = {} /\ Torn = {}
      BY DEF Init, Complete, Own, Torn
    <2> QED
      BY <2>1 DEF Log!Init, Logged, Before, InOrder, EndsTorn, Told, Init
  <1>2. AuditInv /\ AuditInv' /\ [Next]_vars => [Log!Next]_(Log!vars)
    BY LogStep DEF AuditInv
  <1> QED
    BY <1>1, <1>2, AuditIsInductive, PTL DEF ImplementsLog, Log!Spec, Spec

=============================================================================
