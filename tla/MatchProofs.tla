---------------------------- MODULE MatchProofs -----------------------------
(***************************************************************************)
(* Lemmas about what a scan makes of packages and a threat feed: what      *)
(* filter leaves of a sequence, what matching finds, in one piece and cut  *)
(* into chunks, and what a policy document leaves of it                    *)
(* (src/src/scan/matcher.ts, src/src/scan/parallel.ts,                     *)
(* src/src/policy/engine.ts).                                              *)
(***************************************************************************)
EXTENDS ThreatMatch, SequenceTheorems, FiniteSetTheorems, TLAPS

-----------------------------------------------------------------------------
(* Filter, the model's Array.filter: the ranks of n positions are 1 .. n,  *)
(* each of one position.                                                   *)
LEMMA RankGrows ==
    ASSUME NEW hits, IsFiniteSet(hits), hits \subseteq Int
    PROVE  /\ \A i \in hits : Rank(i, hits) \in 1 .. Cardinality(hits)
           /\ \A i, j \in hits : i < j => Rank(i, hits) < Rank(j, hits)
<1> DEFINE k == Cardinality(hits)
           Upto(i) == {j \in hits : j <= i}
<1>1. k \in Nat
  BY FS_CardinalityType
<1>2. ASSUME NEW i \in hits PROVE IsFiniteSet(Upto(i)) /\ Rank(i, hits) \in 1 .. k
  <2>1. Upto(i) \subseteq hits /\ i \in Upto(i)
    OBVIOUS
  <2>2. IsFiniteSet(Upto(i)) /\ Cardinality(Upto(i)) \in Nat /\ Cardinality(Upto(i)) <= k
    BY <2>1, FS_Subset, FS_CardinalityType
  <2>3. Cardinality(Upto(i)) # 0
    BY <2>1, <2>2, FS_EmptySet
  <2> QED
    BY <1>1, <2>2, <2>3 DEF Rank
<1>3. ASSUME NEW i \in hits, NEW j \in hits, i < j PROVE Rank(i, hits) < Rank(j, hits)
  <2>1. Upto(i) \union {j} \subseteq Upto(j) /\ j \notin Upto(i)
    <3>1. i \in Int /\ j \in Int /\ \A m \in hits : m \in Int
      OBVIOUS
    <3>2. \A m \in hits : m <= i => m <= j
      BY <1>3, <3>1
    <3>3. j <= j /\ ~(j <= i)
      BY <1>3, <3>1
    <3> QED
      BY <3>2, <3>3
  <2>2. Cardinality(Upto(i) \union {j}) = Cardinality(Upto(i)) + 1
    BY <1>2, <2>1, FS_AddElement
  <2>3. Cardinality(Upto(i) \union {j}) <= Cardinality(Upto(j))
    BY <1>2, <2>1, FS_Subset
  <2>4. Cardinality(Upto(i)) \in Nat /\ Cardinality(Upto(j)) \in Nat
    BY <1>2, FS_CardinalityType
  <2> QED
    BY <2>2, <2>3, <2>4 DEF Rank
<1> QED
  BY <1>2, <1>3

LEMMA RankIsOnto ==
    ASSUME NEW hits, IsFiniteSet(hits), hits \subseteq Int, NEW n \in 1 .. Cardinality(hits)
    PROVE  \E i \in hits : Rank(i, hits) = n
<1> DEFINE k == Cardinality(hits)
<1>1. k \in Nat
  BY FS_CardinalityType
<1>2. \A i \in hits : Rank(i, hits) \in 1 .. k
  BY RankGrows
<1>3. \A i, j \in hits : i < j => Rank(i, hits) < Rank(j, hits)
  BY RankGrows
<1>4. SUFFICES ASSUME \A i \in hits : Rank(i, hits) # n PROVE FALSE
  OBVIOUS
<1> DEFINE others == (1 .. k) \ {n}
           rank == [i \in hits |-> Rank(i, hits)]
<1>5. rank \in [hits -> others]
  BY <1>2, <1>4
<1>6. IsFiniteSet(others) /\ Cardinality(others) < k
  <2>1. IsFiniteSet(1 .. k) /\ Cardinality(1 .. k) = k
    BY <1>1, FS_Interval
  <2> QED
    <3>1. n \in 1 .. k
      OBVIOUS
    <3>2. IsFiniteSet((1 .. k) \ {n}) /\ Cardinality((1 .. k) \ {n}) = Cardinality(1 .. k) - 1
      BY <2>1, <3>1, FS_RemoveElement
    <3> QED
      BY <1>1, <2>1, <3>2
<1>7. PICK i \in hits, j \in hits : i # j /\ rank[i] = rank[j]
  <2> HIDE DEF rank, others
  <2> QED
    BY <1>5, <1>6, FS_PigeonHole
<1>8. Rank(i, hits) = Rank(j, hits) /\ Rank(i, hits) \in Int
  <2>1. Rank(i, hits) = Rank(j, hits)
    BY <1>7
  <2>2. Rank(i, hits) \in 1 .. k
    BY <1>2
  <2> QED
    BY <1>1, <2>1, <2>2
<1>9. i < j \/ j < i
  <2>1. i \in Int /\ j \in Int
    OBVIOUS
  <2> QED
    BY <1>7, <2>1
<1> QED
  BY <1>3, <1>8, <1>9

(* What is filtered out of a sequence is a sequence of elements of it, and *)
(* only of those asked for.                                                *)
LEMMA FilterTyped ==
    ASSUME NEW S, NEW s \in Seq(S), NEW hits \in SUBSET (DOMAIN s)
    PROVE  /\ Filter(s, hits) \in Seq(S)
           /\ \A n \in DOMAIN Filter(s, hits) : \E i \in hits : Filter(s, hits)[n] = s[i]
<1> DEFINE At(n) == CHOOSE i \in hits : Rank(i, hits) = n
<1>1. IsFiniteSet(DOMAIN s) /\ DOMAIN s \subseteq Int
  <2>1. DOMAIN s = 1 .. Len(s) /\ Len(s) \in Nat
    OBVIOUS
  <2> QED
    BY <2>1, FS_Interval
<1>2. IsFiniteSet(hits) /\ hits \subseteq Int /\ Cardinality(hits) \in Nat
  BY <1>1, FS_Subset, FS_CardinalityType
<1>3. ASSUME NEW n \in 1 .. Cardinality(hits) PROVE At(n) \in hits
  BY <1>2, RankIsOnto
<1>4. \A i \in hits : s[i] \in S
  OBVIOUS
<1> HIDE DEF At
<1>5. [n \in 1 .. Cardinality(hits) |-> s[At(n)]] \in Seq(S)
  BY <1>2, <1>3, <1>4
<1>6. Filter(s, hits) = [n \in 1 .. Cardinality(hits) |-> s[At(n)]]
  BY DEF Filter, At
<1> QED
  BY <1>3, <1>5, <1>6

(* Nothing that was asked for is lost.                                     *)
LEMMA FilterHasAll ==
    ASSUME NEW S, NEW s \in Seq(S), NEW hits \in SUBSET (DOMAIN s), NEW i \in hits
    PROVE  \E n \in DOMAIN Filter(s, hits) : Filter(s, hits)[n] = s[i]
<1>1. IsFiniteSet(DOMAIN s) /\ DOMAIN s \subseteq Int
  <2>1. DOMAIN s = 1 .. Len(s) /\ Len(s) \in Nat
    OBVIOUS
  <2> QED
    BY <2>1, FS_Interval
<1>2. IsFiniteSet(hits) /\ hits \subseteq Int
  BY <1>1, FS_Subset
<1>3. PICK n \in 1 .. Cardinality(hits) : n = Rank(i, hits)
  BY <1>2, RankGrows
<1>4. ASSUME NEW j \in hits, Rank(j, hits) = n PROVE j = i
  <2>1. i \in Int /\ j \in Int /\ n \in Int
    BY <1>2
  <2>2. ~(i < j) /\ ~(j < i)
    BY <1>2, <1>3, <1>4, <2>1, RankGrows
  <2> QED
    BY <2>1, <2>2
<1>5. (CHOOSE j \in hits : Rank(j, hits) = n) = i
  BY <1>3, <1>4
<1>6. n \in DOMAIN Filter(s, hits) /\ Filter(s, hits)[n] = s[i]
  BY <1>3, <1>5 DEF Filter
<1> QED
  BY <1>6

(* A set of positions has a least one: that of rank 1.                     *)
LEMMA LeastPosition ==
    ASSUME NEW hits, IsFiniteSet(hits), hits \subseteq Int, hits # {}
    PROVE  \E i \in hits : \A j \in hits : i <= j
<1>1. /\ Cardinality(hits) \in Nat /\ Cardinality(hits) # 0
      /\ \A j \in hits : Rank(j, hits) \in 1 .. Cardinality(hits)
      /\ \A j, k \in hits : j < k => Rank(j, hits) < Rank(k, hits)
  BY FS_CardinalityType, FS_EmptySet, RankGrows
<1>2. 1 \in 1 .. Cardinality(hits)
  BY <1>1
<1>3. PICK i \in hits : Rank(i, hits) = 1
  BY <1>2, RankIsOnto
<1>4. ASSUME NEW j \in hits PROVE i <= j
  <2>1. i \in Int /\ j \in Int
    OBVIOUS
  <2>2. PICK n \in 1 .. Cardinality(hits) : n = Rank(j, hits)
    BY <1>1
  <2>3. ~(n < 1)
    BY <1>1, <2>2
  <2>4. ~(j < i)
    BY <1>1, <1>3, <2>2, <2>3
  <2> QED
    BY <2>1, <2>4
<1> QED
  BY <1>4

-----------------------------------------------------------------------------
(* Matching in one piece                                                   *)

\* The rule hits packages, and its match has a package for it.
Found(m, rules, packages, allowlist) ==
    \E i \in DOMAIN rules, j \in DOMAIN packages :
        /\ Hits(rules[i], packages[j], allowlist)
        /\ m.item = rules[i] /\ m.matching # <<>> /\ Head(m.matching) = packages[j]

LEMMA RuleMatched ==
    ASSUME NEW P, NEW packages \in Seq(P), NEW rule, NEW allowlist
    PROVE  LET m == MatchRule(rule, packages, allowlist)
           IN /\ m \in [item : {rule}, matching : Seq(P)]
              /\ m.matching # <<>> => \E j \in DOMAIN packages :
                    Hits(rule, packages[j], allowlist) /\ Head(m.matching) = packages[j]
              /\ \A j \in DOMAIN packages : Hits(rule, packages[j], allowlist) => m.matching # <<>>
<1> DEFINE hits == {j \in DOMAIN packages : Hits(rule, packages[j], allowlist)}
           left == Filter(packages, hits)
           m == MatchRule(rule, packages, allowlist)
<1>1. hits \in SUBSET (DOMAIN packages) /\ \A j \in hits : Hits(rule, packages[j], allowlist)
  OBVIOUS
<1>2. m = [item |-> rule, matching |-> left]
  BY DEF MatchRule
<1>3. ASSUME NEW j \in DOMAIN packages, Hits(rule, packages[j], allowlist) PROVE j \in hits
  BY <1>3
<1> HIDE DEF hits
<1>4. left \in Seq(P) /\ \A n \in DOMAIN left : \E j \in hits : left[n] = packages[j]
  BY <1>1, FilterTyped
<1>5. \A j \in hits : \E n \in DOMAIN left : left[n] = packages[j]
  BY <1>1, FilterHasAll
<1> HIDE DEF left, m
<1>6. m.matching # <<>> => \E j \in DOMAIN packages :
          Hits(rule, packages[j], allowlist) /\ Head(m.matching) = packages[j]
  <2> SUFFICES ASSUME left # <<>>
               PROVE  \E j \in hits : Head(left) = packages[j]
    BY <1>1, <1>2
  <2>1. 1 \in DOMAIN left /\ Head(left) = left[1]
    BY <1>4
  <2> QED
    BY <1>4, <2>1
<1>7. ASSUME NEW j \in DOMAIN packages, Hits(rule, packages[j], allowlist) PROVE m.matching # <<>>
  <2>1. \E n \in DOMAIN left : left[n] = packages[j]
    BY <1>3, <1>5, <1>7
  <2>2. left # <<>>
    BY <1>4, <2>1
  <2> QED
    BY <1>2, <2>2
<1>8. m \in [item : {rule}, matching : Seq(P)]
  BY <1>2, <1>4
<1> QED
  BY <1>6, <1>7, <1>8 DEF m

\* What was found was, and a rule that hits a package is the rule of a match.
AllFound(found, P, packages, R, rules, allowlist) ==
    /\ found \in Seq([item : R, matching : Seq(P)])
    /\ \A n \in DOMAIN found : Found(found[n], rules, packages, allowlist)
    /\ \A i \in DOMAIN rules, j \in DOMAIN packages :
          Hits(rules[i], packages[j], allowlist) => \E n \in DOMAIN found : found[n].item = rules[i]

(* matchThreats finds what there is, and nothing else.                     *)
LEMMA ThreatsMatched ==
    ASSUME NEW P, NEW packages \in Seq(P), NEW R, NEW rules \in Seq(R), NEW allowlist
    PROVE  AllFound(MatchThreats(packages, rules, allowlist), P, packages, R, rules, allowlist)
<1> DEFINE all == [i \in DOMAIN rules |-> MatchRule(rules[i], packages, allowlist)]
           hits == {i \in DOMAIN rules : all[i].matching # <<>>}
<1>0. PICK found, T : found = MatchThreats(packages, rules, allowlist) /\ T = [item : R, matching : Seq(P)]
  OBVIOUS
<1>1. ASSUME NEW i \in DOMAIN rules
      PROVE  /\ all[i] \in T /\ all[i].item = rules[i]
             /\ all[i].matching # <<>> => \E j \in DOMAIN packages :
                    Hits(rules[i], packages[j], allowlist) /\ Head(all[i].matching) = packages[j]
             /\ \A j \in DOMAIN packages : Hits(rules[i], packages[j], allowlist) => i \in hits
  <2>1. rules[i] \in R /\ all[i] = MatchRule(rules[i], packages, allowlist)
    OBVIOUS
  <2>2. /\ all[i] \in [item : {rules[i]}, matching : Seq(P)]
        /\ all[i].matching # <<>> => \E j \in DOMAIN packages :
              Hits(rules[i], packages[j], allowlist) /\ Head(all[i].matching) = packages[j]
        /\ \A j \in DOMAIN packages : Hits(rules[i], packages[j], allowlist)
              => all[i].matching # <<>>
    BY <2>1, RuleMatched
  <2> HIDE DEF all
  <2> QED
    BY <1>0, <2>1, <2>2
<1>2. all \in Seq(T) /\ DOMAIN all = DOMAIN rules
  <2>1. \A i \in DOMAIN rules : MatchRule(rules[i], packages, allowlist) \in T
    BY <1>1
  <2>2. DOMAIN rules = 1 .. Len(rules) /\ Len(rules) \in Nat
    OBVIOUS
  <2> QED
    BY <2>1, <2>2
<1>3. hits \in SUBSET (DOMAIN all) /\ \A i \in hits : i \in DOMAIN rules /\ all[i].matching # <<>>
  BY <1>2
<1>4. found = Filter(all, hits)
  BY <1>0 DEF MatchThreats
<1> HIDE DEF all, hits
<1>5. found \in Seq(T)
      /\ \A n \in DOMAIN found : \E i \in hits : found[n] = all[i]
  BY <1>2, <1>3, <1>4, FilterTyped
<1>6. \A i \in hits : \E n \in DOMAIN found : found[n] = all[i]
  BY <1>2, <1>3, <1>4, FilterHasAll
<1>7. ASSUME NEW n \in DOMAIN found PROVE Found(found[n], rules, packages, allowlist)
  <2>1. PICK i \in hits : found[n] = all[i]
    BY <1>5
  <2>2. i \in DOMAIN rules /\ all[i].matching # <<>> /\ all[i].item = rules[i]
    BY <1>1, <1>3
  <2>3. PICK j \in DOMAIN packages :
            Hits(rules[i], packages[j], allowlist) /\ Head(all[i].matching) = packages[j]
    BY <1>1, <2>2
  <2> QED
    BY <2>1, <2>2, <2>3 DEF Found
<1>8. ASSUME NEW i \in DOMAIN rules, NEW j \in DOMAIN packages, Hits(rules[i], packages[j], allowlist)
      PROVE  \E n \in DOMAIN found : found[n].item = rules[i]
  BY <1>1, <1>6, <1>8
<1> QED
  BY <1>0, <1>5, <1>7, <1>8 DEF AllFound

-----------------------------------------------------------------------------
(* Chunks                                                                  *)

LEMMA Quotients ==
    ASSUME NEW a \in Int, NEW b \in Nat, b > 0
    PROVE  a \div b \in Int /\ b * (a \div b) <= a /\ a < b * (a \div b) + b
  OBVIOUS

LEMMA QuotientsGrow ==
    ASSUME NEW a \in Nat, NEW b \in Nat, NEW c \in Nat, b > 0, a <= c
    PROVE  a \div b \in Nat /\ c \div b \in Nat /\ a \div b <= c \div b
  OBVIOUS

LEMMA ProductsGrow ==
    ASSUME NEW a \in Int, NEW b \in Int, NEW c \in Nat, a <= b
    PROVE  c * a \in Int /\ c * b \in Int /\ c * a <= c * b
  OBVIOUS

\* Count chunks of size packages, the last up to the end, are chunks of n
\* packages and leave none out.
Fits(n, size, count) ==
    /\ size \in Nat \ {0} /\ count \in Nat \ {0}
    /\ \A c \in 1 .. count :
          (c - 1) * size \in Nat /\ c * size \in Nat /\ (c # count => c * size <= n)
    /\ \A j \in 1 .. n : \E c \in 1 .. count :
          (c - 1) * size < j /\ (c # count => j <= c * size)

LEMMA ChunksFit ==
    ASSUME NEW n \in Nat \ {0}, NEW w \in Nat \ {0}, NEW size, NEW count,
           size = (n + w - 1) \div w, count = (n + size - 1) \div size
    PROVE  Fits(n, size, count)
<1>1. size \in Nat \ {0}
  <2>1. n + w - 1 \in Nat /\ w <= n + w - 1 /\ w \in Nat /\ w > 0
    OBVIOUS
  <2>2. w \div w \in Nat /\ size \in Nat /\ w \div w <= size
    BY <2>1, QuotientsGrow
  <2>3. w < w * (w \div w) + w
    BY <2>1, Quotients
  <2>4. w \div w # 0
    BY <2>2, <2>3
  <2> QED
    BY <2>2, <2>4
<1>2. count \in Int /\ size * count <= n + size - 1 /\ n + size - 1 < size * count + size
  <2>1. n + size - 1 \in Int /\ size \in Nat /\ size > 0
    BY <1>1
  <2> QED
    BY <2>1, Quotients
<1>3. count \in Nat \ {0}
  <2>1. size * count \in Int /\ n - 1 < size * count
    BY <1>1, <1>2
  <2>2. CASE count <= 0
    <3>1. size * count <= size * 0 /\ size * 0 = 0
      BY <1>1, <1>2, <2>2, ProductsGrow
    <3> QED
      BY <2>1, <3>1
  <2> QED
    BY <1>2, <2>2
<1>4. ASSUME NEW c \in 1 .. count
      PROVE  (c - 1) * size \in Nat /\ c * size \in Nat /\ (c # count => c * size <= n)
  <2>1. c \in Nat /\ c - 1 \in Nat /\ c <= count
    BY <1>3
  <2>2. (c - 1) * size \in Nat /\ c * size \in Nat
    BY <1>1, <2>1
  <2>3. ASSUME c # count PROVE c * size <= n
    <3>1. c + 1 <= count
      BY <1>3, <2>1, <2>3
    <3>2. size * (c + 1) <= size * count
      BY <1>1, <1>3, <2>1, <3>1, ProductsGrow
    <3>3. size * (c + 1) = c * size + size
      BY <1>1, <2>1
    <3>4. size * count \in Int
      BY <1>1, <1>3
    <3> QED
      BY <1>1, <1>2, <2>2, <3>2, <3>3, <3>4
  <2> QED
    BY <2>2, <2>3
<1>5. ASSUME NEW j \in 1 .. n
      PROVE  \E c \in 1 .. count : (c - 1) * size < j /\ (c # count => j <= c * size)
  <2>1. PICK q : q = (j - 1) \div size
    OBVIOUS
  <2>2. j - 1 \in Nat /\ j \in Nat /\ j <= n
    OBVIOUS
  <2>3. q \in Int /\ size * q <= j - 1 /\ j - 1 < size * q + size
    BY <1>1, <2>1, <2>2, Quotients
  <2>4. q \in Nat
    BY <1>1, <2>1, <2>2, QuotientsGrow
  <2>5. q < count
    <3>1. CASE count <= q
      <4>1. size * count <= size * q /\ size * count \in Int /\ size * q \in Int
        BY <1>1, <1>3, <2>4, <3>1, ProductsGrow
      <4> QED
        BY <1>1, <1>2, <2>2, <2>3, <4>1
    <3> QED
      BY <1>3, <2>4, <3>1
  <2>6. q + 1 \in 1 .. count
    BY <1>3, <2>4, <2>5
  <2>7. size * q = ((q + 1) - 1) * size /\ size * q + size = (q + 1) * size /\ size * q \in Int
    BY <1>1, <2>4
  <2> QED
    BY <2>2, <2>3, <2>6, <2>7
<1> QED
  BY <1>1, <1>3, <1>4, <1>5 DEF Fits

\* The chunks have packages of the list, and all of them.
Cut(chunks, P, packages) ==
    /\ \E count \in Nat : DOMAIN chunks = 1 .. count
    /\ \A c \in DOMAIN chunks :
          /\ chunks[c] \in Seq(P)
          /\ \A i \in DOMAIN chunks[c] : \E j \in DOMAIN packages : chunks[c][i] = packages[j]
    /\ \A j \in DOMAIN packages :
          \E c \in DOMAIN chunks : \E i \in DOMAIN chunks[c] : chunks[c][i] = packages[j]

(* chunkPackages leaves no package out.                                    *)
LEMMA ChunksHaveAll ==
    ASSUME NEW P, NEW packages \in Seq(P), Len(packages) >= Threshold
    PROVE  Cut(Chunks(packages), P, packages)
<1>1. PICK n \in Nat \ {0} : n = Len(packages)
  BY MatchAssumption
<1>2. Workers \in Nat \ {0} /\ DOMAIN packages = 1 .. n /\ \A j \in 1 .. n : packages[j] \in P
  BY <1>1, MatchAssumption
<1>3. PICK size : size = (n + Workers - 1) \div Workers
  OBVIOUS
<1>4. PICK count : count = (n + size - 1) \div size
  OBVIOUS
<1> DEFINE last(c) == IF c = count THEN n ELSE c * size
<1>5. PICK chunks : chunks = Chunks(packages)
  OBVIOUS
<1>6. chunks = [c \in 1 .. count |-> SubSeq(packages, (c - 1) * size + 1, last(c))]
  BY <1>1, <1>3, <1>4, <1>5 DEF Chunks
<1>7. Fits(n, size, count)
  BY <1>2, <1>3, <1>4, ChunksFit
<1> DEFINE Whole(chunk, c) ==
              /\ chunk \in Seq(P)
              /\ \A i \in DOMAIN chunk : \E j \in 1 .. n : chunk[i] = packages[j]
              /\ \A j \in (c - 1) * size + 1 .. last(c) : \E i \in DOMAIN chunk : chunk[i] = packages[j]
<1>8. ASSUME NEW c \in 1 .. count PROVE Whole(chunks[c], c)
  <2>0. PICK chunk : chunk = chunks[c]
    OBVIOUS
  <2>1. PICK from \in Nat : from = (c - 1) * size + 1 /\ from >= 1
    BY <1>7 DEF Fits
  <2>2. PICK to \in Nat : to = last(c) /\ to <= n
    BY <1>7 DEF Fits
  <2>3. chunk = SubSeq(packages, from, to)
    BY <1>6, <2>0, <2>1, <2>2
  <2>4. \A j \in from .. to : j \in 1 .. n
    BY <2>1, <2>2
  <2>5. /\ chunk \in Seq(P)
        /\ Len(chunk) = IF from <= to THEN to - from + 1 ELSE 0
        /\ \A i \in 1 .. to - from + 1 : chunk[i] = packages[from + i - 1]
    BY <1>2, <2>1, <2>2, <2>3, <2>4, SubSeqProperties
  <2>6. ASSUME NEW i \in DOMAIN chunk PROVE \E j \in 1 .. n : chunk[i] = packages[j]
    <3>1. i \in 1 .. to - from + 1
      BY <2>1, <2>2, <2>5
    <3>2. from + i - 1 \in 1 .. n
      BY <2>1, <2>2, <3>1
    <3> QED
      BY <2>5, <3>1, <3>2
  <2>7. ASSUME NEW j \in from .. to PROVE \E i \in DOMAIN chunk : chunk[i] = packages[j]
    <3>1. j - from + 1 \in 1 .. to - from + 1 /\ from + (j - from + 1) - 1 = j /\ from <= to
      BY <2>1, <2>2
    <3>2. j - from + 1 \in DOMAIN chunk
      BY <2>5, <3>1
    <3> QED
      BY <2>5, <3>1, <3>2
  <2>8. Whole(chunk, c)
    BY <2>1, <2>2, <2>5, <2>6, <2>7
  <2> QED
    BY <2>0, <2>8
<1>9. DOMAIN chunks = 1 .. count
  BY <1>6
<1>10. ASSUME NEW j \in DOMAIN packages
      PROVE  \E c \in 1 .. count : \E i \in DOMAIN chunks[c] : chunks[c][i] = packages[j]
  <2>1. PICK c \in 1 .. count : (c - 1) * size < j /\ (c # count => j <= c * size)
    BY <1>2, <1>7 DEF Fits
  <2>2. (c - 1) * size \in Nat /\ c * size \in Nat /\ j \in Nat /\ j <= n
    BY <1>2, <1>7 DEF Fits
  <2>3. j \in (c - 1) * size + 1 .. last(c)
    BY <2>1, <2>2
  <2> QED
    BY <1>8, <2>3
<1>11. \A c \in 1 .. count : /\ chunks[c] \in Seq(P)
                            /\ \A i \in DOMAIN chunks[c] :
                                  \E j \in 1 .. n : chunks[c][i] = packages[j]
  BY <1>8
<1>12. count \in Nat
  BY <1>7 DEF Fits
<1>13. Cut(chunks, P, packages)
  <2>1. \E m \in Nat : DOMAIN chunks = 1 .. m
    BY <1>9, <1>12
  <2>2. ASSUME NEW c \in DOMAIN chunks
        PROVE  /\ chunks[c] \in Seq(P)
               /\ \A i \in DOMAIN chunks[c] : \E j \in DOMAIN packages : chunks[c][i] = packages[j]
    BY <1>2, <1>9, <1>11
  <2>3. ASSUME NEW j \in DOMAIN packages
        PROVE  \E c \in DOMAIN chunks : \E i \in DOMAIN chunks[c] : chunks[c][i] = packages[j]
    BY <1>9, <1>10
  <2> QED
    BY ONLY <2>1, <2>2, <2>3 DEF Cut
<1> QED
  BY <1>5, <1>13

\* What is kept is a match of a worker, and one of every package that a match
\* names.
Merged(matches, results) ==
    /\ \A m \in matches : \E c \in DOMAIN results : \E i \in DOMAIN results[c] : m = results[c][i]
    /\ \A c \in DOMAIN results : \A i \in DOMAIN results[c] :
          \E m \in matches : m.item.package = results[c][i].item.package

(* The merge of matchThreatsParallel loses no package.                     *)
LEMMA MergeKeeps ==
    ASSUME NEW S, NEW results, NEW count \in Nat, DOMAIN results = 1 .. count,
           \A c \in 1 .. count : results[c] \in Seq(S)
    PROVE  Merged(Merge(results), results)
<1> DEFINE all == UNION {{c} \X DOMAIN results[c] : c \in DOMAIN results}
           At(p) == results[p[1]][p[2]]
           Precedes(p, q) == p[1] < q[1] \/ (p[1] = q[1] /\ p[2] < q[2])
           IsFirst(p) == \A q \in all : At(q).item.package = At(p).item.package => ~Precedes(q, p)
<1>1. Merge(results) = {At(p) : p \in {q \in all : IsFirst(q)}}
  BY DEF Merge
<1>2. ASSUME NEW p \in all PROVE p[1] \in DOMAIN results /\ p[2] \in DOMAIN results[p[1]]
  OBVIOUS
<1>3. ASSUME NEW c \in DOMAIN results, NEW i \in DOMAIN results[c] PROVE <<c, i>> \in all
  OBVIOUS
<1> HIDE DEF all
<1>4. ASSUME NEW m \in Merge(results)
      PROVE  \E c \in DOMAIN results : \E i \in DOMAIN results[c] : m = results[c][i]
  <2>1. PICK p \in all : m = At(p)
    BY <1>1
  <2> QED
    BY <1>2, <2>1
<1>5. ASSUME NEW c \in DOMAIN results, NEW i \in DOMAIN results[c]
      PROVE  \E m \in Merge(results) : m.item.package = results[c][i].item.package
  <2> DEFINE Names(m) == m.item.package = results[c][i].item.package
             chunks == {d \in DOMAIN results : \E n \in DOMAIN results[d] : Names(results[d][n])}
  <2>1. chunks \subseteq 1 .. count /\ c \in chunks
    OBVIOUS
  <2>2. IsFiniteSet(chunks) /\ chunks \subseteq Int
    BY <2>1, FS_Interval, FS_Subset
  <2> HIDE DEF Names
  <2>3. PICK c0 \in chunks : \A d \in chunks : c0 <= d
    <3> HIDE DEF chunks
    <3> QED
      BY <2>1, <2>2, LeastPosition
  <2> DEFINE places == {n \in DOMAIN results[c0] : Names(results[c0][n])}
  <2>4. DOMAIN results[c0] = 1 .. Len(results[c0]) /\ Len(results[c0]) \in Nat
    OBVIOUS
  <2>5. places # {} /\ places \subseteq 1 .. Len(results[c0])
    BY <2>4
  <2>6. IsFiniteSet(places) /\ places \subseteq Int
    <3> HIDE DEF places
    <3>1. IsFiniteSet(1 .. Len(results[c0]))
      BY <2>4, FS_Interval
    <3>2. IsFiniteSet(places)
      BY <2>5, <3>1, FS_Subset
    <3> QED
      BY <2>5, <3>2
  <2>7. PICK i0 \in places : \A n \in places : i0 <= n
    <3> HIDE DEF places
    <3> QED
      BY <2>5, <2>6, LeastPosition
  <2>8. c0 \in DOMAIN results /\ i0 \in DOMAIN results[c0] /\ Names(results[c0][i0])
    OBVIOUS
  <2>9. PICK p \in all : p = <<c0, i0>>
    BY <1>3, <2>8
  <2>10. p[1] = c0 /\ p[2] = i0 /\ At(p) = results[c0][i0]
    BY <2>9
  <2>11. ASSUME NEW q \in all, Names(At(q)) PROVE ~Precedes(q, p)
    <3>1. q[1] \in DOMAIN results /\ q[2] \in DOMAIN results[q[1]]
      BY <1>2
    <3>2. q[1] \in chunks /\ (q[1] = c0 => q[2] \in places)
      BY <2>11, <3>1
    <3>3. q[1] \in Int /\ c0 \in Int /\ c0 <= q[1]
      BY <2>2, <2>3, <3>2
    <3>4. q[1] = c0 => q[2] \in Int /\ i0 \in Int /\ i0 <= q[2]
      BY <2>6, <2>7, <3>2
    <3> HIDE DEF places, chunks
    <3> QED
      BY <2>10, <3>3, <3>4
  <2>12. IsFirst(p) /\ Names(At(p))
    BY <2>8, <2>10, <2>11 DEF Names
  <2>13. At(p) \in Merge(results)
    BY <1>1, <2>12
  <2> QED
    BY <2>12, <2>13 DEF Names
<1> QED
  BY <1>4, <1>5 DEF Merged

(* matchThreatsParallel: what it returns was found, and every rule that    *)
(* hits a package has a match, that of another rule for the same package   *)
(* if the packages were cut into chunks.                                   *)
LEMMA MatchesFound ==
    ASSUME NEW P, NEW packages \in Seq(P), NEW R, NEW rules \in Seq(R), NEW allowlist,
           NEW matches, matches = MatchThreatsParallel(packages, rules, allowlist)
    PROVE  /\ \A m \in matches : Found(m, rules, packages, allowlist)
           /\ \A i \in DOMAIN rules, j \in DOMAIN packages :
                 Hits(rules[i], packages[j], allowlist) =>
                     \E m \in matches : /\ m.item.package = rules[i].package
                                        /\ Len(packages) < Threshold => m.item = rules[i]
<1>0. Threshold \in Nat /\ Len(packages) \in Nat
  BY MatchAssumption
<1>1. CASE Len(packages) < Threshold
  <2>1. PICK found : found = MatchThreats(packages, rules, allowlist)
    OBVIOUS
  <2>2. matches = {found[n] : n \in DOMAIN found}
    BY <1>1, <2>1 DEF MatchThreatsParallel, Range
  <2>3. /\ \A n \in DOMAIN found : Found(found[n], rules, packages, allowlist)
        /\ \A i \in DOMAIN rules, j \in DOMAIN packages :
              Hits(rules[i], packages[j], allowlist)
                  => \E n \in DOMAIN found : found[n].item = rules[i]
    <3>1. AllFound(found, P, packages, R, rules, allowlist)
      BY <2>1, ThreatsMatched
    <3> QED
      BY <3>1 DEF AllFound
  <2> QED
    BY <2>2, <2>3
<1>2. CASE ~(Len(packages) < Threshold)
  <2>1. PICK chunks : chunks = Chunks(packages)
    OBVIOUS
  <2>2. Cut(chunks, P, packages)
    BY <1>0, <1>2, <2>1, ChunksHaveAll
  <2>3. PICK count \in Nat : DOMAIN chunks = 1 .. count
    BY <2>2 DEF Cut
  <2>4. PICK results : results = [c \in 1 .. count |-> MatchThreats(chunks[c], rules, allowlist)]
    OBVIOUS
  <2>5. matches = Merge(results)
    BY <1>2, <2>1, <2>3, <2>4 DEF MatchThreatsParallel
  <2>6. ASSUME NEW c \in 1 .. count
        PROVE  /\ results[c] \in Seq([item : R, matching : Seq(P)])
               /\ \A n \in DOMAIN results[c] : Found(results[c][n], rules, chunks[c], allowlist)
               /\ \A i \in DOMAIN rules, j \in DOMAIN chunks[c] :
                     Hits(rules[i], chunks[c][j], allowlist)
                         => \E n \in DOMAIN results[c] : results[c][n].item = rules[i]
    <3>1. PICK chunk : chunk = chunks[c] /\ chunk \in Seq(P)
      BY <2>2, <2>3 DEF Cut
    <3>2. PICK found : found = MatchThreats(chunk, rules, allowlist)
      OBVIOUS
    <3>3. results[c] = found
      BY <2>4, <3>1, <3>2
    <3>4. AllFound(found, P, chunk, R, rules, allowlist)
      BY <3>1, <3>2, ThreatsMatched
    <3> QED
      BY <3>1, <3>3, <3>4 DEF AllFound
  <2>7. /\ \A m \in matches :
              \E c \in 1 .. count : \E n \in DOMAIN results[c] : m = results[c][n]
        /\ \A c \in 1 .. count : \A n \in DOMAIN results[c] :
              \E m \in matches : m.item.package = results[c][n].item.package
    <3>1. DOMAIN results = 1 .. count
      BY <2>4
    <3>2. PICK T : T = [item : R, matching : Seq(P)]
      OBVIOUS
    <3>3. \A c \in 1 .. count : results[c] \in Seq(T)
      BY <2>6, <3>2
    <3>4. Merged(matches, results)
      BY <2>5, <3>1, <3>3, MergeKeeps
    <3> QED
      BY <3>1, <3>4 DEF Merged
  <2>8. ASSUME NEW m \in matches PROVE Found(m, rules, packages, allowlist)
    <3>1. PICK c \in 1 .. count : \E n \in DOMAIN results[c] : m = results[c][n]
      BY <2>7
    <3>2. Found(m, rules, chunks[c], allowlist)
      BY <2>6, <3>1
    <3>3. PICK i \in DOMAIN rules, k \in DOMAIN chunks[c] :
              /\ Hits(rules[i], chunks[c][k], allowlist)
              /\ m.item = rules[i] /\ m.matching # <<>> /\ Head(m.matching) = chunks[c][k]
      BY <3>2 DEF Found
    <3>4. PICK j \in DOMAIN packages : chunks[c][k] = packages[j]
      BY <2>2, <2>3 DEF Cut
    <3> QED
      BY <3>3, <3>4 DEF Found
  <2>9. ASSUME NEW i \in DOMAIN rules, NEW j \in DOMAIN packages,
               Hits(rules[i], packages[j], allowlist)
        PROVE  \E m \in matches : m.item.package = rules[i].package
    <3>1. PICK c \in 1 .. count : \E k \in DOMAIN chunks[c] : chunks[c][k] = packages[j]
      BY <2>2, <2>3 DEF Cut
    <3>2. PICK k \in DOMAIN chunks[c] : chunks[c][k] = packages[j]
      BY <3>1
    <3>3. PICK n \in DOMAIN results[c] : results[c][n].item = rules[i]
      BY <2>6, <2>9, <3>2
    <3> QED
      BY <2>7, <3>3
  <2> QED
    BY <1>2, <2>8, <2>9
<1> QED
  BY <1>1, <1>2

-----------------------------------------------------------------------------
(* Severity, policy documents and the dry run                              *)

\* No override that matches ignores the advisory, unless one before it matches.
Kept(overrides, a) ==
    \A j \in Matching(overrides, a) :
        overrides[j].action = "ignore" => \E i \in Matching(overrides, a) : i < j

LEMMA FirstMatchWins ==
    ASSUME NEW O, NEW overrides \in Seq(O), NEW a
    PROVE  Kept(overrides, a)
              <=> Matching(overrides, a) = {} \/ Winner(overrides, a).action # "ignore"
<1> DEFINE matching == Matching(overrides, a)
<1>1. CASE matching = {}
  BY <1>1 DEF Kept
<1>2. CASE matching # {}
  <2>1. DOMAIN overrides = 1 .. Len(overrides) /\ Len(overrides) \in Nat
    OBVIOUS
  <2>2. matching \subseteq 1 .. Len(overrides)
    BY <2>1 DEF Matching
  <2> HIDE DEF matching
  <2>3. IsFiniteSet(matching) /\ matching \subseteq Int
    <3>1. IsFiniteSet(1 .. Len(overrides))
      BY <2>1, FS_Interval
    <3>2. IsFiniteSet(matching)
      BY <2>2, <3>1, FS_Subset
    <3> QED
      BY <2>2, <3>2
  <2>4. \E j \in matching : \A i \in matching : j <= i
    BY <1>2, <2>3, LeastPosition
  <2>5. PICK w \in matching : w = (CHOOSE j \in matching : \A i \in matching : j <= i)
                              /\ \A i \in matching : w <= i
    BY <2>4
  <2>6. Winner(overrides, a) = overrides[w]
    BY <2>5 DEF Winner, matching
  <2>7. ASSUME NEW i \in matching PROVE ~(i < w) /\ (i # w => w < i)
    <3>1. i \in Int /\ w \in Int /\ w <= i
      BY <2>3, <2>5
    <3> QED
      BY <3>1
  <2>8. Kept(overrides, a) <=> overrides[w].action # "ignore"
    BY <2>5, <2>7 DEF Kept, matching
  <2> QED
    BY <1>2, <2>6, <2>8 DEF matching
<1> QED
  BY <1>1, <1>2

\* b speaks of the package and the version of a.
SameSubject(a, b) == a.package = b.package /\ a.version = b.version

LEMMA LevelledKeepsSubject ==
    ASSUME NEW a, DOMAIN a = {"level", "package", "version", "categories"}, NEW rule
    PROVE  /\ SameSubject(Levelled(a, rule), a)
           /\ DOMAIN Levelled(a, rule) = {"level", "package", "version", "categories"}
           /\ SameSubject([a EXCEPT !.level = "warn"], a)
<1>1. ASSUME NEW level
      PROVE  /\ SameSubject([a EXCEPT !.level = level], a)
             /\ DOMAIN [a EXCEPT !.level = level] = {"level", "package", "version", "categories"}
  BY DEF SameSubject
<1> QED
  BY <1>1 DEF Levelled, SameSubject

\* A match of the package and the version, that the policy gives a level and
\* that the override that wins does not ignore.
Reported(by, matches, name, version) ==
    \E m \in matches :
        /\ m.item.package = name /\ Head(m.matching).version = version
        /\ Categorize(m.item, by.policy) # "none"
        /\ Kept(by.overrides, Advisory(m, Categorize(m.item, by.policy)))

\* An advisory on the package and the version.
Advised(advisories, name, version) ==
    \E a \in advisories : a.package = name /\ a.version = version

(* A scan has an advisory on a package and a version exactly when such a   *)
(* match is found, dry run or not.                                         *)
LEMMA ScanReports ==
    ASSUME NEW packages, NEW says, NEW by, NEW O, by.overrides \in Seq(O),
           NEW name, NEW version,
           NEW matches, matches = MatchThreatsParallel(packages, says.rules, says.allowlist)
    PROVE  Advised(Scan(by, packages, says), name, version)
              <=> Reported(by, matches, name, version)
<1> DEFINE level(m) == Categorize(m.item, by.policy)
           subject(a) == a.package = name /\ a.version = version
<1>1. PICK overrides \in Seq(O) : overrides = by.overrides
  OBVIOUS
<1>2. PICK advisories : advisories = Advisories(matches, by.policy)
  OBVIOUS
<1>3. PICK applied : applied = ApplyPolicy(advisories, overrides)
  OBVIOUS
<1>4. PICK result : result = Scan(by, packages, says)
  OBVIOUS
<1>5. advisories = {Advisory(m, level(m)) : m \in {n \in matches : level(n) # "none"}}
  BY <1>2 DEF Advisories
<1>6. result = IF ~by.dryRun THEN applied ELSE {[a EXCEPT !.level = "warn"] : a \in applied}
  BY <1>1, <1>2, <1>3, <1>4 DEF Scan, ApplyDryRun
<1>7. ASSUME NEW m PROVE /\ DOMAIN Advisory(m, level(m)) = {"level", "package", "version", "categories"}
                         /\ subject(Advisory(m, level(m)))
                               <=> m.item.package = name /\ Head(m.matching).version = version
  BY DEF Advisory
<1>8. \A a \in advisories : DOMAIN a = {"level", "package", "version", "categories"}
  BY <1>5, <1>7
<1>9. applied = {IF Matching(overrides, a) = {} THEN a ELSE Levelled(a, Winner(overrides, a)) :
                    a \in {b \in advisories : Kept(overrides, b)}}
  BY <1>3, FirstMatchWins DEF ApplyPolicy
<1>10. ASSUME NEW a \in advisories, NEW b,
              b = IF Matching(overrides, a) = {} THEN a ELSE Levelled(a, Winner(overrides, a))
       PROVE  /\ DOMAIN b = {"level", "package", "version", "categories"} /\ SameSubject(a, b)
  BY <1>8, <1>10, LevelledKeepsSubject DEF SameSubject
<1>11. \A b \in applied : /\ DOMAIN b = {"level", "package", "version", "categories"}
                          /\ \E a \in advisories : Kept(overrides, a) /\ SameSubject(a, b)
  BY <1>9, <1>10
<1>12. \A a \in advisories : Kept(overrides, a) => \E b \in applied : SameSubject(a, b)
  BY <1>9, <1>10
<1>13. (\E a \in result : subject(a)) <=> \E b \in applied : subject(b)
  <2>1. CASE ~by.dryRun
    BY <1>6, <2>1
  <2>2. CASE by.dryRun
    <3>1. \A b \in applied : SameSubject([b EXCEPT !.level = "warn"], b)
      BY <1>11, LevelledKeepsSubject
    <3>2. \A b \in applied : [b EXCEPT !.level = "warn"] \in result
      BY <1>6, <2>2
    <3>3. \A a \in result : \E b \in applied : a = [b EXCEPT !.level = "warn"]
      BY <1>6, <2>2
    <3>4. ASSUME NEW b \in applied, NEW c, c = [b EXCEPT !.level = "warn"]
          PROVE  subject(c) <=> subject(b)
      <4>1. SameSubject(c, b)
        BY <3>1, <3>4
      <4> QED
        BY <4>1 DEF SameSubject
    <3> HIDE DEF subject
    <3>5. ASSUME NEW a \in result, subject(a) PROVE \E b \in applied : subject(b)
      BY <3>3, <3>4, <3>5
    <3>6. ASSUME NEW b \in applied, subject(b) PROVE \E a \in result : subject(a)
      BY <3>2, <3>4, <3>6
    <3> QED
      BY <3>5, <3>6
  <2> QED
    BY <2>1, <2>2
<1>14. (\E b \in applied : subject(b)) <=> \E a \in advisories : Kept(overrides, a) /\ subject(a)
  BY <1>11, <1>12 DEF SameSubject
<1>15. (\E a \in advisories : Kept(overrides, a) /\ subject(a))
          <=> \E m \in matches : /\ level(m) # "none" /\ Kept(overrides, Advisory(m, level(m)))
                                 /\ subject(Advisory(m, level(m)))
  BY <1>5
<1> QED
  <2>1. (\E a \in result : subject(a))
          <=> \E m \in matches : /\ level(m) # "none" /\ Kept(overrides, Advisory(m, level(m)))
                                 /\ m.item.package = name /\ Head(m.matching).version = version
    BY <1>7, <1>13, <1>14, <1>15
  <2> QED
    BY <1>1, <1>4, <2>1 DEF Reported, Advised
=============================================================================
