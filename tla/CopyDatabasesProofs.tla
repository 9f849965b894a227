------------------------ MODULE CopyDatabasesProofs -------------------------
(***************************************************************************)
(* Theorems about CopyDatabases, for any finite sets of hashes and sources *)
(* and any databases: what each command copies, that it describes what it  *)
(* copies, that the progress reaches its total, and that nothing which the *)
(* destination had is touched, however often the command is killed.        *)
(***************************************************************************)
EXTENDS CopyDatabases, FiniteSetTheorems, NaturalsInduction,
        WellFoundedInduction, SequenceTheorems, TLAPS

(***************************************************************************)
(* Least elements and sums.                                                *)
(***************************************************************************)

(* A set of natural numbers that is not empty has a least element.         *)
LEMMA LeastElement ==
    ASSUME NEW B \in SUBSET Nat, B # {}
    PROVE  \E k \in B : \A j \in B : k <= j
<1>1. PICK k \in B : \A j \in B : ~ (<<j, k>> \in OpToRel(<, Nat))
  BY NatLessThanWellFounded, WFMin
<1>2. \A j \in B : ~ (j < k)
  BY <1>1 DEF OpToRel
<1> QED  BY <1>2

(* Min is the least element.                                               *)
LEMMA MinForm ==
    ASSUME NEW B \in SUBSET Nat, B # {}
    PROVE  Min(B) \in B /\ \A j \in B : Min(B) <= j
BY LeastElement DEF Min

(* The sum of c over each subset of T, as the folds of the community       *)
(* modules compute it.                                                     *)
Pick(S) == CHOOSE x \in S : TRUE

Sums(c, T) ==
    CHOOSE f : f = [S \in SUBSET T |->
                       IF S = {} THEN 0
                       ELSE c[Pick(S)] + f[S \ {Pick(S)}]]

SumsUpTo(f, c, D) ==
    \A S \in D : f[S] = IF S = {} THEN 0
                        ELSE c[Pick(S)] + f[S \ {Pick(S)}]

(* SumFunction is one of these sums.                                       *)
LEMMA SumForm ==
    ASSUME NEW T, NEW c \in [T -> Nat]
    PROVE  SumFunction(c) = Sums(c, T)[T]
<1>1. SumFunction(c) = Sums(c, DOMAIN c)[DOMAIN c]
  BY Zenon DEF SumFunction, SumFunctionOnSet, FoldFunctionOnSet,
               MapThenFoldSet, Sums, Pick
<1>2. DOMAIN c = T
  OBVIOUS
<1> QED  BY <1>1, <1>2

(* There is such a function: it is built up from the smaller sets.         *)
LEMMA SumsForm ==
    ASSUME NEW T, IsFiniteSet(T), NEW c \in [T -> Nat]
    PROVE  /\ Sums(c, T) \in [SUBSET T -> Nat]
           /\ SumsUpTo(Sums(c, T), c, SUBSET T)
<1> DEFINE Small(k) == {S \in SUBSET T : Cardinality(S) <= k}
           Good(k) == \E f \in [Small(k) -> Nat] : SumsUpTo(f, c, Small(k))
           Bad == {k \in Nat : ~Good(k)}
<1>1. \A S \in SUBSET T : IsFiniteSet(S) /\ Cardinality(S) \in Nat
  BY FS_Subset, FS_CardinalityType
<1>2. \A S \in SUBSET T : S # {} =>
         /\ Pick(S) \in S /\ S \ {Pick(S)} \in SUBSET T
         /\ Cardinality(S \ {Pick(S)}) = Cardinality(S) - 1
         /\ Cardinality(S) # 0
  <2> SUFFICES ASSUME NEW S \in SUBSET T, S # {}
               PROVE  /\ Pick(S) \in S
                      /\ Cardinality(S \ {Pick(S)}) = Cardinality(S) - 1
                      /\ Cardinality(S) # 0
    OBVIOUS
  <2>1. Pick(S) \in S
    BY DEF Pick
  <2> QED  BY <1>1, <2>1, FS_RemoveElement, FS_EmptySet
<1>3. Bad = {}
  <2> SUFFICES ASSUME Bad # {} PROVE FALSE
    OBVIOUS
  <2>1. PICK k \in Bad : \A j \in Bad : k <= j
    BY LeastElement
  <2>2. CASE k = 0
    <3>1. Small(0) = {{}}
      <4>1. \A S \in Small(0) : S = {}
        BY <1>1, FS_EmptySet
      <4>2. {} \in Small(0)
        BY FS_EmptySet
      <4> QED  BY <4>1, <4>2
    <3> DEFINE f == [S \in Small(0) |-> 0]
    <3>2. f \in [Small(0) -> Nat] /\ SumsUpTo(f, c, Small(0))
      BY <3>1 DEF SumsUpTo
    <3> QED  BY <2>1, <2>2, <3>2
  <2>3. CASE k # 0
    <3>1. k \in Nat /\ k - 1 \in Nat /\ k - 1 \notin Bad
      <4> HIDE DEF Bad
      <4>1. Bad \subseteq Nat
        BY DEF Bad
      <4> QED  BY <2>1, <2>3, <4>1
    <3>2. PICK f \in [Small(k - 1) -> Nat] : SumsUpTo(f, c, Small(k - 1))
      BY <3>1
    <3> DEFINE g == [S \in Small(k) |->
                        IF S = {} THEN 0
                        ELSE c[Pick(S)] + f[S \ {Pick(S)}]]
    <3>3. \A S \in Small(k) : S # {} => S \ {Pick(S)} \in Small(k - 1)
      BY <1>1, <1>2, <3>1
    <3>4. g \in [Small(k) -> Nat]
      BY <1>2, <3>2, <3>3
    <3>5. Small(k - 1) \subseteq Small(k)
      BY <1>1, <3>1
    <3>6. \A S \in Small(k - 1) : g[S] = f[S]
      BY <3>2, <3>5 DEF SumsUpTo
    <3>7. SumsUpTo(g, c, Small(k))
      BY <3>3, <3>5, <3>6 DEF SumsUpTo
    <3> QED  BY <2>1, <3>1, <3>4, <3>7
  <2> QED  BY <2>2, <2>3
<1>4. Cardinality(T) \in Nat /\ Small(Cardinality(T)) = SUBSET T
  BY FS_Subset, FS_CardinalityType
<1>5. PICK f \in [SUBSET T -> Nat] : SumsUpTo(f, c, SUBSET T)
  <2>1. Good(Cardinality(T))
    BY <1>3, <1>4
  <2> QED  BY <1>4, <2>1
<1>6. f = [S \in SUBSET T |-> IF S = {} THEN 0
                              ELSE c[Pick(S)] + f[S \ {Pick(S)}]]
  BY <1>5 DEF SumsUpTo
<1>7. Sums(c, T) = [S \in SUBSET T |->
                       IF S = {} THEN 0
                       ELSE c[Pick(S)] + Sums(c, T)[S \ {Pick(S)}]]
  BY <1>6, Zenon DEF Sums
<1> QED
  <2> DEFINE s == Sums(c, T)
  <2> HIDE DEF s
  <2>1. \A S \in SUBSET T : s[S] = IF S = {} THEN 0
                                   ELSE c[Pick(S)] + s[S \ {Pick(S)}]
    BY <1>7 DEF s
  <2> DEFINE Odd == {k \in Nat : \E S \in SUBSET T :
                                    Cardinality(S) = k /\ s[S] \notin Nat}
  <2>2. Odd = {}
    <3> SUFFICES ASSUME Odd # {} PROVE FALSE
      OBVIOUS
    <3>1. PICK k \in Odd : \A j \in Odd : k <= j
      BY LeastElement
    <3>2. PICK S \in SUBSET T : Cardinality(S) = k /\ s[S] \notin Nat
      BY <3>1
    <3>3. S # {}
      <4>1. CASE S = {}
        <5>1. s[S] = 0
          BY <2>1, <4>1
        <5> QED  BY <3>2, <5>1
      <4> QED  BY <4>1
    <3>4. Pick(S) \in S /\ c[Pick(S)] \in Nat
      BY <1>2, <3>3
    <3>5. s[S \ {Pick(S)}] \notin Nat
      <4>1. s[S] = c[Pick(S)] + s[S \ {Pick(S)}]
        BY <2>1, <3>3
      <4>2. PICK a, b : a = c[Pick(S)] /\ b = s[S \ {Pick(S)}]
        OBVIOUS
      <4>3. b \in Nat => a + b \in Nat
        BY <3>4, <4>2
      <4> QED  BY <3>2, <4>1, <4>2, <4>3
    <3>6. Cardinality(S \ {Pick(S)}) = k - 1 /\ k \in Nat /\ k - 1 \in Nat
      <4>1. Cardinality(S \ {Pick(S)}) = Cardinality(S) - 1
            /\ Cardinality(S) \in Nat /\ Cardinality(S) # 0
        BY <1>1, <1>2, <3>3
      <4> QED  BY <3>2, <4>1
    <3>7. k - 1 \in Odd
      BY <1>2, <3>3, <3>5, <3>6
    <3>8. k <= k - 1
      BY <3>1, <3>7
    <3> QED  BY <3>6, <3>8
  <2>3. \A S \in SUBSET T : s[S] \in Nat
    BY <1>1, <2>2
  <2>4. s = [S \in SUBSET T |-> s[S]]
    <3>1. \E F \in {[S \in SUBSET T |->
                         IF S = {} THEN 0
                         ELSE c[Pick(S)] + s[S \ {Pick(S)}]]} : s = F
      BY <1>7 DEF s
    <3> QED  BY <3>1
  <2>5. s \in [SUBSET T -> Nat]
    BY <2>3, <2>4
  <2>6. SumsUpTo(s, c, SUBSET T)
    BY <2>1 DEF SumsUpTo
  <2> QED  BY <2>5, <2>6 DEF s

(* Any element can be taken out of a sum.                                  *)
LEMMA SumsRemove ==
    ASSUME NEW T, IsFiniteSet(T), NEW c \in [T -> Nat],
           NEW U \in SUBSET T, NEW y \in U
    PROVE  Sums(c, T)[U] = c[y] + Sums(c, T)[U \ {y}]
<1> DEFINE s == Sums(c, T)
           Off(S, x) == s[S] # c[x] + s[S \ {x}]
           Bad == {k \in Nat : \E S \in SUBSET T :
                      Cardinality(S) = k /\ \E x \in S : Off(S, x)}
<1>1. \A S \in SUBSET T : IsFiniteSet(S) /\ Cardinality(S) \in Nat
  BY FS_Subset, FS_CardinalityType
<1>2. s \in [SUBSET T -> Nat] /\ SumsUpTo(s, c, SUBSET T)
  BY SumsForm
<1> HIDE DEF s
<1>3. Bad = {}
  <2> SUFFICES ASSUME Bad # {} PROVE FALSE
    OBVIOUS
  <2>1. PICK k \in Bad : \A j \in Bad : k <= j
    BY LeastElement
  <2>2. PICK S \in SUBSET T : Cardinality(S) = k /\ \E x \in S : Off(S, x)
    BY <2>1
  <2>3. PICK x \in S : Off(S, x)
    BY <2>2
  <2> DEFINE z == Pick(S)
  <2>4. z \in S /\ s[S] = c[z] + s[S \ {z}]
    BY <1>2, <2>3 DEF SumsUpTo, Pick
  <2> HIDE DEF z
  <2>5. z # x
    BY <2>3, <2>4
  <2>6. \A w \in S : Cardinality(S \ {w}) = k - 1
    BY <1>1, <2>2, FS_RemoveElement
  <2>7. k \in Nat /\ k - 1 \in Nat
    BY <1>1, <2>2, <2>4, <2>6
  <2>8. \A w \in S : \A v \in S \ {w} : ~Off(S \ {w}, v)
    <3> SUFFICES ASSUME NEW w \in S, NEW v \in S \ {w}, Off(S \ {w}, v)
                 PROVE  FALSE
      OBVIOUS
    <3>1. k - 1 \in Bad
      BY <2>6, <2>7
    <3>2. k <= k - 1
      BY <2>1, <3>1
    <3> QED  BY <2>7, <3>2
  <2>9. s[S \ {z}] = c[x] + s[(S \ {z}) \ {x}]
    BY <2>4, <2>5, <2>8
  <2>10. s[S \ {x}] = c[z] + s[(S \ {x}) \ {z}]
    BY <2>4, <2>5, <2>8
  <2>11. (S \ {x}) \ {z} = (S \ {z}) \ {x}
    OBVIOUS
  <2>12. PICK a, b, r : a = c[x] /\ b = c[z] /\ r = s[(S \ {z}) \ {x}]
    OBVIOUS
  <2>13. a \in Nat /\ b \in Nat /\ r \in Nat
    BY <1>2, <2>4, <2>12
  <2>14. s[S] = b + (a + r) /\ s[S \ {x}] = b + r
    BY <2>4, <2>9, <2>10, <2>11, <2>12
  <2>15. b + (a + r) = a + (b + r)
    BY <2>13
  <2> QED  BY <2>3, <2>12, <2>14, <2>15
<1>4. ~Off(U, y)
  BY <1>1, <1>3
<1> QED  BY <1>4 DEF s

(* A sum of nothing but zeros, and only that, is zero.                     *)
LEMMA SumsZero ==
    ASSUME NEW T, IsFiniteSet(T), NEW c \in [T -> Nat],
           NEW U \in SUBSET T
    PROVE  Sums(c, T)[U] = 0 <=> \A x \in U : c[x] = 0
<1> DEFINE s == Sums(c, T)
           Bad == {k \in Nat : \E S \in SUBSET T :
                      /\ Cardinality(S) = k
                      /\ (\A x \in S : c[x] = 0) /\ s[S] # 0}
<1>1. \A S \in SUBSET T : IsFiniteSet(S) /\ Cardinality(S) \in Nat
  BY FS_Subset, FS_CardinalityType
<1>2. s \in [SUBSET T -> Nat] /\ SumsUpTo(s, c, SUBSET T)
  BY SumsForm
<1>3. \A S \in SUBSET T : \A x \in S : s[S] = c[x] + s[S \ {x}]
  BY SumsRemove
<1> HIDE DEF s
<1>4. Bad = {}
  <2> SUFFICES ASSUME Bad # {} PROVE FALSE
    OBVIOUS
  <2>1. PICK k \in Bad : \A j \in Bad : k <= j
    BY LeastElement
  <2>2. PICK S \in SUBSET T : /\ Cardinality(S) = k
                             /\ (\A x \in S : c[x] = 0) /\ s[S] # 0
    BY <2>1
  <2>3. S # {}
    BY <1>2, <2>2 DEF SumsUpTo
  <2>4. PICK x \in S : TRUE
    BY <2>3
  <2>5. s[S] = s[S \ {x}]
    BY <1>2, <1>3, <2>2
  <2>6. Cardinality(S \ {x}) = k - 1 /\ k \in Nat /\ k - 1 \in Nat
    BY <1>1, <2>2, FS_RemoveElement
  <2>7. k - 1 \in Bad
    BY <2>2, <2>5, <2>6
  <2>8. k <= k - 1
    BY <2>1, <2>7
  <2> QED  BY <2>6, <2>8
<1>5. (\A x \in U : c[x] = 0) => s[U] = 0
  BY <1>1, <1>4
<1>6. ASSUME s[U] = 0, NEW x \in U PROVE c[x] = 0
  <2>1. s[U] = c[x] + s[U \ {x}]
    BY <1>3
  <2>2. c[x] \in Nat /\ s[U \ {x}] \in Nat
    BY <1>2
  <2> QED  BY <1>6, <2>1, <2>2
<1> QED  BY <1>5, <1>6 DEF s

(* What is zero may be left out of a sum.                                  *)
LEMMA SumsOnly ==
    ASSUME NEW T, IsFiniteSet(T), NEW c \in [T -> Nat],
           NEW U \in SUBSET T, \A x \in T \ U : c[x] = 0
    PROVE  Sums(c, T)[T] = Sums(c, T)[U]
<1> DEFINE s == Sums(c, T)
           Bad == {k \in Nat : \E S \in SUBSET T :
                      Cardinality(S) = k /\ U \subseteq S /\ s[S] # s[U]}
<1>1. \A S \in SUBSET T : IsFiniteSet(S) /\ Cardinality(S) \in Nat
  BY FS_Subset, FS_CardinalityType
<1>2. s \in [SUBSET T -> Nat]
  BY SumsForm
<1>3. \A S \in SUBSET T : \A x \in S : s[S] = c[x] + s[S \ {x}]
  BY SumsRemove
<1> HIDE DEF s
<1>4. Bad = {}
  <2> SUFFICES ASSUME Bad # {} PROVE FALSE
    OBVIOUS
  <2>1. PICK k \in Bad : \A j \in Bad : k <= j
    BY LeastElement
  <2>2. PICK S \in SUBSET T :
           Cardinality(S) = k /\ U \subseteq S /\ s[S] # s[U]
    BY <2>1
  <2>3. PICK x \in S \ U : TRUE
    BY <2>2
  <2>4. s[S] = s[S \ {x}]
    BY <1>2, <1>3, <2>2
  <2>5. Cardinality(S \ {x}) = k - 1 /\ k \in Nat /\ k - 1 \in Nat
    <3>1. IsFiniteSet(S) /\ x \in S /\ S \ {x} \in SUBSET T
      BY <1>1, <2>2, <2>3
    <3>2. Cardinality(S \ {x}) = Cardinality(S) - 1
      BY <3>1, FS_RemoveElement
    <3> QED  BY <1>1, <2>2, <3>1, <3>2
  <2>6. k - 1 \in Bad
    BY <2>2, <2>3, <2>4, <2>5
  <2>7. k <= k - 1
    BY <2>1, <2>6
  <2> QED  BY <2>5, <2>7
<1>5. s[T] = s[U]
  BY <1>1, <1>4
<1> QED  BY <1>5 DEF s

(***************************************************************************)
(* What is read from a database.                                           *)
(***************************************************************************)

(* The count of a hash is zero if it has no source, and only then.         *)
LEMMA CountForm ==
    ASSUME NEW d, IsDatabase(d), NEW h \in Hash
    PROVE  /\ find_hash_count(d, h) \in Nat
           /\ find_hash_count(d, h) = 0 <=>
                 \A s \in Source : d.count[h][s] = 0
<1>1. d.count[h] \in [Source -> Nat] /\ IsFiniteSet(Source)
  BY CopyAssumption DEF IsDatabase
<1>2. find_hash_count(d, h) = Sums(d.count[h], Source)[Source]
  BY <1>1, SumForm DEF find_hash_count
<1>3. Sums(d.count[h], Source) \in [SUBSET Source -> Nat]
  BY <1>1, SumsForm
<1>4. Sums(d.count[h], Source)[Source] = 0 <=>
         \A s \in Source : d.count[h][s] = 0
  BY <1>1, SumsZero
<1> QED  BY <1>2, <1>3, <1>4

(* The records of the hash data store for each hash.                       *)
RecordsOf(d) ==
    [h \in Hash |-> LET k == Cardinality(sources(d, h))
                    IN  IF k > 1 THEN k + 1 ELSE k]

(* The size of a hash data store is the sum of its records.                *)
LEMMA SizeForm ==
    ASSUME NEW d, RecordsOf(d) \in [Hash -> Nat]
    PROVE  size_hashes(d) = Sums(RecordsOf(d), Hash)[Hash]
BY SumForm DEF size_hashes, RecordsOf

(* What the tracker reckons for a hash is what the store has for it.       *)
LEMMA RecordsForm ==
    ASSUME NEW d, IsDatabase(d)
    PROVE  /\ RecordsOf(d) \in [Hash -> Nat]
           /\ \A h \in Hashes(d) :
                 track_hash_data(Cardinality(sources(d, h))) = RecordsOf(d)[h]
           /\ \A h \in Hash \ Hashes(d) : RecordsOf(d)[h] = 0
<1> DEFINE k(h) == Cardinality(sources(d, h))
<1>1. \A h \in Hash : k(h) \in Nat /\ (k(h) = 0 <=> sources(d, h) = {})
  <2> SUFFICES ASSUME NEW h \in Hash
               PROVE  k(h) \in Nat /\ (k(h) = 0 <=> sources(d, h) = {})
    OBVIOUS
  <2>1. sources(d, h) \in SUBSET Source
    BY DEF sources
  <2>2. IsFiniteSet(sources(d, h))
    BY <2>1, CopyAssumption, FS_Subset
  <2> QED  BY <2>2, FS_CardinalityType, FS_EmptySet
<1>2. \A h \in Hash : RecordsOf(d)[h] = IF k(h) > 1 THEN k(h) + 1 ELSE k(h)
  BY DEF RecordsOf
<1>3. \A h \in Hash : h \in Hashes(d) <=> k(h) # 0
  BY <1>1 DEF Hashes
<1>4. \A h \in Hashes(d) : h \in Hash
  BY DEF Hashes
<1> HIDE DEF k
<1>5. RecordsOf(d) \in [Hash -> Nat]
  <2>1. RecordsOf(d) = [h \in Hash |-> RecordsOf(d)[h]]
    BY DEF RecordsOf
  <2>2. \A h \in Hash : RecordsOf(d)[h] \in Nat
    BY <1>1, <1>2
  <2> QED  BY <2>1, <2>2
<1>6. \A h \in Hashes(d) : track_hash_data(k(h)) = RecordsOf(d)[h]
  BY <1>1, <1>2, <1>3, <1>4 DEF track_hash_data
<1>7. \A h \in Hash \ Hashes(d) : RecordsOf(d)[h] = 0
  BY <1>1, <1>2, <1>3
<1> QED  BY <1>5, <1>6, <1>7 DEF k

(* The walk over the keys goes to the next hash there is.                  *)
LEMMA FirstForm ==
    ASSUME NEW d
    PROVE  /\ first_hash(d) = 0 => Hashes(d) = {}
           /\ first_hash(d) # 0 =>
                 /\ first_hash(d) \in Hashes(d)
                 /\ \A k \in Hashes(d) : first_hash(d) <= k
<1>1. Hashes(d) \in SUBSET Nat /\ 0 \notin Hashes(d)
  BY CopyAssumption DEF Hashes
<1> QED  BY <1>1, MinForm DEF first_hash

(* The hash after another one is the least of those that are greater.      *)
LEMMA NextForm ==
    ASSUME NEW d, NEW h
    PROVE  /\ next_hash(d, h) = 0 => \A k \in Hashes(d) : ~ (k > h)
           /\ next_hash(d, h) # 0 =>
                 /\ next_hash(d, h) \in Hashes(d) /\ next_hash(d, h) > h
                 /\ \A k \in Hashes(d) : k > h => next_hash(d, h) <= k
<1> DEFINE later == {k \in Hashes(d) : k > h}
<1>1. later \in SUBSET Nat /\ 0 \notin later
  BY CopyAssumption DEF Hashes
<1>2. next_hash(d, h) = IF later = {} THEN 0 ELSE Min(later)
  BY DEF next_hash
<1>3. later # {} => Min(later) \in later /\ \A k \in later : Min(later) <= k
  BY <1>1, MinForm
<1> QED  BY <1>1, <1>2, <1>3

(***************************************************************************)
(* The multimap of producers.                                              *)
(***************************************************************************)
Entry == Hash \X {"a", "b"}

Entries(q) == {q[i] : i \in 1 .. Len(q)}

(* Each producer has one entry.                                            *)
Lone(q) == \A i, j \in 1 .. Len(q) : q[i][2] = q[j][2] => i = j

(* An entry is put between others, and they stay.                          *)
LEMMA InsertForm ==
    ASSUME NEW q \in Seq(Entry), NEW e \in Entry, NEW k \in 1 .. Len(q) + 1
    PROVE  /\ InsertAt(q, k, e) \in Seq(Entry)
           /\ Len(InsertAt(q, k, e)) = Len(q) + 1
           /\ \A i \in 1 .. Len(q) + 1 :
                 InsertAt(q, k, e)[i] = IF i < k THEN q[i]
                                        ELSE IF i = k THEN e ELSE q[i - 1]
<1> DEFINE l == SubSeq(q, 1, k - 1)
           r == SubSeq(q, k, Len(q))
<1>1. /\ l \in Seq(Entry) /\ Len(l) = k - 1
      /\ \A i \in 1 .. k - 1 : l[i] = q[i]
  BY SubSeqProperties
<1>2. /\ r \in Seq(Entry) /\ Len(r) = Len(q) - k + 1
      /\ \A i \in 1 .. Len(q) - k + 1 : r[i] = q[k + i - 1]
  BY SubSeqProperties
<1>3. InsertAt(q, k, e) = l \o <<e>> \o r
  BY DEF InsertAt
<1> HIDE DEF l, r
<1>4. <<e>> \in Seq(Entry) /\ Len(<<e>>) = 1 /\ <<e>>[1] = e
  OBVIOUS
<1>5. /\ l \o <<e>> \in Seq(Entry) /\ Len(l \o <<e>>) = k
      /\ \A i \in 1 .. k : (l \o <<e>>)[i] = IF i < k THEN q[i] ELSE e
  BY <1>1, <1>4
<1> DEFINE m_ == l \o <<e>>
<1> HIDE DEF m_
<1>6. /\ m_ \in Seq(Entry) /\ Len(m_) = k
      /\ \A i \in 1 .. k : m_[i] = IF i < k THEN q[i] ELSE e
  BY <1>5 DEF m_
<1>7. /\ m_ \o r \in Seq(Entry) /\ Len(m_ \o r) = Len(q) + 1
      /\ \A i \in 1 .. Len(q) + 1 :
            (m_ \o r)[i] = IF i <= k THEN m_[i] ELSE r[i - k]
  <2>1. /\ m_ \o r \in Seq(Entry) /\ Len(m_ \o r) = Len(m_) + Len(r)
        /\ \A i \in 1 .. Len(m_) + Len(r) :
              (m_ \o r)[i] = IF i <= Len(m_) THEN m_[i] ELSE r[i - Len(m_)]
    BY <1>2, <1>6, ConcatProperties
  <2>2. Len(m_) + Len(r) = Len(q) + 1 /\ Len(q) \in Nat
    BY <1>2, <1>6
  <2> QED  BY <1>6, <2>1, <2>2
<1>8. \A i \in 1 .. Len(q) + 1 :
         (m_ \o r)[i] = IF i < k THEN q[i] ELSE IF i = k THEN e ELSE q[i - 1]
  BY <1>2, <1>6, <1>7
<1>9. InsertAt(q, k, e) = m_ \o r
  BY <1>3 DEF m_
<1> QED  BY <1>7, <1>8, <1>9

(* A producer that has no entry gets one.                                  *)
LEMMA EnqueueForm ==
    ASSUME NEW q \in Seq(Entry), NEW e \in Entry, Lone(q),
           \A f \in Entries(q) : f[2] # e[2]
    PROVE  /\ Enqueue(q, e) \in Seq(Entry) /\ Enqueue(q, e) # <<>>
           /\ Entries(Enqueue(q, e)) = Entries(q) \cup {e}
           /\ Lone(Enqueue(q, e))
<1> DEFINE B == {i \in 1 .. Len(q) : q[i][1] <= e[1]}
           k == Cardinality(B) + 1
           new == Enqueue(q, e)
<1>1. Len(q) \in Nat
  OBVIOUS
<1>2. k \in 1 .. Len(q) + 1
  <2>1. IsFiniteSet(1 .. Len(q)) /\ Cardinality(1 .. Len(q)) = Len(q)
    <3>1. 1 \in Int /\ Len(q) \in Int
      BY <1>1
    <3>2. /\ IsFiniteSet(1 .. Len(q))
          /\ Cardinality(1 .. Len(q)) =
                IF 1 > Len(q) THEN 0 ELSE Len(q) - 1 + 1
      BY <3>1, FS_Interval
    <3>3. (IF 1 > Len(q) THEN 0 ELSE Len(q) - 1 + 1) = Len(q)
      BY <1>1
    <3> QED  BY <3>2, <3>3
  <2>2. B \in SUBSET (1 .. Len(q))
    OBVIOUS
  <2> HIDE DEF B
  <2>3. IsFiniteSet(B) /\ Cardinality(B) <= Len(q)
    BY <2>1, <2>2, FS_Subset
  <2>4. Cardinality(B) \in Nat
    BY <2>3, FS_CardinalityType
  <2> QED  BY <1>1, <2>3, <2>4
<1>3. new = InsertAt(q, k, e)
  BY DEF Enqueue
<1> HIDE DEF k, new
<1>4. /\ new \in Seq(Entry) /\ Len(new) = Len(q) + 1
      /\ \A i \in 1 .. Len(q) + 1 :
            new[i] = IF i < k THEN q[i] ELSE IF i = k THEN e ELSE q[i - 1]
  <2>1. /\ InsertAt(q, k, e) \in Seq(Entry)
        /\ Len(InsertAt(q, k, e)) = Len(q) + 1
        /\ \A i \in 1 .. Len(q) + 1 :
              InsertAt(q, k, e)[i] = IF i < k THEN q[i]
                                     ELSE IF i = k THEN e ELSE q[i - 1]
    BY <1>2, InsertForm
  <2> QED  BY <1>3, <2>1
<1>5. new # <<>>
  BY <1>1, <1>4
<1>6. Entries(new) = Entries(q) \cup {e}
  <2>1. Entries(new) \subseteq Entries(q) \cup {e}
    <3> SUFFICES ASSUME NEW i \in 1 .. Len(q) + 1, i # k
                 PROVE  new[i] \in Entries(q)
      <4>1. new[k] = e
        BY <1>2, <1>4
      <4> QED  BY <1>4, <4>1 DEF Entries
    <3>1. i < k => i \in 1 .. Len(q)
      BY <1>1, <1>2
    <3>2. ~ (i < k) => i - 1 \in 1 .. Len(q)
      BY <1>1, <1>2
    <3> QED  BY <1>4, <3>1, <3>2 DEF Entries
  <2>2. e \in Entries(new)
    BY <1>2, <1>4 DEF Entries
  <2>3. ASSUME NEW i \in 1 .. Len(q) PROVE q[i] \in Entries(new)
    <3>1. CASE i < k
      BY <1>1, <1>4, <3>1 DEF Entries
    <3>2. CASE ~ (i < k)
      <4>1. i + 1 \in 1 .. Len(q) + 1 /\ ~ (i + 1 < k) /\ i + 1 # k
            /\ (i + 1) - 1 = i
        BY <1>1, <1>2, <3>2
      <4>2. new[i + 1] = q[i]
        BY <1>4, <4>1
      <4> QED  BY <1>4, <4>1, <4>2 DEF Entries
    <3> QED  BY <3>1, <3>2
  <2> QED  BY <2>1, <2>2, <2>3 DEF Entries
<1>7. Lone(new)
  <2> SUFFICES ASSUME NEW i \in 1 .. Len(q) + 1, NEW j \in 1 .. Len(q) + 1,
                      new[i][2] = new[j][2], i < j
               PROVE  FALSE
    BY <1>1, <1>4 DEF Lone
  <2> DEFINE Old(x) == IF x < k THEN x ELSE x - 1
  <2>1. \A x \in 1 .. Len(q) + 1 :
           x # k => Old(x) \in 1 .. Len(q) /\ new[x] = q[Old(x)]
    BY <1>1, <1>2, <1>4
  <2>2. \A x \in 1 .. Len(q) + 1 : x # k => new[x][2] # e[2]
    BY <2>1 DEF Entries
  <2>3. new[k] = e
    BY <1>2, <1>4
  <2>4. i # k /\ j # k
    BY <2>2, <2>3
  <2>5. Old(i) = Old(j)
    <3>1. q[Old(i)][2] = q[Old(j)][2]
      BY <2>1, <2>4
    <3> QED  BY <2>1, <2>4, <3>1 DEF Lone
  <2> QED  BY <1>1, <1>2, <2>4, <2>5
<1> QED  BY <1>4, <1>5, <1>6, <1>7 DEF new

(* The first producer leaves the multimap.                                 *)
LEMMA TailForm ==
    ASSUME NEW q \in Seq(Entry), q # <<>>, Lone(q)
    PROVE  /\ Tail(q) \in Seq(Entry) /\ Lone(Tail(q))
           /\ Head(q) \in Entries(q) /\ Head(q) \in Entry
           /\ Entries(Tail(q)) = Entries(q) \ {Head(q)}
           /\ \A f \in Entries(Tail(q)) : f[2] # Head(q)[2]
<1>1. /\ Len(q) \in Nat \ {0} /\ Head(q) = q[1] /\ Len(Tail(q)) = Len(q) - 1
      /\ \A i \in 1 .. Len(q) - 1 : Tail(q)[i] = q[i + 1]
      /\ Tail(q) \in Seq(Entry) /\ q[1] \in Entry
  OBVIOUS
<1>2. \A i \in 1 .. Len(q) - 1 : i + 1 \in 1 .. Len(q) /\ i + 1 # 1
  BY <1>1
<1>3. \A i \in 2 .. Len(q) : i - 1 \in 1 .. Len(q) - 1 /\ (i - 1) + 1 = i
  BY <1>1
<1>4. 1 \in 1 .. Len(q)
  BY <1>1
<1>5. Lone(Tail(q))
  <2> SUFFICES ASSUME NEW i \in 1 .. Len(q) - 1, NEW j \in 1 .. Len(q) - 1,
                      q[i + 1][2] = q[j + 1][2]
               PROVE  i = j
    BY <1>1 DEF Lone
  <2>1. i + 1 = j + 1
    BY <1>2 DEF Lone
  <2> QED  BY <1>1, <2>1
<1>6. \A f \in Entries(Tail(q)) : f[2] # Head(q)[2] /\ f \in Entries(q)
  BY <1>1, <1>2, <1>4 DEF Entries, Lone
<1>7. Entries(q) \ {Head(q)} \subseteq Entries(Tail(q))
  <2> SUFFICES ASSUME NEW i \in 1 .. Len(q), q[i] # q[1]
               PROVE  q[i] \in Entries(Tail(q))
    BY <1>1 DEF Entries
  <2>1. i \in 2 .. Len(q)
    BY <1>1
  <2>2. Tail(q)[i - 1] = q[i]
    BY <1>1, <1>3, <2>1
  <2> QED  BY <1>1, <1>3, <2>1, <2>2 DEF Entries
<1>8. Head(q) \in Entries(q)
  BY <1>1, <1>4 DEF Entries
<1> QED  BY <1>1, <1>5, <1>6, <1>7, <1>8

(***************************************************************************)
(* The inductive invariant.                                                *)
(***************************************************************************)
AdderType == [preexisting : SUBSET Source, processed : SUBSET Source,
              repository : SUBSET Source, non_repository : SUBSET Source]

TypeOK ==
    /\ command \in AllCommands
    /\ IsDatabase(db["a"]) /\ IsDatabase(db["b"])
    /\ IsDatabase(dest) /\ IsDatabase(before)
    /\ adder \in [{"a", "b"} -> AdderType]
    /\ producers \in Seq(Entry)
    /\ todo \in SUBSET Source /\ names \in SUBSET Name
    /\ index \in Nat
    /\ pc \in {"start", "hash", "source", "data", "names", "assert", "done"}

(* The copiers know what the destination had when the command started.     *)
SkipsPreexisting == \A a \in {"a", "b"} : adder[a].preexisting = Preexisting

(* A source of which a copier knows the repositories is classified right.  *)
RepositoryFits(a, s) ==
    /\ command = "add_repository" => InRepository(a, s)
    /\ command = "subtract_repository" => NotOnlyInRepository(a, s)

Classification ==
    ByRepository => \A a \in {"a", "b"}, s \in Source :
        /\ s \in adder[a].repository => InRepository(a, s)
        /\ s \in adder[a].non_repository => NotOnlyInRepository(a, s)
        /\ s \in adder[a].processed \cup adder[a].non_repository =>
              /\ InRepository(a, s) => s \in adder[a].repository
              /\ NotOnlyInRepository(a, s) => s \in adder[a].non_repository

(* The command is at work, or has ended.                                   *)
InRun == pc \in {"hash", "source", "data", "names", "done"}
InHash == pc \in {"source", "data", "names"}
InSource == pc \in {"data", "names"}

(* The multimap has the next hash of every producer that is not depleted.  *)
Queue ==
    InRun => /\ Lone(producers)
             /\ producers = <<>> <=> pc = "done"
             /\ \A e \in Entries(producers) :
                   e[2] \in Producers /\ e[1] \in Hashes(db[e[2]])

Known(a, s) == /\ InRepository(a, s) => s \in adder[a].repository
               /\ NotOnlyInRepository(a, s) => s \in adder[a].non_repository

(* What is to be done for the hash and the source at hand.                 *)
AtHand ==
    /\ InHash => todo \subseteq Selected(producer, hash)
    /\ InSource => /\ todo # {}
                   /\ Min(todo) \notin Preexisting
                   /\ Min(todo) \notin adder[producer].processed
                   /\ RepositoryFits(producer, Min(todo))
                   /\ ByRepository => Known(producer, Min(todo))
    /\ pc = "names" => names \subseteq NamesToAdd(producer, Min(todo))

(* The hashes of producer a that the command has been through; and hash h  *)
(* with source s of it, which may be of the hash at hand.                  *)
Visited(a) ==
    {h \in Hashes(db[a]) : \A e \in Entries(producers) :
                              e[2] = a => h < e[1]}

Underway(a, s) == InSource /\ a = producer /\ s = Min(todo)

Handled(a, h, s) ==
    \/ h \in Visited(a)
    \/ /\ InHash /\ a = producer /\ h = hash
       /\ s \in Selected(a, h)
       /\ s \notin todo \/ Underway(a, s)

Copies(a, h, s) == Handled(a, h, s) /\ Wanted(a, h, s)

(* The destination has what was copied so far, and nothing else is new.    *)
ExactSoFar ==
    InRun => \A h \in Hash, s \in Source :
        \/ /\ dest.count[h][s] = before.count[h][s]
           /\ \A a \in Producers : ~Copies(a, h, s)
        \/ /\ before.count[h][s] = 0
           /\ \E a \in Producers :
                Copies(a, h, s) /\ dest.count[h][s] = SubCount(a, h, s)

(* A copier has processed the sources it copied, but for the one at hand.  *)
ProcessedSoFar ==
    InRun => \A a \in Producers, s \in Source :
        s \in adder[a].processed <=>
            (\E h \in Hash : Copies(a, h, s)) /\ ~Underway(a, s)

By(s) == {a \in Producers : s \in adder[a].processed}
KeptBy(s) == UNION {NamesKept(a, s) : a \in By(s)}

Naming(s) == pc = "names" /\ s = Min(todo)

(* Sources that were processed have their names and data.                  *)
DescribedSoFar ==
    InRun => \A s \in Source \ Preexisting :
        /\ dest.names[s] =
              KeptBy(s)
              \cup (IF Naming(s) THEN NamesToAdd(producer, s) \ names
                    ELSE {})
        /\ IF Naming(s) THEN dest.data[s] = SourceData(producer, s)
           ELSE By(s) # {} =>
                   dest.data[s] \in {SourceData(a, s) : a \in By(s)}

(* The tracker has counted the records of the hashes gone through.         *)
RecordsVisited(a) == Sums(RecordsOf(db[a]), Hash)[Visited(a)]

CountedSoFar ==
    InRun => index = IF command = "add_multiple"
                     THEN RecordsVisited("a") + RecordsVisited("b")
                     ELSE RecordsVisited("a")

IInv == /\ TypeOK /\ SkipsPreexisting /\ Classification /\ Queue /\ AtHand
        /\ ExactSoFar /\ ProcessedSoFar /\ DescribedSoFar /\ CountedSoFar

(***************************************************************************)
(* What the commands look at, against what they promise.                   *)
(***************************************************************************)

(* The sources that a command looks at are sources.                        *)
LEMMA SelectedForm ==
    ASSUME NEW a, NEW h
    PROVE  Selected(a, h) \in SUBSET Source
<1>1. \A d : sources(d, h) \in SUBSET Source
  BY DEF sources
<1>2. /\ add(a, h) \in SUBSET Source /\ add_range(h) \in SUBSET Source
      /\ intersect(h) \in SUBSET Source /\ intersect_hash(h) \in SUBSET Source
      /\ subtract(h) \in SUBSET Source /\ subtract_hash(h) \in SUBSET Source
  BY <1>1 DEF add, add_range, intersect, intersect_hash, subtract,
              subtract_hash
<1> QED  BY <1>2 DEF Selected

(* One of two producers of add_multiple, or manager_a.                     *)
LEMMA ProducerForm ==
    ASSUME NEW a \in Producers
    PROVE  a \in {"a", "b"} /\ (command # "add_multiple" => a = "a")
BY DEF Producers

(* What a command wants is what it selects and does not skip, of the       *)
(* hashes that it goes through.                                            *)
LEMMA WantedForm ==
    ASSUME TypeOK, NEW a \in Producers, NEW h \in Hashes(db[a]),
           NEW s \in Source
    PROVE  Wanted(a, h, s) <=> /\ s \notin Preexisting
                               /\ s \in Selected(a, h)
                               /\ RepositoryFits(a, s)
<1>1. /\ a \in {"a", "b"} /\ (command # "add_multiple" => a = "a")
      /\ h \in Hash
  BY ProducerForm DEF Hashes
<1>2. \A x \in {"a", "b"}, t \in Source :
         t \in sources(db[x], h) <=> Has(x, h, t)
  BY DEF sources, Has
<1>3. \A x \in {"a", "b"} :
         sources(db[x], h) = {} <=> \A t \in Source : ~Has(x, h, t)
  BY <1>2 DEF sources
<1>4. find_hash_count(db["b"], h) = 0 <=> \A t \in Source : ~Has("b", h, t)
  <2>1. IsDatabase(db["b"])
    BY DEF TypeOK
  <2>2. \A t \in Source : db["b"].count[h][t] \in Nat
    BY <1>1, <2>1 DEF IsDatabase
  <2>3. find_hash_count(db["b"], h) = 0 <=>
           \A t \in Source : db["b"].count[h][t] = 0
    BY <1>1, <2>1, CountForm
  <2> QED  BY <2>2, <2>3 DEF Has
<1>5. find_hash_count(db["a"], h) \in Nat
  BY <1>1, CountForm DEF TypeOK
<1>6. CASE command \in {"add", "add_multiple"}
  BY <1>1, <1>2, <1>6 DEF Wanted, Selected, add, RepositoryFits
<1>7. CASE command = "add_range"
  <2>1. a = "a"
    BY <1>1, <1>7
  <2>2. m \in Nat /\ n \in Nat
    BY CopyAssumption
  <2> DEFINE c == find_hash_count(db["a"], h)
  <2>3. c \in Nat
    BY <1>5
  <2>4. Selected(a, h) = IF c >= m /\ (n = 0 \/ c <= n)
                         THEN sources(db["a"], h) ELSE {}
    BY <1>7 DEF Selected, add_range
  <2>5. Wanted(a, h, s) <=> /\ s \notin Preexisting /\ Has("a", h, s)
                            /\ m <= c /\ (n # 0 => c <= n)
    BY <1>7, <2>1 DEF Wanted
  <2>6. RepositoryFits(a, s)
    BY <1>7 DEF RepositoryFits
  <2> HIDE DEF c
  <2> QED  BY <1>2, <2>2, <2>3, <2>4, <2>5, <2>6
<1>8. CASE command \in {"add_repository", "subtract_repository"}
  BY <1>1, <1>2, <1>8 DEF Wanted, Selected, add, RepositoryFits
<1>9. CASE command = "intersect"
  BY <1>1, <1>2, <1>9 DEF Wanted, Selected, intersect, RepositoryFits
<1>10. CASE command = "intersect_hash"
  <2>1. a = "a" /\ RepositoryFits(a, s)
    BY <1>1, <1>10 DEF RepositoryFits
  <2>2. s \in Selected(a, h) <=>
           /\ sources(db["b"], h) # {}
           /\ s \in sources(db["a"], h) \/ s \in sources(db["b"], h)
    BY <1>10 DEF Selected, intersect_hash
  <2>3. Wanted(a, h, s) <=>
           /\ s \notin Preexisting
           /\ Has("a", h, s) \/ Has("b", h, s)
           /\ \E t \in Source : Has("a", h, t)
           /\ \E t \in Source : Has("b", h, t)
    BY <1>10, <2>1 DEF Wanted
  <2>4. sources(db["a"], h) # {}
    BY <2>1 DEF Hashes
  <2> QED  BY <1>2, <1>3, <2>1, <2>2, <2>3, <2>4
<1>11. CASE command = "subtract"
  BY <1>1, <1>2, <1>11 DEF Wanted, Selected, subtract, RepositoryFits
<1>12. CASE command = "subtract_hash"
  BY <1>1, <1>2, <1>4, <1>12 DEF Wanted, Selected, subtract_hash,
                                 RepositoryFits
<1> QED
  BY <1>6, <1>7, <1>8, <1>9, <1>10, <1>11, <1>12 DEF TypeOK, AllCommands

(* A hash that is wanted is one of the producer's, its sub_count is one of *)
(* an input's, and the source has data there.                              *)
LEMMA WantedHas ==
    ASSUME TypeOK, NEW a \in Producers, NEW h \in Hash, NEW s \in Source,
           Wanted(a, h, s)
    PROVE  /\ h \in Hashes(db[a]) /\ s \notin Preexisting
           /\ SubCount(a, h, s) \in Nat \ {0}
           /\ SourceData(a, s) # NoSource
<1>1. a \in {"a", "b"} /\ (command # "add_multiple" => a = "a")
  BY ProducerForm
<1>2. s \notin Preexisting
  BY DEF Wanted
<1>3. \E t \in Source : Has(a, h, t)
  BY <1>1 DEF Wanted, TypeOK, AllCommands
<1>4. Has(a, h, s) \/ Has("b", h, s)
  BY <1>1 DEF Wanted, TypeOK, AllCommands
<1>5. h \in Hashes(db[a])
  BY <1>3 DEF Hashes, sources, Has
<1>6. \A x \in {"a", "b"} :
         /\ db[x].count[h][s] \in Nat
         /\ db[x].count[h][s] # 0 => db[x].data[s] # NoSource
  <2>1. IsDatabase(db["a"]) /\ IsDatabase(db["b"])
    BY DEF TypeOK
  <2> QED  BY <2>1 DEF IsDatabase
<1>7. SubCount(a, h, s) \in Nat \ {0}
  BY <1>1, <1>4, <1>6 DEF SubCount, Has
<1>8. SourceData(a, s) # NoSource
  <2>1. db[a].data[s] # NoSource \/ db["b"].data[s] # NoSource
    BY <1>1, <1>4, <1>6 DEF Has
  <2> QED  BY <2>1 DEF SourceData
<1> QED  BY <1>2, <1>5, <1>7, <1>8

(* The names that are added are those the command keeps.                   *)
LEMMA NamesForm ==
    ASSUME TypeOK, NEW a \in Producers, NEW s \in Source
    PROVE  /\ NamesToAdd(a, s) = NamesKept(a, s)
           /\ NamesToAdd(a, s) \in SUBSET Name
<1>1. a \in {"a", "b"} /\ (command # "add_multiple" => a = "a")
  BY ProducerForm
<1>2. db["a"].names[s] \in SUBSET Name /\ db["b"].names[s] \in SUBSET Name
  <2>1. IsDatabase(db["a"]) /\ IsDatabase(db["b"])
    BY DEF TypeOK
  <2> QED  BY <2>1 DEF IsDatabase
<1>3. CASE command \in {"add", "add_multiple", "add_range"}
  BY <1>1, <1>2, <1>3 DEF NamesToAdd, NamesKept, BySet
<1>4. CASE command \in {"add_repository", "subtract_repository"}
  BY <1>1, <1>2, <1>4 DEF NamesToAdd, NamesKept, BySet
<1>5. CASE BySet
  BY <1>1, <1>2, <1>5 DEF NamesToAdd, NamesKept, BySet
<1> QED  BY <1>3, <1>4, <1>5 DEF TypeOK, AllCommands, BySet

(* After classify_repository_source the copier accepts a source if its     *)
(* names say so, and has forgotten nothing.                                *)
LEMMA ClassifyForm ==
    ASSUME TypeOK, Classification, NEW a \in {"a", "b"}, NEW s \in Source,
           NEW r, r = Classified(adder[a], s, a)
    PROVE  /\ r \in AdderType
           /\ r.processed = adder[a].processed
           /\ r.preexisting = adder[a].preexisting
           /\ Accepted(r, s) <=> RepositoryFits(a, s)
           /\ ByRepository => \A t \in Source :
                /\ t \in r.repository => InRepository(a, t)
                /\ t \in r.non_repository => NotOnlyInRepository(a, t)
                /\ t \in r.processed \cup r.non_repository =>
                      /\ InRepository(a, t) => t \in r.repository
                      /\ NotOnlyInRepository(a, t) => t \in r.non_repository
           /\ (ByRepository /\ Accepted(r, s)) =>
                /\ InRepository(a, s) => s \in r.repository
                /\ NotOnlyInRepository(a, s) => s \in r.non_repository
<1> DEFINE old == adder[a]
<1>1. old \in AdderType
  BY DEF TypeOK
<1> HIDE DEF old
<1>2. /\ r \in AdderType
      /\ r.processed = old.processed /\ r.preexisting = old.preexisting
      /\ (ByRepository /\ s \notin old.processed
          /\ s \notin old.non_repository) =>
            /\ r.repository = IF InRepository(a, s)
                              THEN old.repository \cup {s}
                              ELSE old.repository
            /\ r.non_repository = IF NotOnlyInRepository(a, s)
                                  THEN old.non_repository \cup {s}
                                  ELSE old.non_repository
      /\ ~(ByRepository /\ s \notin old.processed
           /\ s \notin old.non_repository) =>
            /\ r.repository = old.repository
            /\ r.non_repository = old.non_repository
  <2>1. CASE ByRepository /\ s \notin old.processed
             /\ s \notin old.non_repository
    <3>1. r = [old EXCEPT
                 !.repository =
                     IF InRepository(a, s) THEN @ \cup {s} ELSE @,
                 !.non_repository =
                     IF NotOnlyInRepository(a, s) THEN @ \cup {s} ELSE @]
      BY <2>1 DEF old, Classified, classify_repository_source,
                  InRepository, NotOnlyInRepository
    <3>2. PICK u, v :
             /\ u = IF InRepository(a, s) THEN old.repository \cup {s}
                    ELSE old.repository
             /\ v = IF NotOnlyInRepository(a, s)
                    THEN old.non_repository \cup {s}
                    ELSE old.non_repository
      OBVIOUS
    <3>3. u \in SUBSET Source /\ v \in SUBSET Source
      BY <1>1, <3>2 DEF AdderType
    <3>4. r = [old EXCEPT !.repository = u, !.non_repository = v]
      BY <3>1, <3>2
    <3>5. /\ r \in AdderType /\ r.repository = u /\ r.non_repository = v
          /\ r.processed = old.processed /\ r.preexisting = old.preexisting
      BY <1>1, <3>3, <3>4 DEF AdderType
    <3> QED  BY <2>1, <3>2, <3>5
  <2>2. CASE ~(ByRepository /\ s \notin old.processed
               /\ s \notin old.non_repository)
    <3>1. r = old
      BY <2>2 DEF old, Classified
    <3> QED  BY <1>1, <2>2, <3>1
  <2> QED  BY <2>1, <2>2
<1>3. ByRepository => \A t \in Source :
        /\ t \in old.repository => InRepository(a, t)
        /\ t \in old.non_repository => NotOnlyInRepository(a, t)
        /\ t \in old.processed \cup old.non_repository =>
              /\ InRepository(a, t) => t \in old.repository
              /\ NotOnlyInRepository(a, t) => t \in old.non_repository
  BY DEF Classification, old
<1>4. ByRepository => \A t \in Source :
        /\ t \in r.repository => InRepository(a, t)
        /\ t \in r.non_repository => NotOnlyInRepository(a, t)
        /\ t \in r.processed \cup r.non_repository =>
              /\ InRepository(a, t) => t \in r.repository
              /\ NotOnlyInRepository(a, t) => t \in r.non_repository
  BY <1>2, <1>3
<1>5. ByRepository => /\ InRepository(a, s) => s \in r.repository
                      /\ NotOnlyInRepository(a, s) => s \in r.non_repository
  BY <1>2, <1>3
<1>6. Accepted(r, s) <=> RepositoryFits(a, s)
  <2>1. CASE command = "add_repository"
    BY <1>4, <1>5, <2>1 DEF Accepted, RepositoryFits, ByRepository
  <2>2. CASE command = "subtract_repository"
    BY <1>4, <1>5, <2>2 DEF Accepted, RepositoryFits, ByRepository
  <2>3. CASE command \notin {"add_repository", "subtract_repository"}
    BY <2>3 DEF Accepted, RepositoryFits
  <2> QED  BY <2>1, <2>2, <2>3
<1> QED  BY <1>2, <1>4, <1>5, <1>6 DEF old

(***************************************************************************)
(* The steps.                                                              *)
(***************************************************************************)

(* While a command runs, what it wants stays what it is.                   *)
LEMMA Frame ==
    ASSUME UNCHANGED <<command, db, before>>
    PROVE  /\ Producers' = Producers /\ Preexisting' = Preexisting
           /\ ByRepository' = ByRepository /\ BySet' = BySet
           /\ \A a, h, s :
                /\ Wanted(a, h, s)' = Wanted(a, h, s)
                /\ SubCount(a, h, s)' = SubCount(a, h, s)
           /\ \A a, h : Selected(a, h)' = Selected(a, h)
           /\ \A a, s :
                /\ SourceData(a, s)' = SourceData(a, s)
                /\ NamesToAdd(a, s)' = NamesToAdd(a, s)
                /\ NamesKept(a, s)' = NamesKept(a, s)
                /\ RepositoryFits(a, s)' = RepositoryFits(a, s)
                /\ InRepository(a, s)' = InRepository(a, s)
                /\ NotOnlyInRepository(a, s)' = NotOnlyInRepository(a, s)
<1>1. Producers' = Producers /\ Preexisting' = Preexisting
  BY DEF Producers, Preexisting
<1>2. ByRepository' = ByRepository /\ BySet' = BySet
  BY DEF ByRepository, BySet
<1>3. \A a, s : /\ InRepository(a, s)' = InRepository(a, s)
                /\ NotOnlyInRepository(a, s)' = NotOnlyInRepository(a, s)
  BY DEF InRepository, NotOnlyInRepository
<1>4. \A a, h, s : Wanted(a, h, s)' = Wanted(a, h, s)
  BY DEF Wanted, Preexisting, Has, InRepository, NotOnlyInRepository
<1>5. \A a, h, s : SubCount(a, h, s)' = SubCount(a, h, s)
  BY DEF SubCount
<1>6. \A a, h : Selected(a, h)' = Selected(a, h)
  BY DEF Selected, add, add_range, intersect, intersect_hash, subtract,
         subtract_hash
<1>7. \A a, s : /\ SourceData(a, s)' = SourceData(a, s)
                /\ NamesToAdd(a, s)' = NamesToAdd(a, s)
                /\ NamesKept(a, s)' = NamesKept(a, s)
                /\ RepositoryFits(a, s)' = RepositoryFits(a, s)
  BY DEF SourceData, NamesToAdd, NamesKept, RepositoryFits, BySet,
         InRepository, NotOnlyInRepository
<1> QED  BY <1>1, <1>2, <1>3, <1>4, <1>5, <1>6, <1>7

(* The producer at hand.                                                   *)
LEMMA AtHandForm ==
    ASSUME TypeOK, Queue, InRun, pc # "done"
    PROVE  /\ producers # <<>> /\ producer \in Producers
           /\ producer \in {"a", "b"} /\ hash \in Hash
           /\ hash \in Hashes(db[producer])
           /\ <<hash, producer>> \in Entries(producers)
<1>1. producers \in Seq(Entry) /\ producers # <<>> /\ Lone(producers)
  BY DEF TypeOK, Queue
<1>2. /\ Head(producers) \in Entries(producers)
      /\ Head(producers) \in Entry
  BY <1>1, TailForm
<1>3. Head(producers) = <<hash, producer>>
  BY <1>2 DEF Entry, hash, producer
<1> QED  BY <1>1, <1>2, <1>3 DEF Queue, Entry, hash, producer

(* A merge of a new source writes its sub_count, of another one nothing.   *)
LEMMA MergeForm ==
    ASSUME NEW d, IsDatabase(d), NEW h \in Hash, NEW s \in Source,
           NEW l, NEW c \in Nat, NEW e, e = merge_hash(d, h, l, s, c)
    PROVE  /\ IsDatabase(e) /\ e.names = d.names
           /\ \A k \in Hash, t \in Source : k # h \/ t # s =>
                 e.count[k][t] = d.count[k][t]
           /\ e.count[h][s] = IF d.count[h][s] = 0 THEN c
                              ELSE d.count[h][s]
           /\ \A t \in Source \ {s} : e.data[t] = d.data[t]
           /\ e.data[s] = IF d.data[s] = NoSource THEN Blank ELSE d.data[s]
           /\ \A k \in Hashes(d) : e.label[k] = d.label[k]
<1>1. /\ d = [count |-> d.count, label |-> d.label, data |-> d.data,
              names |-> d.names]
      /\ d.count \in [Hash -> [Source -> Nat]]
      /\ d.label = [k \in Hash |-> d.label[k]]
      /\ d.data = [t \in Source |-> d.data[t]]
      /\ d.names \in [Source -> SUBSET Name]
  BY DEF IsDatabase
<1> DEFINE c1 == IF d.count[h][s] = 0 THEN c ELSE d.count[h][s]
           l1 == IF sources(d, h) = {} THEN l ELSE d.label[h]
           x1 == IF d.data[s] = NoSource THEN Blank ELSE d.data[s]
<1>2. e = [d EXCEPT !.count[h][s] = c1, !.label[h] = l1, !.data[s] = x1]
  BY Zenon DEF merge_hash
<1>3. c1 \in Nat /\ x1 # NoSource
  BY <1>1, CopyAssumption
<1> HIDE DEF c1, l1, x1
<1>4. e = [count |-> [d.count EXCEPT ![h] = [@ EXCEPT ![s] = c1]],
           label |-> [d.label EXCEPT ![h] = l1],
           data |-> [d.data EXCEPT ![s] = x1],
           names |-> d.names]
  <2>1. PICK v, w, x, y : d = [count |-> v, label |-> w, data |-> x,
                               names |-> y]
    BY <1>1
  <2>2. e = [count |-> [v EXCEPT ![h] = [@ EXCEPT ![s] = c1]],
             label |-> [w EXCEPT ![h] = l1],
             data |-> [x EXCEPT ![s] = x1],
             names |-> y]
    BY <1>2, <2>1
  <2> QED  BY <2>1, <2>2
<1>5. /\ e.count = [d.count EXCEPT ![h] = [@ EXCEPT ![s] = c1]]
      /\ e.label = [d.label EXCEPT ![h] = l1]
      /\ e.data = [d.data EXCEPT ![s] = x1] /\ e.names = d.names
      /\ e = [count |-> e.count, label |-> e.label, data |-> e.data,
              names |-> e.names]
  BY <1>4
<1>6. /\ e.count \in [Hash -> [Source -> Nat]]
      /\ e.count[h][s] = c1
      /\ \A k \in Hash, t \in Source : k # h \/ t # s =>
            e.count[k][t] = d.count[k][t]
  BY <1>1, <1>3, <1>5
<1>7. /\ e.label = [k \in Hash |-> e.label[k]]
      /\ \A k \in Hash \ {h} : e.label[k] = d.label[k]
      /\ e.label[h] = l1
  BY <1>1, <1>5
<1>8. /\ e.data = [t \in Source |-> e.data[t]]
      /\ \A t \in Source \ {s} : e.data[t] = d.data[t]
      /\ e.data[s] = x1
  BY <1>1, <1>5
<1>9. \A k \in Hashes(d) : e.label[k] = d.label[k]
  BY <1>7 DEF Hashes, l1
<1>10. \A t \in Source : e.data[t] = NoSource =>
          e.names[t] = {} /\ \A k \in Hash : e.count[k][t] = 0
  <2> SUFFICES ASSUME NEW t \in Source, e.data[t] = NoSource
               PROVE  e.names[t] = {} /\ \A k \in Hash : e.count[k][t] = 0
    OBVIOUS
  <2>1. t # s /\ d.data[t] = NoSource
    BY <1>3, <1>8
  <2>2. d.names[t] = {} /\ \A k \in Hash : d.count[k][t] = 0
    BY <2>1 DEF IsDatabase
  <2> QED  BY <1>5, <1>6, <2>1, <2>2
<1>11. IsDatabase(e)
  BY <1>1, <1>5, <1>6, <1>7, <1>8, <1>10 DEF IsDatabase
<1> QED  BY <1>5, <1>6, <1>8, <1>9, <1>11 DEF c1, x1

(* Source data is written for one source.                                  *)
LEMMA DataForm ==
    ASSUME NEW d, IsDatabase(d), NEW s \in Source, NEW x, x # NoSource,
           NEW e, e = insert_source_data(d, s, x)
    PROVE  /\ IsDatabase(e) /\ e.names = d.names /\ e.count = d.count
           /\ e.label = d.label /\ e.data[s] = x
           /\ \A t \in Source \ {s} : e.data[t] = d.data[t]
<1>1. /\ d = [count |-> d.count, label |-> d.label, data |-> d.data,
              names |-> d.names]
      /\ d.data = [t \in Source |-> d.data[t]]
  BY DEF IsDatabase
<1>2. e = [d EXCEPT !.data = [@ EXCEPT ![s] = x]]
  BY DEF insert_source_data
<1>3. e = [count |-> d.count, label |-> d.label,
           data |-> [d.data EXCEPT ![s] = x], names |-> d.names]
  BY <1>1, <1>2
<1>4. /\ e.count = d.count /\ e.label = d.label /\ e.names = d.names
      /\ e.data = [d.data EXCEPT ![s] = x]
      /\ e = [count |-> e.count, label |-> e.label, data |-> e.data,
              names |-> e.names]
  BY <1>3
<1>5. /\ e.data = [t \in Source |-> e.data[t]] /\ e.data[s] = x
      /\ \A t \in Source \ {s} : e.data[t] = d.data[t]
  BY <1>1, <1>4
<1>6. \A t \in Source : e.data[t] = NoSource =>
         e.names[t] = {} /\ \A k \in Hash : e.count[k][t] = 0
  <2> SUFFICES ASSUME NEW t \in Source, e.data[t] = NoSource
               PROVE  d.names[t] = {} /\ \A k \in Hash : d.count[k][t] = 0
    BY <1>4
  <2>1. d.data[t] = NoSource
    BY <1>5
  <2> QED  BY <2>1 DEF IsDatabase
<1>7. IsDatabase(e)
  BY <1>4, <1>5, <1>6 DEF IsDatabase
<1> QED  BY <1>4, <1>5, <1>7

(* A name is added to one source that has data.                            *)
LEMMA NameForm ==
    ASSUME NEW d, IsDatabase(d), NEW s \in Source, d.data[s] # NoSource,
           NEW x \in Name, NEW e, e = insert_source_name(d, s, x)
    PROVE  /\ IsDatabase(e) /\ e.data = d.data /\ e.count = d.count
           /\ e.label = d.label /\ e.names[s] = d.names[s] \cup {x}
           /\ \A t \in Source \ {s} : e.names[t] = d.names[t]
<1>1. /\ d = [count |-> d.count, label |-> d.label, data |-> d.data,
              names |-> d.names]
      /\ d.names \in [Source -> SUBSET Name]
  BY DEF IsDatabase
<1>2. PICK y : y = d.names[s] \cup {x}
  OBVIOUS
<1>3. y \in SUBSET Name
  BY <1>1, <1>2
<1>4. e = [d EXCEPT !.names = [@ EXCEPT ![s] = y]]
  BY <1>1, <1>2 DEF insert_source_name
<1>5. e = [count |-> d.count, label |-> d.label, data |-> d.data,
           names |-> [d.names EXCEPT ![s] = y]]
  BY <1>1, <1>4
<1>6. /\ e.count = d.count /\ e.label = d.label /\ e.data = d.data
      /\ e.names = [d.names EXCEPT ![s] = y]
      /\ e = [count |-> e.count, label |-> e.label, data |-> e.data,
              names |-> e.names]
  BY <1>5
<1>7. /\ e.names \in [Source -> SUBSET Name] /\ e.names[s] = y
      /\ \A t \in Source \ {s} : e.names[t] = d.names[t]
  BY <1>1, <1>3, <1>6
<1>8. IsDatabase(e)
  BY <1>6, <1>7 DEF IsDatabase
<1> QED  BY <1>2, <1>6, <1>7, <1>8

(* While the multimap stays, so do the hash at hand and those gone         *)
(* through.                                                                *)
LEMMA HashStays ==
    ASSUME UNCHANGED <<command, db, before, producers>>
    PROVE  /\ hash' = hash /\ producer' = producer
           /\ Entries(producers)' = Entries(producers)
           /\ \A a : Visited(a)' = Visited(a)
           /\ \A a : RecordsVisited(a)' = RecordsVisited(a)
<1>1. hash' = hash /\ producer' = producer
  BY DEF hash, producer
<1>2. Entries(producers)' = Entries(producers)
  BY DEF Entries
<1>3. \A a : Visited(a)' = Visited(a)
  BY <1>2 DEF Visited
<1>4. \A a : RecordsVisited(a)' = RecordsVisited(a)
  BY <1>3 DEF RecordsVisited
<1> QED  BY <1>1, <1>2, <1>3, <1>4

(* So the multimap and the count are right after a step within a hash.     *)
LEMMA WithinHash ==
    ASSUME IInv, UNCHANGED <<command, db, before, producers, index>>,
           InRun, pc # "done", InRun', pc' # "done",
           \A a \in {"a", "b"} :
              adder'[a].preexisting = adder[a].preexisting
    PROVE  SkipsPreexisting' /\ Queue' /\ CountedSoFar'
<1>1. SkipsPreexisting'
  BY Frame DEF IInv, SkipsPreexisting
<1>2. Queue'
  <2>1. producers # <<>> /\ Lone(producers)'
    BY DEF IInv, Queue, Lone
  <2>2. \A e \in Entries(producers)' :
           e[2] \in Producers' /\ e[1] \in Hashes(db[e[2]])'
    BY Frame, HashStays DEF IInv, Queue, Hashes, sources
  <2> QED  BY <2>1, <2>2 DEF Queue
<1>3. CountedSoFar'
  BY HashStays DEF IInv, CountedSoFar
<1> QED  BY <1>1, <1>2, <1>3

(* What is copied so far stays exact when nothing is copied.               *)
LEMMA NothingCopied ==
    ASSUME IInv, UNCHANGED <<command, db, before>>, InRun,
           dest'.count = dest.count,
           \A a \in Producers, h \in Hash, s \in Source :
              Copies(a, h, s)' <=> Copies(a, h, s)
    PROVE  ExactSoFar'
<1> SUFFICES ASSUME NEW h \in Hash, NEW s \in Source
             PROVE  \/ /\ dest'.count[h][s] = before'.count[h][s]
                       /\ \A a \in Producers' : ~Copies(a, h, s)'
                    \/ /\ before'.count[h][s] = 0
                       /\ \E a \in Producers' :
                            /\ Copies(a, h, s)'
                            /\ dest'.count[h][s] = SubCount(a, h, s)'
  BY DEF ExactSoFar
<1>1. \/ /\ dest.count[h][s] = before.count[h][s]
         /\ \A a \in Producers : ~Copies(a, h, s)
      \/ /\ before.count[h][s] = 0
         /\ \E a \in Producers :
              Copies(a, h, s) /\ dest.count[h][s] = SubCount(a, h, s)
  BY DEF IInv, ExactSoFar
<1>2. Producers' = Producers
      /\ \A a \in Producers : SubCount(a, h, s)' = SubCount(a, h, s)
  BY Frame
<1> QED  BY <1>1, <1>2

(* find_hash copies nothing.                                               *)
LEMMA ReadHashStep == ASSUME IInv, ReadHash PROVE IInv'
<1>1. /\ pc = "hash" /\ pc' = "source" /\ todo' = Selected(producer, hash)
      /\ UNCHANGED <<command, db, dest, before, adder, producers, names,
                     index, runs>>
  BY DEF ReadHash
<1>2. /\ InRun /\ InRun' /\ ~InHash /\ InHash' /\ ~InSource /\ ~InSource'
  BY <1>1 DEF InRun, InHash, InSource
<1>3. TypeOK'
  <2>1. todo' \in SUBSET Source
    BY <1>1, SelectedForm
  <2> QED  BY <1>1, <2>1 DEF IInv, TypeOK, IsDatabase
<1>4. SkipsPreexisting' /\ Queue' /\ CountedSoFar'
  BY <1>1, <1>2, WithinHash
<1>5. Classification'
  BY <1>1, Frame DEF IInv, Classification
<1>6. AtHand'
  BY <1>1, <1>2, Frame, HashStays DEF AtHand
<1>7. \A a \in Producers, h \in Hash, s \in Source :
         Copies(a, h, s)' <=> Copies(a, h, s)
  <2> SUFFICES ASSUME NEW a \in Producers, NEW h \in Hash, NEW s \in Source
               PROVE  Handled(a, h, s)' <=> Handled(a, h, s)
    BY <1>1, Frame DEF Copies
  <2>1. Handled(a, h, s) <=> h \in Visited(a)
    BY <1>2 DEF Handled
  <2>2. Selected(a, h)' = Selected(a, h)
        /\ hash' = hash /\ producer' = producer
    BY <1>1, Frame, HashStays
  <2>3. Handled(a, h, s)' <=> h \in Visited(a)'
    BY <1>1, <1>2, <2>2 DEF Handled, Underway
  <2> QED  BY <1>1, <2>1, <2>3, HashStays
<1>8. ExactSoFar'
  BY <1>1, <1>2, <1>7, NothingCopied
<1>9. ProcessedSoFar'
  BY <1>1, <1>2, <1>7, Frame DEF IInv, ProcessedSoFar, Underway
<1>10. DescribedSoFar'
  <2>1. \A s : By(s)' = By(s) /\ KeptBy(s)' = KeptBy(s)
    BY <1>1, Frame DEF By, KeptBy
  <2>2. \A s : ~Naming(s) /\ ~Naming(s)'
    BY <1>1 DEF Naming
  <2> QED  BY <1>1, <1>2, <2>1, <2>2, Frame DEF IInv, DescribedSoFar
<1> QED  BY <1>3, <1>4, <1>5, <1>6, <1>8, <1>9, <1>10 DEF IInv

(* The source at hand.                                                     *)
LEMMA SourceForm ==
    ASSUME IInv, InHash, todo # {}
    PROVE  /\ Min(todo) \in todo /\ Min(todo) \in Source
           /\ Min(todo) \in Selected(producer, hash)
           /\ producer \in Producers /\ producer \in {"a", "b"}
           /\ hash \in Hash /\ hash \in Hashes(db[producer])
<1>1. todo \in SUBSET Source /\ Source \in SUBSET Nat
  BY CopyAssumption DEF IInv, TypeOK
<1>2. Min(todo) \in todo
  BY <1>1, MinForm
<1>3. todo \subseteq Selected(producer, hash)
  BY DEF IInv, AtHand
<1>4. InRun /\ pc # "done"
  BY DEF InHash, InRun
<1>5. /\ producer \in Producers /\ producer \in {"a", "b"}
      /\ hash \in Hash /\ hash \in Hashes(db[producer])
  BY <1>4, AtHandForm DEF IInv
<1> QED  BY <1>1, <1>2, <1>3, <1>5

(* The copier reads the names of a source.                                 *)
LEMMA ClassifyStep ==
    ASSUME IInv, UNCHANGED <<command, db, before>>,
           NEW a \in {"a", "b"}, NEW s \in Source,
           adder' = [adder EXCEPT ![a] = Classified(adder[a], s, a)]
    PROVE  /\ adder' \in [{"a", "b"} -> AdderType]
           /\ \A x \in {"a", "b"} :
                 /\ adder'[x].preexisting = adder[x].preexisting
                 /\ adder'[x].processed = adder[x].processed
           /\ Classification'
<1>1. PICK r : r = Classified(adder[a], s, a)
  OBVIOUS
<1>2. /\ r \in AdderType /\ r.processed = adder[a].processed
      /\ r.preexisting = adder[a].preexisting
      /\ ByRepository => \A t \in Source :
                /\ t \in r.repository => InRepository(a, t)
                /\ t \in r.non_repository => NotOnlyInRepository(a, t)
                /\ t \in r.processed \cup r.non_repository =>
                      /\ InRepository(a, t) => t \in r.repository
                      /\ NotOnlyInRepository(a, t) => t \in r.non_repository
  BY <1>1, ClassifyForm DEF IInv
<1>3. adder \in [{"a", "b"} -> AdderType]
  BY DEF IInv, TypeOK
<1>4. adder' = [adder EXCEPT ![a] = r]
  BY <1>1
<1>5. /\ adder' \in [{"a", "b"} -> AdderType] /\ adder'[a] = r
      /\ \A x \in {"a", "b"} \ {a} : adder'[x] = adder[x]
  BY <1>2, <1>3, <1>4
<1>6. \A x \in {"a", "b"} : /\ adder'[x].preexisting = adder[x].preexisting
                            /\ adder'[x].processed = adder[x].processed
  BY <1>2, <1>5
<1>7. Classification'
  <2> SUFFICES ASSUME ByRepository, NEW x \in {"a", "b"}, NEW t \in Source
               PROVE  /\ t \in adder'[x].repository => InRepository(x, t)
                      /\ t \in adder'[x].non_repository =>
                            NotOnlyInRepository(x, t)
                      /\ t \in adder'[x].processed
                               \cup adder'[x].non_repository =>
                            /\ InRepository(x, t) =>
                                  t \in adder'[x].repository
                            /\ NotOnlyInRepository(x, t) =>
                                  t \in adder'[x].non_repository
    BY Frame DEF Classification
  <2>1. CASE x = a
    BY <1>2, <1>5, <2>1
  <2>2. CASE x # a
    BY <1>5, <2>2 DEF IInv, Classification
  <2> QED  BY <2>1, <2>2
<1> QED  BY <1>5, <1>6, <1>7

(* A source that is skipped was not wanted.                                *)
LEMMA SkipSourceStep == ASSUME IInv, SkipSource PROVE IInv'
<1> DEFINE s == Min(todo)
<1>1. /\ pc = "source" /\ todo # {} /\ todo' = todo \ {s} /\ pc' = pc
      /\ UNCHANGED <<command, db, dest, before, producers, names, index,
                     runs>>
  BY DEF SkipSource
<1>2. /\ InRun /\ InRun' /\ InHash /\ InHash' /\ ~InSource /\ ~InSource'
      /\ pc # "done"
  BY <1>1 DEF InRun, InHash, InSource
<1>3. /\ s \in todo /\ s \in Source /\ s \in Selected(producer, hash)
      /\ producer \in Producers /\ producer \in {"a", "b"}
      /\ hash \in Hash /\ hash \in Hashes(db[producer])
  BY <1>1, <1>2, SourceForm
<1>4. \/ s \in adder[producer].preexisting /\ adder' = adder
      \/ /\ ~Accepted(Classified(adder[producer], s, producer), s)
         /\ adder' = [adder EXCEPT
                        ![producer] = Classified(adder[producer], s,
                                                 producer)]
  BY DEF SkipSource
<1>5. ~Wanted(producer, hash, s)
  <2>1. CASE s \in adder[producer].preexisting
    BY <1>3, <2>1 DEF IInv, SkipsPreexisting, Wanted
  <2>2. CASE ~Accepted(Classified(adder[producer], s, producer), s)
    <3>1. ~RepositoryFits(producer, s)
      BY <1>3, <2>2, ClassifyForm DEF IInv
    <3> QED  BY <1>3, <3>1, WantedForm DEF IInv
  <2> QED  BY <1>4, <2>1, <2>2
<1>6. /\ adder' \in [{"a", "b"} -> AdderType]
      /\ \A x \in {"a", "b"} :
            /\ adder'[x].preexisting = adder[x].preexisting
            /\ adder'[x].processed = adder[x].processed
      /\ Classification'
  <2>1. CASE adder' = adder
    <3>1. Classification'
      BY <1>1, <2>1, Frame DEF IInv, Classification
    <3> QED  BY <2>1, <3>1 DEF IInv, TypeOK
  <2>2. CASE adder' = [adder EXCEPT
                         ![producer] = Classified(adder[producer], s,
                                                  producer)]
    <3>1. UNCHANGED <<command, db, before>>
      BY <1>1
    <3> HIDE DEF s
    <3> QED  BY <1>3, <2>2, <3>1, ClassifyStep
  <2> QED  BY <1>4, <2>1, <2>2
<1> HIDE DEF s
<1>7. TypeOK'
  BY <1>1, <1>6 DEF IInv, TypeOK, IsDatabase
<1>8. SkipsPreexisting' /\ Queue' /\ CountedSoFar'
  BY <1>1, <1>2, <1>6, WithinHash
<1>9. AtHand'
  <2>1. Selected(producer, hash)' = Selected(producer, hash)
    BY <1>1, Frame, HashStays
  <2>2. todo' \subseteq Selected(producer, hash)'
    BY <1>1, <1>2, <2>1 DEF IInv, AtHand
  <2> QED  BY <1>1, <1>2, <2>2 DEF AtHand
<1>10. \A a \in Producers, h \in Hash, t \in Source :
          Copies(a, h, t)' <=> Copies(a, h, t)
  <2> SUFFICES ASSUME NEW a \in Producers, NEW h \in Hash, NEW t \in Source,
                      Wanted(a, h, t)
               PROVE  Handled(a, h, t)' <=> Handled(a, h, t)
    BY <1>1, Frame DEF Copies
  <2>1. a = producer /\ h = hash => t # s
    BY <1>5
  <2>2. Selected(a, h)' = Selected(a, h)
        /\ hash' = hash /\ producer' = producer /\ Visited(a)' = Visited(a)
    BY <1>1, Frame, HashStays
  <2>3. Handled(a, h, t) <=> \/ h \in Visited(a)
                             \/ /\ a = producer /\ h = hash
                                /\ t \in Selected(a, h) /\ t \notin todo
    BY <1>2 DEF Handled, Underway
  <2>4. Handled(a, h, t)' <=> \/ h \in Visited(a)
                              \/ /\ a = producer /\ h = hash
                                 /\ t \in Selected(a, h) /\ t \notin todo'
    BY <1>2, <2>2 DEF Handled, Underway
  <2> QED  BY <1>1, <2>1, <2>3, <2>4
<1>11. ExactSoFar'
  BY <1>1, <1>2, <1>10, NothingCopied
<1>12. ProcessedSoFar'
  <2> SUFFICES ASSUME NEW a \in Producers, NEW t \in Source
               PROVE  t \in adder'[a].processed <=>
                         \E h \in Hash : Copies(a, h, t)'
    BY <1>1, <1>2, Frame DEF ProcessedSoFar, Underway
  <2>1. a \in {"a", "b"}
    BY ProducerForm
  <2>2. t \in adder[a].processed <=> \E h \in Hash : Copies(a, h, t)
    BY <1>2 DEF IInv, ProcessedSoFar, Underway
  <2> QED  BY <1>6, <1>10, <2>1, <2>2
<1>13. DescribedSoFar'
  <2>1. \A t : By(t)' = By(t) /\ KeptBy(t)' = KeptBy(t)
    BY <1>1, <1>6, Frame, ProducerForm DEF By, KeptBy
  <2>2. \A t : ~Naming(t) /\ ~Naming(t)'
    BY <1>1 DEF Naming
  <2> QED  BY <1>1, <1>2, <2>1, <2>2, Frame DEF IInv, DescribedSoFar
<1> QED  BY <1>6, <1>7, <1>8, <1>9, <1>11, <1>12, <1>13 DEF IInv

(* A source that the destination did not have has nothing there.           *)
LEMMA NothingBefore ==
    ASSUME TypeOK, NEW s \in Source \ Preexisting
    PROVE  /\ before.data[s] = NoSource /\ before.names[s] = {}
           /\ \A h \in Hash : before.count[h][s] = 0
<1>1. before.data[s] = NoSource
  BY DEF Preexisting
<1>2. IsDatabase(before)
  BY DEF TypeOK
<1> QED  BY <1>1, <1>2 DEF IsDatabase

(* A source that was processed has data.                                   *)
LEMMA ProcessedHasData ==
    ASSUME IInv, InRun, NEW a \in Producers, NEW s \in Source,
           s \in adder[a].processed
    PROVE  s \notin Preexisting /\ SourceData(a, s) # NoSource
<1>1. PICK h \in Hash : Copies(a, h, s)
  BY DEF IInv, ProcessedSoFar
<1>2. Wanted(a, h, s)
  BY <1>1 DEF Copies
<1> QED  BY <1>2, WantedHas DEF IInv

(* What merge_hash does: the wanted source is in the hash after it.        *)
LEMMA AddHashForm ==
    ASSUME IInv, AddHash, NEW s, s = Min(todo)
    PROVE  /\ pc = "source" /\ InRun /\ InHash /\ ~InSource
           /\ InRun' /\ InHash' /\ pc' # "done" /\ pc' # "names"
           /\ UNCHANGED <<command, db, before, producers, names, index>>
           /\ s \in todo /\ s \in Source /\ s \in Selected(producer, hash)
           /\ producer \in Producers /\ producer \in {"a", "b"}
           /\ hash \in Hash
           /\ Wanted(producer, hash, s) /\ RepositoryFits(producer, s)
           /\ SubCount(producer, hash, s) \in Nat \ {0}
           /\ adder' = [adder EXCEPT
                          ![producer] = Classified(adder[producer], s,
                                                   producer)]
           /\ dest' = merge_hash(dest, hash, db[producer].label[hash], s,
                                 SubCount(producer, hash, s))
           /\ ByRepository =>
                 /\ InRepository(producer, s) =>
                       s \in adder'[producer].repository
                 /\ NotOnlyInRepository(producer, s) =>
                       s \in adder'[producer].non_repository
           /\ \/ /\ s \in adder[producer].processed
                 /\ todo' = todo \ {s} /\ ~InSource'
              \/ /\ s \notin adder[producer].processed
                 /\ todo' = todo /\ InSource'
<1>1. /\ pc = "source" /\ todo # {} /\ pc' \in {"source", "data"}
      /\ UNCHANGED <<command, db, before, producers, names, index>>
  BY DEF AddHash
<1>2. /\ InRun /\ InRun' /\ InHash /\ InHash' /\ ~InSource
      /\ pc' # "done" /\ pc' # "names"
  BY <1>1 DEF InRun, InHash, InSource
<1>3. /\ s \in todo /\ s \in Source /\ s \in Selected(producer, hash)
      /\ producer \in Producers /\ producer \in {"a", "b"}
      /\ hash \in Hash /\ hash \in Hashes(db[producer])
  BY <1>1, <1>2, SourceForm
<1>4. PICK r : r = Classified(adder[producer], s, producer)
  OBVIOUS
<1>5. /\ s \notin r.preexisting /\ Accepted(r, s)
      /\ adder' = [adder EXCEPT ![producer] = r]
      /\ dest' = merge_hash(dest, hash, db[producer].label[hash], s,
                            SubCount(producer, hash, s))
      /\ \/ /\ s \in r.processed /\ todo' = todo \ {s} /\ pc' = "source"
         \/ /\ s \notin r.processed /\ todo' = todo /\ pc' = "data"
  BY <1>4 DEF AddHash
<1>6. /\ r.processed = adder[producer].processed
      /\ r.preexisting = adder[producer].preexisting
      /\ Accepted(r, s) <=> RepositoryFits(producer, s)
  BY <1>3, <1>4, ClassifyForm DEF IInv
<1>7. s \notin Preexisting /\ RepositoryFits(producer, s)
  BY <1>3, <1>5, <1>6 DEF IInv, SkipsPreexisting
<1>8. Wanted(producer, hash, s)
  BY <1>3, <1>7, WantedForm DEF IInv
<1>9. SubCount(producer, hash, s) \in Nat \ {0}
  BY <1>3, <1>8, WantedHas DEF IInv
<1>10. \/ /\ s \in adder[producer].processed
          /\ todo' = todo \ {s} /\ ~InSource'
       \/ /\ s \notin adder[producer].processed
          /\ todo' = todo /\ InSource'
  BY <1>5, <1>6 DEF InSource
<1>11. ByRepository =>
          /\ InRepository(producer, s) => s \in adder'[producer].repository
          /\ NotOnlyInRepository(producer, s) =>
                s \in adder'[producer].non_repository
  <2>1. ByRepository =>
           /\ InRepository(producer, s) => s \in r.repository
           /\ NotOnlyInRepository(producer, s) => s \in r.non_repository
    BY <1>3, <1>4, <1>5, ClassifyForm DEF IInv
  <2>2. adder \in [{"a", "b"} -> AdderType]
    BY DEF IInv, TypeOK
  <2>3. adder'[producer] = r
    BY <1>3, <1>5, <2>2
  <2> QED  BY <2>1, <2>3
<1> QED
  BY <1>1, <1>2, <1>3, <1>4, <1>5, <1>7, <1>8, <1>9, <1>10, <1>11

(* merge_hash copies one wanted source, and nothing else.                  *)
LEMMA AddHashStep == ASSUME IInv, AddHash PROVE IInv'
<1> DEFINE s == Min(todo)
           c == SubCount(producer, hash, s)
<1>1. /\ pc = "source" /\ InRun /\ InHash /\ ~InSource
      /\ InRun' /\ InHash' /\ pc' # "done" /\ pc' # "names"
      /\ UNCHANGED <<command, db, before, producers, names, index>>
      /\ s \in todo /\ s \in Source /\ s \in Selected(producer, hash)
      /\ producer \in Producers /\ producer \in {"a", "b"}
      /\ hash \in Hash
      /\ Wanted(producer, hash, s) /\ RepositoryFits(producer, s)
      /\ c \in Nat \ {0}
      /\ dest' = merge_hash(dest, hash, db[producer].label[hash], s, c)
      /\ \/ /\ s \in adder[producer].processed
            /\ todo' = todo \ {s} /\ ~InSource'
         \/ /\ s \notin adder[producer].processed
            /\ todo' = todo /\ InSource'
  BY AddHashForm
<1>2. adder' = [adder EXCEPT ![producer] = Classified(adder[producer], s,
                                                      producer)]
  BY AddHashForm
<1>14. ByRepository =>
          /\ InRepository(producer, s) => s \in adder'[producer].repository
          /\ NotOnlyInRepository(producer, s) =>
                s \in adder'[producer].non_repository
  BY AddHashForm
<1> HIDE DEF s, c
<1>3. /\ adder' \in [{"a", "b"} -> AdderType]
      /\ \A x \in {"a", "b"} :
            /\ adder'[x].preexisting = adder[x].preexisting
            /\ adder'[x].processed = adder[x].processed
      /\ Classification'
  BY <1>1, <1>2, ClassifyStep
<1>4. s \notin Preexisting /\ pc \in {"source"}
  BY <1>1 DEF Wanted
<1>5. /\ IsDatabase(dest') /\ dest'.names = dest.names
      /\ \A k \in Hash, t \in Source : k # hash \/ t # s =>
            dest'.count[k][t] = dest.count[k][t]
      /\ dest'.count[hash][s] = IF dest.count[hash][s] = 0 THEN c
                                ELSE dest.count[hash][s]
      /\ \A t \in Source \ {s} : dest'.data[t] = dest.data[t]
      /\ dest'.data[s] = IF dest.data[s] = NoSource THEN Blank
                         ELSE dest.data[s]
  <2>1. IsDatabase(dest) /\ c \in Nat
    BY <1>1 DEF IInv, TypeOK
  <2> QED  BY <1>1, <2>1, MergeForm
<1>6. TypeOK'
  <2>1. /\ todo' \in SUBSET Source
        /\ pc' \in {"start", "hash", "source", "data", "names", "assert",
                    "done"}
    <3>1. todo \in SUBSET Source
      BY DEF IInv, TypeOK
    <3>2. todo' = todo \ {s} \/ todo' = todo
      BY <1>1
    <3>3. pc' \in {"source", "data"}
      BY DEF AddHash
    <3> QED  BY <3>1, <3>2, <3>3
  <2>2. IsDatabase(db["a"])' /\ IsDatabase(db["b"])' /\ IsDatabase(before)'
    BY <1>1 DEF IInv, TypeOK, IsDatabase
  <2>3. IsDatabase(dest)'
    BY <1>5 DEF IsDatabase
  <2> QED  BY <1>1, <1>3, <2>1, <2>2, <2>3 DEF IInv, TypeOK
<1>7. SkipsPreexisting' /\ Queue' /\ CountedSoFar'
  BY <1>1, <1>3, WithinHash
<1>8. Selected(producer, hash)' = Selected(producer, hash)
      /\ hash' = hash /\ producer' = producer
      /\ (todo' = todo => Min(todo)' = s)
  BY <1>1, Frame, HashStays DEF s
<1>9. AtHand'
  <2>1. InHash' => todo' \subseteq Selected(producer, hash)'
    <3>1. todo \subseteq Selected(producer, hash)
      BY <1>1 DEF IInv, AtHand
    <3>2. todo' \subseteq todo
      BY <1>1
    <3> QED  BY <1>8, <3>1, <3>2
  <2>2. InSource' => /\ todo' # {}
                     /\ Min(todo)' \notin Preexisting'
                     /\ Min(todo)' \notin adder'[producer'].processed
                     /\ RepositoryFits(producer, Min(todo))'
                     /\ (ByRepository => Known(producer, Min(todo)))'
    <3> SUFFICES ASSUME InSource'
                 PROVE  /\ todo' # {} /\ Min(todo)' \notin Preexisting'
                        /\ Min(todo)' \notin adder'[producer'].processed
                        /\ RepositoryFits(producer, Min(todo))'
                        /\ (ByRepository => Known(producer, Min(todo)))'
      OBVIOUS
    <3>1. /\ todo' = todo /\ Min(todo)' = s
          /\ s \notin adder[producer].processed
      BY <1>1, <1>8
    <3>2. RepositoryFits(producer, Min(todo))'
      <4>1. RepositoryFits(producer, s)
        BY <1>1
      <4>2. /\ producer' = producer /\ Min(todo)' = s /\ command' = command
            /\ InRepository(producer, s)' = InRepository(producer, s)
            /\ NotOnlyInRepository(producer, s)'
                  = NotOnlyInRepository(producer, s)
        BY <1>1, <1>8, <3>1 DEF InRepository, NotOnlyInRepository, s
      <4> QED  BY <1>1, <1>8, <3>1, <4>1 DEF RepositoryFits, InRepository,
                                             NotOnlyInRepository
    <3>3. Preexisting' = Preexisting
      BY <1>1, Frame
    <3>4. (ByRepository => Known(producer, Min(todo)))'
      BY <1>1, <1>8, <1>14, <3>1
         DEF ByRepository, Known, InRepository, NotOnlyInRepository
    <3> QED  BY <1>1, <1>3, <1>4, <1>8, <3>1, <3>2, <3>3, <3>4
  <2> QED  BY <1>1, <2>1, <2>2 DEF AtHand
<1>10. \A a \in Producers, h \in Hash, t \in Source :
          Copies(a, h, t)' <=> \/ Copies(a, h, t)
                               \/ a = producer /\ h = hash /\ t = s
  <2> SUFFICES ASSUME NEW a \in Producers, NEW h \in Hash, NEW t \in Source
               PROVE  Copies(a, h, t)' <=>
                         \/ Copies(a, h, t)
                         \/ a = producer /\ h = hash /\ t = s
    OBVIOUS
  <2>1. /\ Selected(a, h)' = Selected(a, h) /\ Visited(a)' = Visited(a)
        /\ Wanted(a, h, t)' = Wanted(a, h, t)
    BY <1>1, Frame, HashStays
  <2>2. Handled(a, h, t) <=> \/ h \in Visited(a)
                             \/ /\ a = producer /\ h = hash
                                /\ t \in Selected(a, h) /\ t \notin todo
    BY <1>1 DEF Handled, Underway
  <2>3. Handled(a, h, t)' <=>
           \/ h \in Visited(a)
           \/ /\ a = producer /\ h = hash /\ t \in Selected(a, h)
              /\ t \notin todo \/ t = s
    <3>1. CASE todo' = todo \ {s} /\ ~InSource'
      BY <1>1, <1>8, <2>1, <3>1 DEF Handled, Underway
    <3>2. CASE todo' = todo /\ InSource'
      <4>1. Underway(a, t)' <=> a = producer /\ t = s
        BY <1>8, <3>2 DEF Underway
      <4> QED  BY <1>1, <1>8, <2>1, <3>2, <4>1 DEF Handled
    <3> QED  BY <1>1, <3>1, <3>2
  <2> QED  BY <1>1, <2>1, <2>2, <2>3 DEF Copies
<1>11. ExactSoFar'
  <2> SUFFICES ASSUME NEW h \in Hash, NEW t \in Source
               PROVE  \/ /\ dest'.count[h][t] = before'.count[h][t]
                         /\ \A a \in Producers' : ~Copies(a, h, t)'
                      \/ /\ before'.count[h][t] = 0
                         /\ \E a \in Producers' :
                              /\ Copies(a, h, t)'
                              /\ dest'.count[h][t] = SubCount(a, h, t)'
    BY DEF ExactSoFar
  <2>1. \/ /\ dest.count[h][t] = before.count[h][t]
           /\ \A a \in Producers : ~Copies(a, h, t)
        \/ /\ before.count[h][t] = 0
           /\ \E a \in Producers :
                Copies(a, h, t) /\ dest.count[h][t] = SubCount(a, h, t)
    BY <1>1 DEF IInv, ExactSoFar
  <2>2. Producers' = Producers /\ before' = before
        /\ \A a \in Producers : SubCount(a, h, t)' = SubCount(a, h, t)
    BY <1>1, Frame
  <2>3. CASE h = hash /\ t = s
    <3>1. before.count[h][t] = 0
      <4>1. s \in Source \ Preexisting
        BY <1>1, <1>4
      <4> QED  BY <2>3, <4>1, NothingBefore DEF IInv
    <3>2. CASE dest.count[h][t] = 0
      <4>1. dest'.count[h][t] = c
        BY <1>5, <2>3, <3>2
      <4>2. dest'.count[h][t] = SubCount(producer, h, t)
        BY <2>3, <4>1 DEF c
      <4> QED  BY <1>1, <1>10, <2>2, <2>3, <3>1, <4>2
    <3>3. CASE dest.count[h][t] # 0
      BY <1>5, <1>10, <2>1, <2>2, <2>3, <3>1, <3>3
    <3> QED  BY <3>2, <3>3
  <2>4. CASE h # hash \/ t # s
    <3>1. dest'.count[h][t] = dest.count[h][t]
      BY <1>5, <2>4
    <3> QED  BY <1>10, <2>1, <2>2, <2>4, <3>1
  <2> QED  BY <2>3, <2>4
<1>12. ProcessedSoFar'
  <2> SUFFICES ASSUME NEW a \in Producers, NEW t \in Source
               PROVE  t \in adder'[a].processed <=>
                         (\E h \in Hash : Copies(a, h, t)')
                         /\ ~Underway(a, t)'
    BY <1>1, Frame DEF ProcessedSoFar
  <2>1. a \in {"a", "b"} /\ adder'[a].processed = adder[a].processed
    BY <1>3, ProducerForm
  <2>2. t \in adder[a].processed <=> \E h \in Hash : Copies(a, h, t)
    BY <1>1 DEF IInv, ProcessedSoFar, Underway
  <2>3. Underway(a, t)' <=> InSource' /\ a = producer /\ t = s
    BY <1>1, <1>8 DEF Underway
  <2>4. CASE a = producer /\ t = s
    BY <1>1, <1>10, <2>1, <2>3, <2>4
  <2>5. CASE ~ (a = producer /\ t = s)
    BY <1>10, <2>1, <2>2, <2>3, <2>5
  <2> QED  BY <2>4, <2>5
<1>13. DescribedSoFar'
  <2>1. \A t : By(t)' = By(t) /\ KeptBy(t)' = KeptBy(t)
    <3>1. \A t : By(t)' = By(t)
      BY <1>1, <1>3, Frame, ProducerForm DEF By
    <3> QED  BY <1>1, <3>1, Frame DEF KeptBy
  <2>2. \A t : ~Naming(t) /\ ~Naming(t)'
    BY <1>1 DEF Naming
  <2>3. \A t \in Source \ Preexisting : By(t) # {} =>
           dest.data[t] \in {SourceData(a, t) : a \in By(t)}
    BY <1>1, <2>2 DEF IInv, DescribedSoFar
  <2>4. \A t \in Source \ Preexisting : By(t) # {} =>
           dest'.data[t] = dest.data[t]
    <3> SUFFICES ASSUME NEW t \in Source \ Preexisting, By(t) # {}
                 PROVE  dest'.data[t] = dest.data[t]
      OBVIOUS
    <3>1. PICK a \in By(t) : dest.data[t] = SourceData(a, t)
      BY <2>3
    <3>2. a \in Producers /\ t \in adder[a].processed
      BY <3>1 DEF By
    <3>3. dest.data[t] # NoSource
      BY <1>1, <3>1, <3>2, ProcessedHasData
    <3> QED  BY <1>1, <1>5, <3>3
  <2>5. /\ Preexisting' = Preexisting
        /\ \A a, t : /\ NamesKept(a, t)' = NamesKept(a, t)
                     /\ SourceData(a, t)' = SourceData(a, t)
    BY <1>1, Frame
  <2> SUFFICES ASSUME NEW t \in Source \ Preexisting
               PROVE  /\ dest'.names[t] = KeptBy(t)
                      /\ By(t) # {} =>
                           dest'.data[t] \in {SourceData(a, t) : a \in By(t)}
    BY <2>1, <2>2, <2>5 DEF DescribedSoFar
  <2>6. dest.names[t] = KeptBy(t)
    BY <1>1, <2>2 DEF IInv, DescribedSoFar
  <2> QED  BY <1>5, <2>3, <2>4, <2>6
<1> QED  BY <1>3, <1>6, <1>7, <1>9, <1>11, <1>12, <1>13 DEF IInv

(* The source data and the names of the source that was just added.        *)
LEMMA AddSourceDataStep == ASSUME IInv, AddSourceData PROVE IInv'
<1> DEFINE s == Min(todo)
<1>1. /\ pc = "data" /\ pc' \in {"assert", "names"}
      /\ dest' = insert_source_data(dest, s, SourceData(producer, s))
      /\ names' = NamesToAdd(producer, s)
      /\ UNCHANGED <<command, db, before, adder, producers, todo, index>>
  BY DEF AddSourceData
<1>2. /\ InRun /\ InHash /\ InSource
      /\ pc' = "names" => InRun' /\ InHash' /\ InSource' /\ pc' # "done"
      /\ pc' # "names" => ~InRun' /\ ~InHash' /\ ~InSource'
  BY <1>1 DEF InRun, InHash, InSource
<1>3. /\ todo # {} /\ s \notin Preexisting
      /\ s \notin adder[producer].processed
      /\ RepositoryFits(producer, s)
      /\ ByRepository => Known(producer, s)
  BY <1>2 DEF IInv, AtHand
<1>4. /\ s \in todo /\ s \in Source /\ s \in Selected(producer, hash)
      /\ producer \in Producers /\ producer \in {"a", "b"}
      /\ hash \in Hash /\ hash \in Hashes(db[producer])
  BY <1>2, <1>3, SourceForm
<1>5. SourceData(producer, s) # NoSource
  <2>1. Wanted(producer, hash, s)
    BY <1>3, <1>4, WantedForm DEF IInv
  <2> QED  BY <1>4, <2>1, WantedHas DEF IInv
<1>6. /\ hash' = hash /\ producer' = producer /\ Min(todo)' = s
      /\ \A a : Visited(a)' = Visited(a)
  BY <1>1, HashStays
<1> HIDE DEF s
<1>7. /\ IsDatabase(dest') /\ dest'.names = dest.names
      /\ dest'.count = dest.count
      /\ dest'.data[s] = SourceData(producer, s)
      /\ \A t \in Source \ {s} : dest'.data[t] = dest.data[t]
  <2>1. IsDatabase(dest)
    BY DEF IInv, TypeOK
  <2> QED  BY <1>1, <1>4, <1>5, <2>1, DataForm
<1>8. TypeOK'
  <2>1. names' \in SUBSET Name
    BY <1>1, <1>4, NamesForm DEF IInv
  <2>2. IsDatabase(db["a"])' /\ IsDatabase(db["b"])' /\ IsDatabase(before)'
    BY <1>1 DEF IInv, TypeOK, IsDatabase
  <2>3. IsDatabase(dest)'
    BY <1>7 DEF IsDatabase
  <2> QED  BY <1>1, <2>1, <2>2, <2>3 DEF IInv, TypeOK
<1>9. SkipsPreexisting' /\ Queue' /\ CountedSoFar'
  <2>1. CASE pc' = "names"
    BY <1>1, <1>2, <2>1, WithinHash
  <2>2. CASE pc' # "names"
    BY <1>1, <1>2, <2>2, Frame
       DEF IInv, SkipsPreexisting, Queue, CountedSoFar
  <2> QED  BY <2>1, <2>2
<1>10. Classification'
  BY <1>1, Frame DEF IInv, Classification
<1>11. AtHand'
  <2>1. CASE pc' # "names"
    BY <1>2, <2>1 DEF AtHand
  <2>2. CASE pc' = "names"
    <3>1. /\ Selected(producer, hash)' = Selected(producer, hash)
          /\ NamesToAdd(producer, Min(todo))' = NamesToAdd(producer, s)
          /\ RepositoryFits(producer, Min(todo))'
                <=> RepositoryFits(producer, s)
          /\ Preexisting' = Preexisting /\ ByRepository' = ByRepository
          /\ Known(producer, Min(todo))' <=> Known(producer, s)
      BY <1>1, <1>6, Frame DEF Known
    <3>2. todo \subseteq Selected(producer, hash)
      BY <1>2 DEF IInv, AtHand
    <3> QED  BY <1>1, <1>3, <1>6, <3>1, <3>2 DEF AtHand
  <2> QED  BY <2>1, <2>2
<1>12. CASE pc' # "names"
  <2>1. ExactSoFar' /\ ProcessedSoFar' /\ DescribedSoFar'
    BY <1>2, <1>12 DEF ExactSoFar, ProcessedSoFar, DescribedSoFar
  <2> QED  BY <1>8, <1>9, <1>10, <1>11, <2>1 DEF IInv
<1>13. CASE pc' = "names"
  <2>1. \A a, t : Underway(a, t)' <=> Underway(a, t)
    BY <1>1, <1>2, <1>6, <1>13 DEF Underway, s
  <2>2. \A a \in Producers, h \in Hash, t \in Source :
           Copies(a, h, t)' <=> Copies(a, h, t)
    BY <1>1, <1>2, <1>6, <1>13, <2>1, Frame DEF Copies, Handled
  <2>3. ExactSoFar'
    BY <1>1, <1>2, <1>7, <2>2, NothingCopied
  <2>4. ProcessedSoFar'
    BY <1>1, <1>2, <2>1, <2>2, Frame DEF IInv, ProcessedSoFar
  <2>5. DescribedSoFar'
    <3>1. \A t : By(t)' = By(t) /\ KeptBy(t)' = KeptBy(t)
      BY <1>1, Frame DEF By, KeptBy
    <3>2. /\ Preexisting' = Preexisting
          /\ \A a, t : /\ NamesKept(a, t)' = NamesKept(a, t)
                       /\ NamesToAdd(a, t)' = NamesToAdd(a, t)
                       /\ SourceData(a, t)' = SourceData(a, t)
      BY <1>1, Frame
    <3>3. \A t : ~Naming(t) /\ (Naming(t)' <=> t = s)
      BY <1>1, <1>6, <1>13 DEF Naming
    <3>4. \A t \in Source \ Preexisting :
             /\ dest.names[t] = KeptBy(t)
             /\ By(t) # {} =>
                   dest.data[t] \in {SourceData(a, t) : a \in By(t)}
      BY <1>2, <3>3 DEF IInv, DescribedSoFar
    <3>5. NamesToAdd(producer, s) \ names' = {}
      BY <1>1
    <3> SUFFICES ASSUME NEW t \in Source \ Preexisting
                 PROVE  /\ dest'.names[t] =
                              KeptBy(t)
                              \cup (IF t = s
                                    THEN NamesToAdd(producer, t) \ names'
                                    ELSE {})
                        /\ IF t = s
                           THEN dest'.data[t] = SourceData(producer, t)
                           ELSE By(t) # {} =>
                                 dest'.data[t] \in
                                    {SourceData(a, t) : a \in By(t)}
      BY <1>6, <3>1, <3>2, <3>3 DEF DescribedSoFar
    <3> QED  BY <1>7, <3>4, <3>5
  <2> QED  BY <1>8, <1>9, <1>10, <1>11, <2>3, <2>4, <2>5 DEF IInv
<1> QED  BY <1>12, <1>13

(* Each name of the source at hand is added once it is described.          *)
LEMMA AddSourceNameStep == ASSUME IInv, AddSourceName PROVE IInv'
<1> DEFINE s == Min(todo)
           x == Min(names)
<1>1. /\ pc = "names" /\ pc' = "names" /\ names # {}
      /\ dest' = insert_source_name(dest, s, x) /\ names' = names \ {x}
      /\ UNCHANGED <<command, db, before, adder, producers, todo, index>>
  BY DEF AddSourceName
<1>2. /\ InRun /\ InHash /\ InSource /\ InRun' /\ InHash' /\ InSource'
      /\ pc # "done" /\ pc' # "done"
  BY <1>1 DEF InRun, InHash, InSource
<1>3. /\ todo # {} /\ s \notin Preexisting
      /\ names \subseteq NamesToAdd(producer, s)
  BY <1>1, <1>2 DEF IInv, AtHand
<1>4. /\ s \in Source /\ producer \in Producers
  BY <1>2, <1>3, SourceForm
<1>5. x \in names /\ x \in Name
  <2>1. names \in SUBSET Name /\ Name \in SUBSET Nat
    BY CopyAssumption DEF IInv, TypeOK
  <2> QED  BY <1>1, <2>1, MinForm
<1>6. /\ hash' = hash /\ producer' = producer /\ Min(todo)' = s
      /\ \A a : Visited(a)' = Visited(a)
  BY <1>1, HashStays
<1> HIDE DEF s, x
<1>7. \A t : (Naming(t) <=> t = s) /\ (Naming(t)' <=> t = s)
  BY <1>1, <1>6 DEF Naming, s
<1>8. dest.data[s] = SourceData(producer, s) /\ dest.data[s] # NoSource
  <2>1. dest.data[s] = SourceData(producer, s)
    BY <1>2, <1>3, <1>4, <1>7 DEF IInv, DescribedSoFar
  <2>2. Wanted(producer, hash, s)
    <3>1. /\ RepositoryFits(producer, s) /\ s \in Selected(producer, hash)
          /\ hash \in Hashes(db[producer])
      BY <1>2, <1>3, SourceForm DEF IInv, AtHand, s
    <3> QED  BY <1>3, <1>4, <3>1, WantedForm DEF IInv
  <2>3. hash \in Hash
    BY <1>2, <1>3, SourceForm
  <2>4. SourceData(producer, s) # NoSource
    BY <1>4, <2>2, <2>3, WantedHas DEF IInv
  <2> QED  BY <2>1, <2>4
<1>9. /\ IsDatabase(dest') /\ dest'.data = dest.data
      /\ dest'.count = dest.count
      /\ dest'.names[s] = dest.names[s] \cup {x}
      /\ \A t \in Source \ {s} : dest'.names[t] = dest.names[t]
  <2>1. IsDatabase(dest)
    BY DEF IInv, TypeOK
  <2> QED  BY <1>1, <1>4, <1>5, <1>8, <2>1, NameForm
<1>10. TypeOK'
  <2>1. names' \in SUBSET Name
    BY <1>1 DEF IInv, TypeOK
  <2>2. IsDatabase(db["a"])' /\ IsDatabase(db["b"])' /\ IsDatabase(before)'
    BY <1>1 DEF IInv, TypeOK, IsDatabase
  <2>3. IsDatabase(dest)'
    BY <1>9 DEF IsDatabase
  <2> QED  BY <1>1, <2>1, <2>2, <2>3 DEF IInv, TypeOK
<1>11. SkipsPreexisting' /\ Queue' /\ CountedSoFar'
  BY <1>1, <1>2, WithinHash
<1>12. Classification'
  BY <1>1, Frame DEF IInv, Classification
<1>13. AtHand'
  <2>1. /\ Selected(producer, hash)' = Selected(producer, hash)
        /\ NamesToAdd(producer, Min(todo))' = NamesToAdd(producer, s)
        /\ RepositoryFits(producer, Min(todo))'
              <=> RepositoryFits(producer, s)
        /\ Preexisting' = Preexisting /\ ByRepository' = ByRepository
        /\ Known(producer, Min(todo))' <=> Known(producer, s)
    BY <1>1, <1>6, Frame DEF Known
  <2>2. /\ todo \subseteq Selected(producer, hash)
        /\ RepositoryFits(producer, s)
        /\ ByRepository => Known(producer, s)
        /\ s \notin adder[producer].processed
    BY <1>2 DEF IInv, AtHand, s
  <2> QED  BY <1>1, <1>3, <1>6, <2>1, <2>2 DEF AtHand
<1>14. \A a, t : Underway(a, t)' <=> Underway(a, t)
  BY <1>2, <1>6 DEF Underway, s
<1>15. \A a \in Producers, h \in Hash, t \in Source :
          Copies(a, h, t)' <=> Copies(a, h, t)
  BY <1>1, <1>2, <1>6, <1>14, Frame DEF Copies, Handled
<1>16. ExactSoFar'
  BY <1>1, <1>2, <1>9, <1>15, NothingCopied
<1>17. ProcessedSoFar'
  BY <1>1, <1>2, <1>14, <1>15, Frame DEF IInv, ProcessedSoFar
<1>18. DescribedSoFar'
  <2>1. \A t : By(t)' = By(t) /\ KeptBy(t)' = KeptBy(t)
    BY <1>1, Frame DEF By, KeptBy
  <2>2. /\ Preexisting' = Preexisting
        /\ \A a, t : /\ NamesKept(a, t)' = NamesKept(a, t)
                     /\ NamesToAdd(a, t)' = NamesToAdd(a, t)
                     /\ SourceData(a, t)' = SourceData(a, t)
    BY <1>1, Frame
  <2>3. \A t \in Source \ Preexisting :
           /\ dest.names[t] = KeptBy(t)
                              \cup (IF t = s
                                    THEN NamesToAdd(producer, t) \ names
                                    ELSE {})
           /\ IF t = s THEN dest.data[t] = SourceData(producer, t)
              ELSE By(t) # {} =>
                      dest.data[t] \in {SourceData(a, t) : a \in By(t)}
    BY <1>2, <1>7 DEF IInv, DescribedSoFar
  <2>4. NamesToAdd(producer, s) \ names'
           = (NamesToAdd(producer, s) \ names) \cup {x}
    BY <1>1, <1>3, <1>5
  <2> SUFFICES ASSUME NEW t \in Source \ Preexisting
               PROVE  /\ dest'.names[t] =
                            KeptBy(t)
                            \cup (IF t = s
                                  THEN NamesToAdd(producer, t) \ names'
                                  ELSE {})
                      /\ IF t = s
                         THEN dest'.data[t] = SourceData(producer, t)
                         ELSE By(t) # {} =>
                               dest'.data[t] \in
                                  {SourceData(a, t) : a \in By(t)}
    BY <1>6, <1>7, <2>1, <2>2 DEF DescribedSoFar
  <2>5. CASE t = s
    <3>1. PICK u, v, w : /\ u = KeptBy(t)
                         /\ v = NamesToAdd(producer, t) \ names
                         /\ w = NamesToAdd(producer, t) \ names'
      OBVIOUS
    <3>2. dest.names[t] = u \cup v /\ w = v \cup {x}
      BY <2>3, <2>4, <2>5, <3>1
    <3>3. dest'.names[t] = dest.names[t] \cup {x}
      BY <1>9, <2>5
    <3>4. dest'.names[t] = u \cup w
      BY <3>2, <3>3
    <3>5. dest'.data[t] = SourceData(producer, t)
      BY <1>9, <2>3, <2>5
    <3> QED  BY <2>5, <3>1, <3>4, <3>5
  <2>6. CASE t # s
    BY <1>9, <2>3, <2>6
  <2> QED  BY <2>5, <2>6
<1> QED  BY <1>10, <1>11, <1>12, <1>13, <1>16, <1>17, <1>18 DEF IInv

(* A source is processed when its names are there.                         *)
LEMMA SourceProcessedStep == ASSUME IInv, SourceProcessed PROVE IInv'
<1> DEFINE s == Min(todo)
<1>1. /\ pc = "names" /\ pc' = "source" /\ names = {}
      /\ adder' = [adder EXCEPT ![producer].processed = @ \cup {s}]
      /\ todo' = todo \ {s}
      /\ UNCHANGED <<command, db, dest, before, producers, names, index>>
  BY DEF SourceProcessed
<1>2. /\ InRun /\ InHash /\ InSource /\ InRun' /\ InHash' /\ ~InSource'
      /\ pc # "done" /\ pc' # "done"
  BY <1>1 DEF InRun, InHash, InSource
<1>3. /\ todo # {} /\ s \notin Preexisting
      /\ todo \subseteq Selected(producer, hash)
      /\ RepositoryFits(producer, s)
      /\ ByRepository => Known(producer, s)
  BY <1>2 DEF IInv, AtHand
<1>4. /\ s \in todo /\ s \in Source /\ s \in Selected(producer, hash)
      /\ producer \in Producers /\ producer \in {"a", "b"}
      /\ hash \in Hash /\ hash \in Hashes(db[producer])
  BY <1>2, <1>3, SourceForm
<1>5. /\ hash' = hash /\ producer' = producer
      /\ \A a : Visited(a)' = Visited(a)
  BY <1>1, HashStays
<1>6. \A t : (Naming(t) <=> t = s) /\ ~Naming(t)'
  BY <1>1 DEF Naming
<1>7. \A a, t : /\ Underway(a, t) <=> a = producer /\ t = s
                /\ ~Underway(a, t)'
  BY <1>2 DEF Underway
<1> HIDE DEF s
<1>8. /\ adder' \in [{"a", "b"} -> AdderType]
      /\ \A a \in {"a", "b"} :
            /\ adder'[a].preexisting = adder[a].preexisting
            /\ adder'[a].repository = adder[a].repository
            /\ adder'[a].non_repository = adder[a].non_repository
            /\ \A t : t \in adder'[a].processed <=>
                         \/ t \in adder[a].processed
                         \/ a = producer /\ t = s
  <2>1. adder \in [{"a", "b"} -> AdderType]
    BY DEF IInv, TypeOK
  <2>2. PICK y : y = adder[producer].processed \cup {s}
    OBVIOUS
  <2>3. PICK r : r = [adder[producer] EXCEPT !.processed = y]
    OBVIOUS
  <2>4. adder' = [adder EXCEPT ![producer] = r]
    BY <1>1, <1>4, <2>1, <2>2, <2>3
  <2>5. adder[producer] \in AdderType /\ y \in SUBSET Source
    BY <1>4, <2>1, <2>2 DEF AdderType
  <2>6. /\ r \in AdderType /\ r.processed = y
        /\ r.preexisting = adder[producer].preexisting
        /\ r.repository = adder[producer].repository
        /\ r.non_repository = adder[producer].non_repository
    BY <2>3, <2>5 DEF AdderType
  <2>7. /\ adder' \in [{"a", "b"} -> AdderType] /\ adder'[producer] = r
        /\ \A a \in {"a", "b"} \ {producer} : adder'[a] = adder[a]
    BY <1>4, <2>1, <2>4, <2>6
  <2> QED  BY <2>2, <2>6, <2>7
<1>9. TypeOK'
  <2>1. todo' \in SUBSET Source
    BY <1>1 DEF IInv, TypeOK
  <2>2. /\ IsDatabase(db["a"])' /\ IsDatabase(db["b"])'
        /\ IsDatabase(before)' /\ IsDatabase(dest)'
    BY <1>1 DEF IInv, TypeOK, IsDatabase
  <2> QED  BY <1>1, <1>8, <2>1, <2>2 DEF IInv, TypeOK
<1>10. SkipsPreexisting' /\ Queue' /\ CountedSoFar'
  BY <1>1, <1>2, <1>8, WithinHash
<1>11. \A a \in Producers, h \in Hash, t \in Source :
          Copies(a, h, t)' <=> Copies(a, h, t)
  <2> SUFFICES ASSUME NEW a \in Producers, NEW h \in Hash, NEW t \in Source
               PROVE  Handled(a, h, t)' <=> Handled(a, h, t)
    BY <1>1, Frame DEF Copies
  <2>1. Selected(a, h)' = Selected(a, h)
    BY <1>1, Frame
  <2>2. Handled(a, h, t) <=>
           \/ h \in Visited(a)
           \/ /\ a = producer /\ h = hash /\ t \in Selected(a, h)
              /\ t \notin todo \/ t = s
    BY <1>2, <1>7 DEF Handled
  <2>3. Handled(a, h, t)' <=>
           \/ h \in Visited(a)
           \/ /\ a = producer /\ h = hash /\ t \in Selected(a, h)
              /\ t \notin todo'
    BY <1>2, <1>5, <1>7, <2>1 DEF Handled
  <2> QED  BY <1>1, <2>2, <2>3
<1>12. Copies(producer, hash, s)
  <2>1. Wanted(producer, hash, s)
    BY <1>3, <1>4, WantedForm DEF IInv
  <2>2. Handled(producer, hash, s)
    BY <1>2, <1>4, <1>7 DEF Handled
  <2> QED  BY <2>1, <2>2 DEF Copies
<1>13. Classification'
  <2> SUFFICES ASSUME ByRepository, NEW a \in {"a", "b"}, NEW t \in Source
               PROVE  /\ t \in adder'[a].repository => InRepository(a, t)
                      /\ t \in adder'[a].non_repository =>
                            NotOnlyInRepository(a, t)
                      /\ t \in adder'[a].processed
                               \cup adder'[a].non_repository =>
                            /\ InRepository(a, t) =>
                                  t \in adder'[a].repository
                            /\ NotOnlyInRepository(a, t) =>
                                  t \in adder'[a].non_repository
    BY <1>1, Frame DEF Classification
  <2>1. CASE a = producer /\ t = s
    BY <1>3, <1>8, <2>1 DEF IInv, Classification, Known
  <2>2. CASE ~ (a = producer /\ t = s)
    BY <1>8, <2>2 DEF IInv, Classification
  <2> QED  BY <2>1, <2>2
<1>14. AtHand'
  <2>1. Selected(producer, hash)' = Selected(producer, hash)
    BY <1>1, <1>5, Frame
  <2>2. todo' \subseteq Selected(producer, hash)'
    BY <1>1, <1>3, <2>1
  <2> QED  BY <1>1, <1>2, <2>2 DEF AtHand
<1>15. ExactSoFar'
  BY <1>1, <1>2, <1>11, NothingCopied
<1>16. ProcessedSoFar'
  <2> SUFFICES ASSUME NEW a \in Producers, NEW t \in Source
               PROVE  t \in adder'[a].processed <=>
                         \E h \in Hash : Copies(a, h, t)'
    BY <1>1, <1>2, <1>7, Frame DEF ProcessedSoFar
  <2>1. a \in {"a", "b"}
    BY ProducerForm
  <2>2. t \in adder[a].processed <=>
           /\ \E h \in Hash : Copies(a, h, t)
           /\ ~ (a = producer /\ t = s)
    BY <1>2, <1>7 DEF IInv, ProcessedSoFar
  <2>3. CASE a = producer /\ t = s
    BY <1>4, <1>8, <1>11, <1>12, <2>3
  <2>4. CASE ~ (a = producer /\ t = s)
    BY <1>8, <1>11, <2>1, <2>2, <2>4
  <2> QED  BY <2>3, <2>4
<1>17. DescribedSoFar'
  <2>1. \A t : By(t)' = IF t = s THEN By(t) \cup {producer} ELSE By(t)
    <3> SUFFICES ASSUME NEW t
                 PROVE  \A a \in Producers :
                           t \in adder'[a].processed <=>
                              \/ t \in adder[a].processed
                              \/ a = producer /\ t = s
      BY <1>1, <1>4, Frame DEF By
    <3> QED  BY <1>8, ProducerForm
  <2>2. /\ Preexisting' = Preexisting
        /\ \A a, t : /\ NamesKept(a, t)' = NamesKept(a, t)
                     /\ SourceData(a, t)' = SourceData(a, t)
    BY <1>1, Frame
  <2>3. \A t \in Source \ Preexisting :
           /\ dest.names[t] = KeptBy(t)
                              \cup (IF t = s
                                    THEN NamesToAdd(producer, t) \ names
                                    ELSE {})
           /\ IF t = s THEN dest.data[t] = SourceData(producer, t)
              ELSE By(t) # {} =>
                      dest.data[t] \in {SourceData(a, t) : a \in By(t)}
    BY <1>2, <1>6 DEF IInv, DescribedSoFar
  <2> SUFFICES ASSUME NEW t \in Source \ Preexisting
               PROVE  /\ dest.names[t] =
                            KeptBy(t)'
                      /\ By(t)' # {} =>
                            dest.data[t] \in
                               {SourceData(a, t) : a \in By(t)'}
    BY <1>1, <1>6, <2>2 DEF DescribedSoFar
  <2>4. \A x : x \in KeptBy(t) <=> \E a \in By(t) : x \in NamesKept(a, t)
    BY DEF KeptBy
  <2>5. \A x : x \in KeptBy(t)' <=> \E a \in By(t)' : x \in NamesKept(a, t)
    BY <2>2 DEF KeptBy
  <2>6. CASE t = s
    <3>1. By(t)' = By(t) \cup {producer}
      BY <2>1, <2>6
    <3>2. NamesToAdd(producer, t) \ names = NamesKept(producer, t)
      BY <1>1, <1>4, <2>6, NamesForm DEF IInv
    <3>3. dest.names[t] = KeptBy(t) \cup NamesKept(producer, t)
      BY <2>3, <2>6, <3>2
    <3>4. KeptBy(t)' = KeptBy(t) \cup NamesKept(producer, t)
      BY <2>4, <2>5, <3>1
    <3>5. dest.data[t] = SourceData(producer, t)
      BY <2>3, <2>6
    <3> QED  BY <3>1, <3>3, <3>4, <3>5
  <2>7. CASE t # s
    <3>1. By(t)' = By(t) /\ KeptBy(t)' = KeptBy(t)
      BY <2>1, <2>4, <2>5, <2>7
    <3> QED  BY <2>3, <2>7, <3>1
  <2> QED  BY <2>6, <2>7
<1> QED  BY <1>9, <1>10, <1>8, <1>13, <1>14, <1>15, <1>16, <1>17 DEF IInv

(* The producer at hand moves to its next hash, or leaves the multimap.    *)
LEMMA AdvanceForm ==
    ASSUME TypeOK, Queue, InRun, pc # "done", NEW rest,
           rest = Advance(Tail(producers), producer, hash), NEW next,
           next = next_hash(db[producer], hash)
    PROVE  /\ rest \in Seq(Entry) /\ Lone(rest)
           /\ \A f : f \in Entries(rest) <=>
                        \/ /\ f \in Entries(producers)
                           /\ f[2] # producer
                        \/ next # 0 /\ f = <<next, producer>>
           /\ \A f \in Entries(producers) :
                 f[2] = producer => f = <<hash, producer>>
<1> DEFINE q == Tail(producers)
<1>1. /\ producers \in Seq(Entry) /\ producers # <<>> /\ Lone(producers)
      /\ producer \in {"a", "b"}
  BY AtHandForm DEF TypeOK, Queue
<1>2. /\ q \in Seq(Entry) /\ Lone(q)
      /\ Head(producers) \in Entry
      /\ Entries(q) = Entries(producers) \ {Head(producers)}
      /\ \A f \in Entries(q) : f[2] # producer
  BY <1>1, TailForm DEF producer
<1>3. Head(producers) = <<hash, producer>>
  BY <1>2 DEF Entry, hash, producer
<1>4. \A f \in Entries(producers) :
         f[2] = producer => f = <<hash, producer>>
  BY <1>2, <1>3
<1> HIDE DEF q
<1>5. \A f : f \in Entries(q) <=> f \in Entries(producers)
                                  /\ f[2] # producer
  BY <1>2, <1>3, <1>4
<1>6. CASE next = 0
  <2>1. rest = q
    BY <1>6 DEF Advance, q
  <2> QED  BY <1>2, <1>4, <1>5, <1>6, <2>1
<1>7. CASE next # 0
  <2> DEFINE e == <<next, producer>>
  <2>1. rest = Enqueue(q, e)
    BY <1>7 DEF Advance, q
  <2>2. e \in Entry /\ e[2] = producer
    BY <1>1, <1>7, NextForm DEF Entry, Hashes
  <2> HIDE DEF e
  <2>3. /\ Enqueue(q, e) \in Seq(Entry) /\ Lone(Enqueue(q, e))
        /\ Entries(Enqueue(q, e)) = Entries(q) \cup {e}
    BY <1>2, <2>2, EnqueueForm
  <2>4. \A f : f \in Entries(rest) <=> f \in Entries(q) \/ f = e
    BY <2>1, <2>3
  <2> QED  BY <1>4, <1>5, <1>7, <2>1, <2>3, <2>4 DEF e
<1> QED  BY <1>6, <1>7

(* It has been through one more hash.                                      *)
LEMMA VisitedGrows ==
    ASSUME IInv, NextHash, NEW p, p = producer, NEW g, g = hash
    PROVE  /\ Visited(p)' = Visited(p) \cup {g}
           /\ g \in Hashes(db[p]) /\ g \notin Visited(p)
           /\ \A a : a # p => Visited(a)' = Visited(a)
<1>1. /\ pc = "source" /\ UNCHANGED db
      /\ producers' = Advance(Tail(producers), producer, hash)
  BY DEF NextHash
<1>2. InRun /\ pc # "done"
  BY <1>1 DEF InRun
<1>3. /\ g \in Hash /\ p \in {"a", "b"} /\ g \in Hashes(db[p])
      /\ <<g, p>> \in Entries(producers)
  BY <1>2, AtHandForm DEF IInv
<1>4. PICK next : next = next_hash(db[p], g)
  OBVIOUS
<1>5. PICK rest : rest = producers'
  OBVIOUS
<1>6. /\ \A f : f \in Entries(rest) <=>
                   \/ f \in Entries(producers) /\ f[2] # p
                   \/ next # 0 /\ f = <<next, p>>
      /\ \A f \in Entries(producers) : f[2] = p => f = <<g, p>>
  <2>1. rest = Advance(Tail(producers), producer, hash)
        /\ next = next_hash(db[producer], hash)
    BY <1>1, <1>4, <1>5
  <2> QED  BY <1>2, <2>1, AdvanceForm DEF IInv
<1>7. \A a, h : h \in Visited(a)' <=>
                   /\ h \in Hashes(db[a])
                   /\ \A e \in Entries(rest) : e[2] = a => h < e[1]
  BY <1>1, <1>5 DEF Visited, Hashes, sources, Entries
<1>8. \A a, h : h \in Visited(a) <=>
                   /\ h \in Hashes(db[a])
                   /\ \A e \in Entries(producers) : e[2] = a => h < e[1]
  BY DEF Visited
<1>9. \A a : a # p => Visited(a)' = Visited(a)
  <2> SUFFICES ASSUME NEW a, a # p
               PROVE  \A h : h \in Visited(a)' <=> h \in Visited(a)
    BY DEF Visited
  <2>1. \A e : e[2] = a =>
                  (e \in Entries(rest) <=> e \in Entries(producers))
    BY <1>6
  <2> QED  BY <1>7, <1>8, <2>1
<1>10. \A h : h \in Visited(p) <=> h \in Hashes(db[p]) /\ h < g
  <2>1. <<g, p>>[1] = g /\ <<g, p>>[2] = p
    OBVIOUS
  <2> QED  BY <1>3, <1>6, <1>8, <2>1
<1>11. \A h : h \in Visited(p)' <=>
                  h \in Hashes(db[p]) /\ (next # 0 => h < next)
  <2>1. \A e \in Entries(rest) :
           e[2] = p => next # 0 /\ e = <<next, p>>
    BY <1>6
  <2>2. next # 0 => <<next, p>> \in Entries(rest)
    BY <1>6
  <2>3. <<next, p>>[1] = next /\ <<next, p>>[2] = p
    OBVIOUS
  <2> QED  BY <1>7, <2>1, <2>2, <2>3
<1>12. /\ next = 0 => \A k \in Hashes(db[p]) : ~ (k > g)
       /\ next # 0 => /\ next \in Hashes(db[p]) /\ next > g
                      /\ \A k \in Hashes(db[p]) : k > g => next <= k
  BY <1>4, NextForm
<1>13. Hashes(db[p]) \in SUBSET Nat
  BY CopyAssumption DEF Hashes
<1>14. \A h : h \in Visited(p)' <=> h \in Visited(p) \/ h = g
  BY <1>3, <1>10, <1>11, <1>12, <1>13
<1>15. g \notin Visited(p)
  BY <1>3, <1>10, <1>13
<1>16. Visited(p)' = Visited(p) \cup {g}
  <2> DEFINE V == Visited(p)'
  <2>1. \A h : h \in V <=> h \in Visited(p) \cup {g}
    BY <1>14
  <2>2. V = {h \in Hashes(db[p]) : h \in V}
    <3>1. \E F \in {Hashes(db[p])} : V = {h \in F : h \in V}
      BY <1>1, <1>11 DEF Visited, Hashes, sources
    <3> QED  BY <3>1
  <2> HIDE DEF V
  <2>3. V = Visited(p) \cup {g}
    BY <2>1, <2>2
  <2> QED  BY <2>3 DEF V
<1> QED  BY <1>3, <1>9, <1>15, <1>16

(* The records of the hash that was gone through are counted.              *)
LEMMA CountGrows ==
    ASSUME IInv, NextHash
    PROVE  CountedSoFar' /\ index' \in Nat
<1>1. /\ pc = "source" /\ UNCHANGED <<command, db>>
      /\ index' = index + track_hash_data(
                             Cardinality(sources(db[producer], hash)))
  BY DEF NextHash
<1>2. InRun /\ pc # "done" /\ index \in Nat
  BY <1>1 DEF InRun, IInv, TypeOK
<1>3. PICK p, g : p = producer /\ g = hash
  OBVIOUS
<1>4. /\ Visited(p)' = Visited(p) \cup {g}
      /\ g \in Hashes(db[p]) /\ g \notin Visited(p)
      /\ \A a : a # p => Visited(a)' = Visited(a)
  BY <1>3, VisitedGrows
<1>5. p \in Producers /\ p \in {"a", "b"} /\ g \in Hash
  BY <1>2, <1>3, AtHandForm DEF IInv
<1>6. \A a \in {"a", "b"} : IsDatabase(db[a])
  BY DEF IInv, TypeOK
<1> DEFINE c(a) == RecordsOf(db[a])
           Sum(a, V) == Sums(c(a), Hash)[V]
<1>7. \A a \in {"a", "b"} : c(a) \in [Hash -> Nat]
  BY <1>6, RecordsForm
<1>8. track_hash_data(Cardinality(sources(db[producer], hash))) = c(p)[g]
  BY <1>3, <1>4, <1>5, <1>6, RecordsForm
<1>9. \A a : /\ RecordsVisited(a) = Sum(a, Visited(a))
             /\ RecordsVisited(a)' = Sum(a, Visited(a)')
  BY <1>1 DEF RecordsVisited, RecordsOf, sources
<1>10. \A a \in {"a", "b"} : \A V \in SUBSET Hash : Sum(a, V) \in Nat
  <2> SUFFICES ASSUME NEW a \in {"a", "b"}, NEW V \in SUBSET Hash
               PROVE  Sum(a, V) \in Nat
    OBVIOUS
  <2>1. c(a) \in [Hash -> Nat] /\ IsFiniteSet(Hash)
    BY <1>7, CopyAssumption
  <2> HIDE DEF c
  <2>2. Sums(c(a), Hash) \in [SUBSET Hash -> Nat]
    BY <2>1, SumsForm
  <2> QED  BY <2>2
<1>11. \A a : Visited(a) \in SUBSET Hash
  BY DEF Visited, Hashes
<1>12. Sum(p, Visited(p) \cup {g}) = c(p)[g] + Sum(p, Visited(p))
  <2>1. /\ c(p) \in [Hash -> Nat] /\ IsFiniteSet(Hash)
        /\ Visited(p) \cup {g} \in SUBSET Hash
        /\ g \in Visited(p) \cup {g}
        /\ (Visited(p) \cup {g}) \ {g} = Visited(p)
    BY <1>4, <1>5, <1>7, <1>11, CopyAssumption
  <2> HIDE DEF c
  <2> QED  BY <2>1, SumsRemove
<1>13. c(p)[g] \in Nat
  BY <1>5, <1>7
<1> HIDE DEF c, Sum
<1>14. RecordsVisited(p)' = c(p)[g] + RecordsVisited(p)
  BY <1>4, <1>9, <1>12
<1>15. \A a : a # p => RecordsVisited(a)' = RecordsVisited(a)
  BY <1>4, <1>9
<1>16. \A a \in {"a", "b"} : RecordsVisited(a) \in Nat
  BY <1>9, <1>10, <1>11
<1>17. index' = index + c(p)[g]
  BY <1>1, <1>8
<1>18. index = IF command = "add_multiple"
               THEN RecordsVisited("a") + RecordsVisited("b")
               ELSE RecordsVisited("a")
  BY <1>2 DEF IInv, CountedSoFar
<1>19. PICK x, y, z : x = RecordsVisited("a") /\ y = RecordsVisited("b")
                      /\ z = c(p)[g]
  OBVIOUS
<1>20. x \in Nat /\ y \in Nat /\ z \in Nat
  BY <1>13, <1>16, <1>19
<1>21. CASE command # "add_multiple"
  <2>1. p = "a"
    BY <1>5, <1>21, ProducerForm
  <2>2. index' = x + z /\ RecordsVisited("a")' = z + x
    BY <1>14, <1>17, <1>18, <1>19, <1>21, <2>1
  <2>3. index' = RecordsVisited("a")'
    BY <1>20, <2>2
  <2> QED  BY <1>1, <1>2, <1>13, <1>17, <1>21, <2>3 DEF CountedSoFar
<1>22. CASE command = "add_multiple"
  <2>1. index' = (x + y) + z
    BY <1>17, <1>18, <1>19, <1>22
  <2>2. CASE p = "a"
    <3>1. RecordsVisited("a")' = z + x /\ RecordsVisited("b")' = y
      BY <1>14, <1>15, <1>19, <2>2
    <3>2. (x + y) + z = (z + x) + y
      BY <1>20
    <3>3. index' = RecordsVisited("a")' + RecordsVisited("b")'
      BY <2>1, <3>1, <3>2
    <3> QED  BY <1>1, <1>2, <1>13, <1>17, <1>22, <3>3 DEF CountedSoFar
  <2>3. CASE p = "b"
    <3>1. RecordsVisited("a")' = x /\ RecordsVisited("b")' = z + y
      BY <1>14, <1>15, <1>19, <2>3
    <3>2. (x + y) + z = x + (z + y)
      BY <1>20
    <3>3. index' = RecordsVisited("a")' + RecordsVisited("b")'
      BY <2>1, <3>1, <3>2
    <3> QED  BY <1>1, <1>2, <1>13, <1>17, <1>22, <3>3 DEF CountedSoFar
  <2> QED  BY <1>5, <2>2, <2>3
<1> QED  BY <1>21, <1>22

(* What was left of a hash, nobody wanted.                                 *)
LEMMA NextHashStep == ASSUME IInv, NextHash PROVE IInv'
<1>1. /\ pc = "source" /\ todo = {}
      /\ producers' = Advance(Tail(producers), producer, hash)
      /\ pc' = IF producers' = <<>> THEN "done" ELSE "hash"
      /\ UNCHANGED <<command, db, dest, before, adder, todo, names>>
  BY DEF NextHash
<1>2. /\ InRun /\ InHash /\ ~InSource /\ InRun' /\ ~InHash' /\ ~InSource'
      /\ pc # "done" /\ pc' \in {"done", "hash"}
  BY <1>1 DEF InRun, InHash, InSource
<1>3. PICK p, g : p = producer /\ g = hash
  OBVIOUS
<1>4. /\ Visited(p)' = Visited(p) \cup {g}
      /\ g \in Hashes(db[p]) /\ g \notin Visited(p)
      /\ \A a : a # p => Visited(a)' = Visited(a)
  BY <1>3, VisitedGrows
<1>5. p \in Producers /\ p \in {"a", "b"} /\ g \in Hash
  BY <1>2, <1>3, AtHandForm DEF IInv
<1>6. CountedSoFar' /\ index' \in Nat
  BY CountGrows
<1>7. PICK rest, next : rest = producers' /\ next = next_hash(db[p], g)
  OBVIOUS
<1>8. /\ rest \in Seq(Entry) /\ Lone(rest)
      /\ \A f : f \in Entries(rest) <=>
                   \/ f \in Entries(producers) /\ f[2] # p
                   \/ next # 0 /\ f = <<next, p>>
  <2>1. rest = Advance(Tail(producers), producer, hash)
        /\ next = next_hash(db[producer], hash)
    BY <1>1, <1>3, <1>7
  <2> QED  BY <1>2, <1>3, <2>1, AdvanceForm DEF IInv
<1>9. TypeOK'
  <2>1. /\ IsDatabase(db["a"])' /\ IsDatabase(db["b"])'
        /\ IsDatabase(before)' /\ IsDatabase(dest)'
    BY <1>1 DEF IInv, TypeOK, IsDatabase
  <2> QED  BY <1>1, <1>2, <1>6, <1>7, <1>8, <2>1 DEF IInv, TypeOK
<1>10. SkipsPreexisting'
  BY <1>1, Frame DEF IInv, SkipsPreexisting
<1>11. Classification'
  BY <1>1, Frame DEF IInv, Classification
<1>12. Queue'
  <2>1. \A e \in Entries(rest) :
           e[2] \in Producers /\ e[1] \in Hashes(db[e[2]])
    <3> SUFFICES ASSUME NEW e \in Entries(rest)
                 PROVE  e[2] \in Producers /\ e[1] \in Hashes(db[e[2]])
      OBVIOUS
    <3>1. CASE e \in Entries(producers)
      BY <1>2, <3>1 DEF IInv, Queue
    <3>2. CASE next # 0 /\ e = <<next, p>>
      <4>1. next \in Hashes(db[p])
        BY <1>7, <3>2, NextForm
      <4> QED  BY <1>5, <3>2, <4>1
    <3> QED  BY <1>8, <3>1, <3>2
  <2>2. \A e \in Entries(producers)' :
           e[2] \in Producers' /\ e[1] \in Hashes(db[e[2]])'
    BY <1>1, <1>7, <2>1, Frame DEF Entries, Hashes, sources
  <2>3. Lone(producers)'
    BY <1>7, <1>8 DEF Lone
  <2> QED  BY <1>1, <2>2, <2>3 DEF Queue
<1>13. AtHand'
  BY <1>2 DEF AtHand
<1>14. \A a, s : ~Underway(a, s) /\ ~Underway(a, s)'
  BY <1>2 DEF Underway
<1>15. \A a \in Producers, h \in Hash, s \in Source :
          Copies(a, h, s)' <=> Copies(a, h, s)
  <2> SUFFICES ASSUME NEW a \in Producers, NEW h \in Hash, NEW s \in Source,
                      Wanted(a, h, s)
               PROVE  Handled(a, h, s)' <=> Handled(a, h, s)
    BY <1>1, Frame DEF Copies
  <2>1. Handled(a, h, s) <=> \/ h \in Visited(a)
                             \/ /\ a = p /\ h = g
                                /\ s \in Selected(a, h)
    BY <1>1, <1>2, <1>3, <1>14 DEF Handled
  <2>2. Handled(a, h, s)' <=> h \in Visited(a)'
    BY <1>2 DEF Handled
  <2>3. a = p /\ h = g => s \in Selected(a, h)
    BY <1>4, <1>5, WantedForm DEF IInv
  <2> QED  BY <1>4, <2>1, <2>2, <2>3
<1>16. ExactSoFar'
  BY <1>1, <1>2, <1>15, NothingCopied
<1>17. ProcessedSoFar'
  BY <1>1, <1>2, <1>14, <1>15, Frame DEF IInv, ProcessedSoFar
<1>18. DescribedSoFar'
  <2>1. \A t : By(t)' = By(t) /\ KeptBy(t)' = KeptBy(t)
    BY <1>1, Frame DEF By, KeptBy
  <2>2. \A t : ~Naming(t) /\ ~Naming(t)'
    BY <1>1, <1>2 DEF Naming
  <2> QED  BY <1>1, <1>2, <2>1, <2>2, Frame DEF IInv, DescribedSoFar
<1> QED  BY <1>6, <1>9, <1>10, <1>11, <1>12, <1>13, <1>16, <1>17, <1>18
         DEF IInv

(* Before the command is given there is nothing to relate.                 *)
LEMMA NotInRun ==
    ASSUME ~InRun
    PROVE  Queue /\ AtHand /\ ExactSoFar /\ ProcessedSoFar
           /\ DescribedSoFar /\ CountedSoFar
<1>1. ~InHash /\ ~InSource /\ pc # "names"
  BY DEF InRun, InHash, InSource
<1> QED  BY <1>1 DEF Queue, AtHand, ExactSoFar, ProcessedSoFar,
                     DescribedSoFar, CountedSoFar

(* New copiers know what the destination has and nothing else.             *)
LEMMA NewAdders ==
    ASSUME NEW d, NEW r, r = NewAdder(d)
    PROVE  /\ r \in AdderType /\ r.processed = {} /\ r.repository = {}
           /\ r.non_repository = {}
           /\ r.preexisting = {s \in Source : d.data[s] # NoSource}
BY DEF NewAdder, AdderType, load_preexisting_sources

(* The invariant holds before the command is given.                        *)
LEMMA InitStep == ASSUME Init PROVE IInv
<1>1. /\ pc = "start" /\ before = dest /\ command \in Commands
      /\ db \in Inputs /\ dest \in Destinations
      /\ adder = [a \in {"a", "b"} |-> NewAdder(dest)]
      /\ producers = <<>> /\ todo = {} /\ names = {} /\ index = 0
  BY DEF Init
<1>2. \A a \in {"a", "b"} : adder[a] = NewAdder(dest)
  BY <1>1
<1>3. /\ adder \in [{"a", "b"} -> AdderType]
      /\ \A a \in {"a", "b"} :
            /\ adder[a].preexisting = {s \in Source : dest.data[s] # NoSource}
            /\ adder[a].processed = {} /\ adder[a].repository = {}
            /\ adder[a].non_repository = {}
  BY <1>1, <1>2, NewAdders
<1>4. TypeOK
  <2>1. command \in AllCommands
    BY <1>1, CopyAssumption
  <2>2. IsDatabase(db["a"]) /\ IsDatabase(db["b"])
    BY <1>1, CopyAssumption
  <2>3. IsDatabase(dest) /\ IsDatabase(before)
    BY <1>1, CopyAssumption
  <2>4. producers \in Seq(Entry)
    BY <1>1
  <2> QED  BY <1>1, <1>3, <2>1, <2>2, <2>3, <2>4 DEF TypeOK
<1>5. SkipsPreexisting
  BY <1>1, <1>3 DEF SkipsPreexisting, Preexisting
<1>6. Classification
  BY <1>3 DEF Classification
<1>7. ~InRun
  BY <1>1 DEF InRun
<1> QED  BY <1>4, <1>5, <1>6, <1>7, NotInRun DEF IInv

(* The producers that are opened are those with a hash.                    *)
LEMMA OpenForm ==
    ASSUME NEW q \in Seq(Entry), Lone(q), NEW a \in {"a", "b"},
           \A e \in Entries(q) : e[2] # a
    PROVE  /\ Open(q, a) \in Seq(Entry) /\ Lone(Open(q, a))
           /\ \A e : e \in Entries(Open(q, a)) <=>
                        \/ e \in Entries(q)
                        \/ /\ Hashes(db[a]) # {}
                           /\ e = <<first_hash(db[a]), a>>
<1>1. CASE first_hash(db[a]) = 0
  BY <1>1, FirstForm DEF Open
<1>2. CASE first_hash(db[a]) # 0
  <2>1. PICK e : e = <<first_hash(db[a]), a>>
    OBVIOUS
  <2>2. e \in Entry /\ e[2] = a /\ Hashes(db[a]) # {}
    BY <1>2, <2>1, FirstForm DEF Entry, Hashes
  <2>3. Open(q, a) = Enqueue(q, e)
    BY <1>2, <2>1 DEF Open
  <2>4. /\ Enqueue(q, e) \in Seq(Entry) /\ Lone(Enqueue(q, e))
        /\ Entries(Enqueue(q, e)) = Entries(q) \cup {e}
    BY <2>2, EnqueueForm
  <2>5. \A x : x \in Entries(Open(q, a)) <=> x \in Entries(q) \/ x = e
    BY <2>3, <2>4
  <2> QED  BY <2>1, <2>2, <2>3, <2>4, <2>5
<1> QED  BY <1>1, <1>2

(* Each producer that has a hash has its first one in the multimap.        *)
LEMMA OpenProducersForm ==
    /\ OpenProducers \in Seq(Entry) /\ Lone(OpenProducers)
    /\ \A e : e \in Entries(OpenProducers) <=>
                 \E a \in Producers : /\ Hashes(db[a]) # {}
                                      /\ e = <<first_hash(db[a]), a>>
<1>1. /\ <<>> \in Seq(Entry) /\ Lone(<<>>) /\ Entries(<<>>) = {}
  BY DEF Lone, Entries
<1>2. PICK q : q = Open(<<>>, "a")
  OBVIOUS
<1>3. /\ q \in Seq(Entry) /\ Lone(q)
      /\ \A e : e \in Entries(q) <=> /\ Hashes(db["a"]) # {}
                                     /\ e = <<first_hash(db["a"]), "a">>
  BY <1>1, <1>2, OpenForm
<1>4. CASE command # "add_multiple"
  <2>1. OpenProducers = q /\ Producers = {"a"}
    BY <1>2, <1>4 DEF OpenProducers, Producers
  <2> QED  BY <1>3, <2>1
<1>5. CASE command = "add_multiple"
  <2>1. OpenProducers = Open(q, "b") /\ Producers = {"a", "b"}
    BY <1>2, <1>5 DEF OpenProducers, Producers
  <2>2. \A e \in Entries(q) : e[2] # "b"
    <3>1. <<first_hash(db["a"]), "a">>[2] = "a"
      OBVIOUS
    <3> QED  BY <1>3, <3>1
  <2>3. PICK o : o = Open(q, "b")
    OBVIOUS
  <2>4. /\ o \in Seq(Entry) /\ Lone(o)
        /\ \A e : e \in Entries(o) <=>
                     \/ e \in Entries(q)
                     \/ /\ Hashes(db["b"]) # {}
                        /\ e = <<first_hash(db["b"]), "b">>
    BY <1>3, <2>2, <2>3, OpenForm
  <2> QED  BY <1>3, <2>1, <2>3, <2>4
<1> QED  BY <1>4, <1>5

(* The command starts with nothing copied.                                 *)
LEMMA StartStep == ASSUME IInv, Start PROVE IInv'
<1>1. /\ before' = dest
      /\ adder' = [a \in {"a", "b"} |-> NewAdder(dest)]
      /\ producers' = OpenProducers /\ index' = 0
      /\ pc' = IF OpenProducers = <<>> THEN "done" ELSE "hash"
      /\ UNCHANGED <<command, db, dest, todo, names>>
  BY DEF Start
<1>2. /\ InRun' /\ ~InHash' /\ ~InSource' /\ pc' \in {"done", "hash"}
  BY <1>1 DEF InRun, InHash, InSource
<1>3. PICK o : o = OpenProducers
  OBVIOUS
<1>4. /\ o \in Seq(Entry) /\ Lone(o)
      /\ \A e : e \in Entries(o) <=>
                   \E a \in Producers : /\ Hashes(db[a]) # {}
                                        /\ e = <<first_hash(db[a]), a>>
  BY <1>3, OpenProducersForm
<1>5. Producers' = Producers /\ Producers \subseteq {"a", "b"}
      /\ "a" \in Producers
      /\ (command = "add_multiple" => "b" \in Producers)
  BY <1>1 DEF Producers
<1>6. \A a \in {"a", "b"} : adder'[a] = NewAdder(dest)
  BY <1>1
<1>7. /\ adder' \in [{"a", "b"} -> AdderType]
      /\ \A a \in {"a", "b"} :
            /\ adder'[a].preexisting =
                  {s \in Source : dest.data[s] # NoSource}
            /\ adder'[a].processed = {} /\ adder'[a].repository = {}
            /\ adder'[a].non_repository = {}
  BY <1>1, <1>6, NewAdders
<1>8. TypeOK'
  <2>1. /\ IsDatabase(db["a"])' /\ IsDatabase(db["b"])'
        /\ IsDatabase(before)' /\ IsDatabase(dest)'
    BY <1>1 DEF IInv, TypeOK, IsDatabase
  <2> QED  BY <1>1, <1>2, <1>3, <1>4, <1>7, <2>1 DEF IInv, TypeOK
<1>9. SkipsPreexisting'
  BY <1>1, <1>7 DEF SkipsPreexisting, Preexisting
<1>10. Classification'
  BY <1>7 DEF Classification
<1>11. Queue'
  <2>1. \A e \in Entries(o) :
           e[2] \in Producers /\ e[1] \in Hashes(db[e[2]])
    <3> SUFFICES ASSUME NEW a \in Producers, Hashes(db[a]) # {}
                 PROVE  first_hash(db[a]) \in Hashes(db[a])
      BY <1>4
    <3> QED  BY FirstForm
  <2>2. \A e \in Entries(producers)' :
           e[2] \in Producers' /\ e[1] \in Hashes(db[e[2]])'
    BY <1>1, <1>3, <1>5, <2>1 DEF Entries, Hashes, sources
  <2>3. Lone(producers)'
    BY <1>1, <1>3, <1>4 DEF Lone
  <2> QED  BY <1>1, <2>2, <2>3 DEF Queue
<1>12. AtHand'
  BY <1>2 DEF AtHand
<1>13. \A a \in Producers : Visited(a)' = {}
  <2> SUFFICES ASSUME NEW a \in Producers, NEW h \in Hashes(db[a]),
                      \A e \in Entries(o) : e[2] = a => h < e[1]
               PROVE  FALSE
    BY <1>1, <1>3 DEF Visited, Entries, Hashes, sources
  <2>1. PICK e : e = <<first_hash(db[a]), a>>
    OBVIOUS
  <2>2. e \in Entries(o) /\ e[2] = a /\ e[1] = first_hash(db[a])
    BY <1>4, <2>1
  <2>3. first_hash(db[a]) \in Hashes(db[a]) /\ first_hash(db[a]) <= h
    BY FirstForm
  <2>4. Hashes(db[a]) \in SUBSET Nat
    BY CopyAssumption DEF Hashes
  <2> QED  BY <2>2, <2>3, <2>4
<1>14. \A a \in Producers, h \in Hash, s \in Source : ~Copies(a, h, s)'
  BY <1>2, <1>13 DEF Copies, Handled
<1>15. ExactSoFar'
  BY <1>1, <1>5, <1>14 DEF ExactSoFar
<1>16. ProcessedSoFar'
  BY <1>5, <1>7, <1>14 DEF ProcessedSoFar
<1>17. DescribedSoFar'
  <2>1. \A t : By(t)' = {} /\ ~Naming(t)'
    BY <1>2, <1>5, <1>7 DEF By, Naming
  <2>2. \A t : KeptBy(t)' = {}
    BY <2>1 DEF KeptBy
  <2>3. \A t \in Source : dest.data[t] = NoSource => dest.names[t] = {}
    BY DEF IInv, TypeOK, IsDatabase
  <2>4. \A t \in Source : t \notin Preexisting' <=> dest.data[t] = NoSource
    BY <1>1 DEF Preexisting
  <2> QED  BY <1>1, <2>1, <2>2, <2>3, <2>4 DEF DescribedSoFar
<1>18. CountedSoFar'
  <2>1. \A a \in Producers : RecordsVisited(a)' = 0
    <3> SUFFICES ASSUME NEW a \in Producers
                 PROVE  Sums(RecordsOf(db[a]), Hash)[{}] = 0
      BY <1>1, <1>13 DEF RecordsVisited, RecordsOf, sources
    <3>1. IsDatabase(db[a]) /\ IsFiniteSet(Hash)
      BY <1>5, CopyAssumption DEF IInv, TypeOK
    <3>2. RecordsOf(db[a]) \in [Hash -> Nat]
      BY <3>1, RecordsForm
    <3> QED  BY <3>1, <3>2, SumsZero
  <2> QED  BY <1>1, <1>5, <2>1 DEF CountedSoFar
<1> QED  BY <1>8, <1>9, <1>10, <1>11, <1>12, <1>15, <1>16, <1>17, <1>18
         DEF IInv

(* What is killed leaves the databases and the copiers as they are.        *)
LEMMA InterruptStep == ASSUME IInv, Interrupt PROVE IInv'
<1>1. /\ pc' = "start" /\ producers' = <<>> /\ todo' = {} /\ names' = {}
      /\ UNCHANGED <<command, db, dest, before, adder, index>>
  BY DEF Interrupt
<1>2. TypeOK'
  <2>1. /\ IsDatabase(db["a"])' /\ IsDatabase(db["b"])'
        /\ IsDatabase(before)' /\ IsDatabase(dest)'
    BY <1>1 DEF IInv, TypeOK, IsDatabase
  <2>2. producers' \in Seq(Entry)
    BY <1>1
  <2> QED  BY <1>1, <2>1, <2>2 DEF IInv, TypeOK
<1>3. SkipsPreexisting' /\ Classification'
  BY <1>1, Frame DEF IInv, SkipsPreexisting, Classification
<1>4. ~InRun'
  BY <1>1 DEF InRun
<1>5. /\ Queue' /\ AtHand' /\ ExactSoFar' /\ ProcessedSoFar'
      /\ DescribedSoFar' /\ CountedSoFar'
  <2>1. ~InHash' /\ ~InSource' /\ pc' # "names"
    BY <1>1 DEF InHash, InSource
  <2> QED  BY <1>4, <2>1 DEF Queue, AtHand, ExactSoFar, ProcessedSoFar,
                             DescribedSoFar, CountedSoFar
<1> QED  BY <1>2, <1>3, <1>5 DEF IInv

(* What stays as it is stays right.                                        *)
LEMMA Stutter == ASSUME IInv, UNCHANGED vars PROVE IInv'
<1>1. UNCHANGED <<command, db, dest, before, adder, producers, todo, names,
                  index, pc, runs>>
  BY DEF vars
<1>2. TypeOK'
  <2>1. /\ IsDatabase(db["a"])' /\ IsDatabase(db["b"])'
        /\ IsDatabase(before)' /\ IsDatabase(dest)'
    BY <1>1 DEF IInv, TypeOK, IsDatabase
  <2> QED  BY <1>1, <2>1 DEF IInv, TypeOK
<1>3. SkipsPreexisting' /\ Classification'
  BY <1>1, Frame DEF IInv, SkipsPreexisting, Classification
<1>4. /\ InRun' <=> InRun
      /\ InHash' <=> InHash
      /\ InSource' <=> InSource
  BY <1>1 DEF InRun, InHash, InSource
<1>5. Queue'
  <2>1. Lone(producers)' <=> Lone(producers)
    BY <1>1 DEF Lone
  <2>2. Entries(producers)' = Entries(producers) /\ Producers' = Producers
        /\ \A a : Hashes(db[a])' = Hashes(db[a])
    BY <1>1 DEF Entries, Producers, Hashes, sources
  <2> QED  BY <1>1, <1>4, <2>1, <2>2 DEF IInv, Queue
<1>6. AtHand'
  <2>1. /\ hash' = hash /\ producer' = producer /\ Min(todo)' = Min(todo)
        /\ Preexisting' = Preexisting /\ ByRepository' = ByRepository
        /\ Selected(producer, hash)' = Selected(producer, hash)
        /\ NamesToAdd(producer, Min(todo))'
              = NamesToAdd(producer, Min(todo))
        /\ RepositoryFits(producer, Min(todo))'
              <=> RepositoryFits(producer, Min(todo))
        /\ Known(producer, Min(todo))' <=> Known(producer, Min(todo))
    BY <1>1, Frame, HashStays DEF Known
  <2> QED  BY <1>1, <1>4, <2>1 DEF IInv, AtHand
<1>7. \A a, s : Underway(a, s)' <=> Underway(a, s)
  BY <1>1, <1>4, HashStays DEF Underway
<1>8. \A a \in Producers, h \in Hash, s \in Source :
         Copies(a, h, s)' <=> Copies(a, h, s)
  BY <1>1, <1>4, <1>7, Frame, HashStays DEF Copies, Handled
<1>9. ExactSoFar'
  <2>1. CASE InRun
    BY <1>1, <1>8, <2>1, NothingCopied
  <2>2. CASE ~InRun
    BY <1>4, <2>2 DEF ExactSoFar
  <2> QED  BY <2>1, <2>2
<1>10. ProcessedSoFar'
  BY <1>1, <1>4, <1>7, <1>8, Frame DEF IInv, ProcessedSoFar
<1>11. DescribedSoFar'
  <2>1. \A t : By(t)' = By(t) /\ KeptBy(t)' = KeptBy(t)
    BY <1>1, Frame DEF By, KeptBy
  <2>2. /\ \A t : Naming(t)' <=> Naming(t)
        /\ producer' = producer
    BY <1>1, HashStays DEF Naming
  <2> QED  BY <1>1, <1>4, <2>1, <2>2, Frame DEF IInv, DescribedSoFar
<1>12. CountedSoFar'
  BY <1>1, <1>4, HashStays DEF IInv, CountedSoFar
<1> QED  BY <1>2, <1>3, <1>5, <1>6, <1>9, <1>10, <1>11, <1>12 DEF IInv

(***************************************************************************)
(* The theorems.                                                           *)
(***************************************************************************)

(* The invariant holds in every state: each step keeps it.                 *)
LEMMA Invariance == Spec => []IInv
<1>1. Init => IInv
  BY InitStep
<1>2. IInv /\ [Next]_vars => IInv'
  <2> SUFFICES ASSUME IInv, [Next]_vars PROVE IInv'
    OBVIOUS
  <2>1. CASE UNCHANGED vars
    BY <2>1, Stutter
  <2>2. CASE Ended
    BY <2>2, Stutter DEF Ended
  <2> QED  BY <2>1, <2>2, StartStep, ReadHashStep, SkipSourceStep,
              AddHashStep, AddSourceDataStep, AddSourceNameStep,
              SourceProcessedStep, NextHashStep, InterruptStep DEF Next
<1> QED  BY <1>1, <1>2, PTL DEF Spec

(* The invariant has the types of the variables.                           *)
THEOREM TypeCorrect == Spec => []TypeOK
<1>1. IInv => TypeOK
  BY DEF IInv
<1> QED  BY <1>1, Invariance, PTL

(* At the end every hash was gone through, and all that was wanted copied. *)
LEMMA AtTheEnd ==
    ASSUME IInv, pc = "done"
    PROVE  /\ InRun /\ \A a, s : ~Underway(a, s) /\ ~Naming(s)
           /\ \A a : Visited(a) = Hashes(db[a])
           /\ \A a \in Producers, h \in Hash, s \in Source :
                 Copies(a, h, s) <=> Wanted(a, h, s)
<1>1. InRun /\ ~InSource
  BY DEF InRun, InSource
<1>2. \A a, s : ~Underway(a, s) /\ ~Naming(s)
  BY <1>1 DEF Underway, Naming
<1>3. Entries(producers) = {}
  <2>1. producers = <<>>
    BY <1>1 DEF IInv, Queue
  <2> QED  BY <2>1 DEF Entries
<1>4. \A a : Visited(a) = Hashes(db[a])
  BY <1>3 DEF Visited
<1>5. \A a \in Producers, h \in Hash, s \in Source :
         Copies(a, h, s) <=> Wanted(a, h, s)
  <2> SUFFICES ASSUME NEW a \in Producers, NEW h \in Hash, NEW s \in Source,
                      Wanted(a, h, s)
               PROVE  Handled(a, h, s)
    BY DEF Copies
  <2>1. h \in Hashes(db[a])
    BY WantedHas DEF IInv
  <2> QED  BY <1>4, <2>1 DEF Handled
<1> QED  BY <1>1, <1>2, <1>4, <1>5

(* CopiedExactly: when a command has ended, the destination has exactly    *)
(* the hashes and sources that the command's set operation asks for beside *)
(* those it had, each with the sub_count of an input, whatever the inputs, *)
(* and however often a killed run went before (adder.hpp, adder_set.hpp).  *)
THEOREM CopiesExactly == Spec => []CopiedExactly
<1>1. IInv => CopiedExactly
  <2> SUFFICES ASSUME IInv, pc = "done", NEW h \in Hash, NEW s \in Source
               PROVE  \/ /\ dest.count[h][s] = before.count[h][s]
                         /\ \A a \in Producers : ~Wanted(a, h, s)
                      \/ /\ before.count[h][s] = 0
                         /\ \E a \in Producers :
                              /\ Wanted(a, h, s)
                              /\ dest.count[h][s] = SubCount(a, h, s)
    BY DEF CopiedExactly
  <2>1. \/ /\ dest.count[h][s] = before.count[h][s]
           /\ \A a \in Producers : ~Copies(a, h, s)
        \/ /\ before.count[h][s] = 0
           /\ \E a \in Producers :
                Copies(a, h, s) /\ dest.count[h][s] = SubCount(a, h, s)
    BY AtTheEnd DEF IInv, ExactSoFar
  <2> QED  BY <2>1, AtTheEnd
<1> QED  BY <1>1, Invariance, PTL

(* SourcesDescribed: when a command has ended, each source it copied has   *)
(* the names it keeps, of every input it was copied from, and the source   *)
(* data of one of them: the blank data of merge_hash never stays           *)
(* (add_source_data and add_source_names of adder.hpp, adder_set.hpp).     *)
THEOREM DescribesSources == Spec => []SourcesDescribed
<1>1. IInv => SourcesDescribed
  <2> SUFFICES ASSUME IInv, pc = "done", NEW s \in Source, Copied(s)
               PROVE  LET its == {a \in Producers :
                                    \E h \in Hash : Wanted(a, h, s)}
                      IN  /\ dest.names[s] =
                                UNION {NamesKept(a, s) : a \in its}
                          /\ dest.data[s] \in {SourceData(a, s) : a \in its}
    BY DEF SourcesDescribed
  <2>1. By(s) = {a \in Producers : \E h \in Hash : Wanted(a, h, s)}
    <3>1. \A a \in Producers :
             s \in adder[a].processed <=> \E h \in Hash : Wanted(a, h, s)
      BY AtTheEnd DEF IInv, ProcessedSoFar
    <3> QED  BY <3>1 DEF By
  <2>2. PICK a \in Producers, h \in Hash : Wanted(a, h, s)
    BY DEF Copied
  <2>3. s \in Source \ Preexisting /\ By(s) # {}
    BY <2>1, <2>2 DEF Wanted
  <2>4. /\ dest.names[s] = KeptBy(s)
        /\ dest.data[s] \in {SourceData(x, s) : x \in By(s)}
    BY <2>3, AtTheEnd DEF IInv, DescribedSoFar
  <2> QED  BY <2>1, <2>4 DEF KeptBy
<1> QED  BY <1>1, Invariance, PTL

(* ProgressReachesTotal: the records that the tracker has counted when a   *)
(* command ends, reckoned from the sources of each hash alone, are all     *)
(* those of the hash data stores that were read (progress_tracker.hpp).    *)
THEOREM ProgressIsComplete == Spec => []ProgressReachesTotal
<1>1. IInv => ProgressReachesTotal
  <2> SUFFICES ASSUME IInv, pc = "done"
               PROVE  index = total_hash_records
    BY DEF ProgressReachesTotal
  <2>1. \A a \in {"a", "b"} :
           /\ RecordsOf(db[a]) \in [Hash -> Nat]
           /\ Sums(RecordsOf(db[a]), Hash)[Hash]
                 = Sums(RecordsOf(db[a]), Hash)[Hashes(db[a])]
           /\ Sums(RecordsOf(db[a]), Hash)[Hash] \in Nat
    <3> SUFFICES ASSUME NEW a \in {"a", "b"}
                 PROVE  /\ RecordsOf(db[a]) \in [Hash -> Nat]
                        /\ Sums(RecordsOf(db[a]), Hash)[Hash]
                              = Sums(RecordsOf(db[a]), Hash)[Hashes(db[a])]
                        /\ Sums(RecordsOf(db[a]), Hash)[Hash] \in Nat
      OBVIOUS
    <3>1. IsDatabase(db[a]) /\ IsFiniteSet(Hash)
      BY CopyAssumption DEF IInv, TypeOK
    <3>2. /\ RecordsOf(db[a]) \in [Hash -> Nat]
          /\ \A h \in Hash \ Hashes(db[a]) : RecordsOf(db[a])[h] = 0
          /\ Hashes(db[a]) \in SUBSET Hash
      BY <3>1, RecordsForm DEF Hashes
    <3>3. Sums(RecordsOf(db[a]), Hash) \in [SUBSET Hash -> Nat]
      BY <3>1, <3>2, SumsForm
    <3>4. Sums(RecordsOf(db[a]), Hash)[Hash]
             = Sums(RecordsOf(db[a]), Hash)[Hashes(db[a])]
      BY <3>1, <3>2, SumsOnly
    <3> QED  BY <3>2, <3>3, <3>4
  <2>2. \A a \in {"a", "b"} : /\ size_hashes(db[a]) = RecordsVisited(a)
                              /\ size_hashes(db[a]) \in Nat
    BY <2>1, SizeForm, AtTheEnd DEF RecordsVisited
  <2>3. index = IF command = "add_multiple"
                THEN size_hashes(db["a"]) + size_hashes(db["b"])
                ELSE size_hashes(db["a"])
    BY <2>2, AtTheEnd DEF IInv, CountedSoFar
  <2>4. PICK P, c : P = Producers /\ c = [a \in P |-> size_hashes(db[a])]
    OBVIOUS
  <2>5. /\ c \in [P -> Nat] /\ P \in SUBSET {"a", "b"} /\ "a" \in P
        /\ IsFiniteSet(P)
        /\ \A a \in P : c[a] = size_hashes(db[a])
    <3>1. P \in SUBSET {"a", "b"} /\ "a" \in P
      BY <2>4 DEF Producers
    <3>2. IsFiniteSet({"a", "b"})
      <4>1. {"a", "b"} = {"a"} \cup {"b"}
        OBVIOUS
      <4>2. IsFiniteSet({"a"})
        BY FS_Singleton, Zenon
      <4>3. IsFiniteSet({"a"} \cup {"b"})
        BY <4>2, FS_AddElement
      <4> QED  BY <4>1, <4>3
    <3>3. IsFiniteSet(P)
      BY <3>1, <3>2, FS_Subset
    <3> QED  BY <2>2, <2>4, <3>1, <3>3
  <2>6. total_hash_records = Sums(c, P)[P]
    BY <2>4, <2>5, SumForm DEF total_hash_records
  <2>7. /\ Sums(c, P)[{}] = 0
        /\ \A U \in SUBSET P : \A a \in U :
              Sums(c, P)[U] = c[a] + Sums(c, P)[U \ {a}]
    BY <2>5, SumsZero, SumsRemove
  <2>8. Sums(c, P)[{"a"}] = c["a"]
    <3>1. Sums(c, P)[{"a"}] = c["a"] + Sums(c, P)[{"a"} \ {"a"}]
      BY <2>5, <2>7
    <3>2. {"a"} \ {"a"} = {}
      OBVIOUS
    <3>3. Sums(c, P)[{"a"}] = c["a"] + 0
      BY <2>7, <3>1, <3>2
    <3>4. c["a"] \in Nat
      BY <2>5
    <3> QED  BY <3>3, <3>4
  <2>9. CASE command # "add_multiple"
    <3>1. P = {"a"}
      BY <2>4, <2>9 DEF Producers
    <3> QED  BY <2>3, <2>5, <2>6, <2>8, <2>9, <3>1
  <2>10. CASE command = "add_multiple"
    <3>1. P = {"a", "b"} /\ "b" \in P /\ P \ {"b"} = {"a"}
      BY <2>4, <2>10 DEF Producers
    <3>2. Sums(c, P)[P] = c["b"] + c["a"]
      BY <2>7, <2>8, <3>1
    <3>3. c["b"] + c["a"] = c["a"] + c["b"]
      BY <2>5, <3>1
    <3> QED  BY <2>3, <2>5, <2>6, <2>10, <3>1, <3>2, <3>3
  <2> QED  BY <2>9, <2>10
<1> QED  BY <1>1, Invariance, PTL

(* PreexistingUntouched: no call of the destination's import manager that  *)
(* a copier makes changes a source which the destination had when the      *)
(* command started, or the label of a hash it has (the preexisting_sources *)
(* of adder.hpp, adder_set.hpp).                                           *)
THEOREM PreexistingStays == Spec => PreexistingUntouched
<1>1. IInv /\ [Next]_vars => [Untouched]_vars
  <2> SUFFICES ASSUME IInv, Next PROVE Untouched
    BY DEF vars
  <2>1. dest' = dest => Untouched
    BY DEF Untouched
  <2>2. IsDatabase(dest)
    BY DEF IInv, TypeOK
  <2>3. PICK s : s = Min(todo)
    OBVIOUS
  <2>4. InSource => s \in Source /\ s \notin Preexisting
                    /\ producer \in Producers /\ hash \in Hash
                    /\ hash \in Hashes(db[producer])
                    /\ Wanted(producer, hash, s)
    <3> SUFFICES ASSUME InSource
                 PROVE  /\ s \in Source /\ s \notin Preexisting
                        /\ producer \in Producers /\ hash \in Hash
                        /\ hash \in Hashes(db[producer])
                        /\ Wanted(producer, hash, s)
      OBVIOUS
    <3>1. todo # {} /\ s \notin Preexisting /\ RepositoryFits(producer, s)
      BY <2>3 DEF IInv, AtHand
    <3>2. InHash
      BY DEF InHash, InSource
    <3>3. /\ s \in Source /\ s \in Selected(producer, hash)
          /\ producer \in Producers /\ hash \in Hash
          /\ hash \in Hashes(db[producer])
      BY <2>3, <3>1, <3>2, SourceForm
    <3> QED  BY <3>1, <3>3, WantedForm DEF IInv
  <2>5. CASE AddHash
    <3>1. PICK l, c : l = db[producer].label[hash]
                      /\ c = SubCount(producer, hash, s)
      OBVIOUS
    <3>2. /\ s \in Source /\ hash \in Hash /\ c \in Nat
          /\ s \notin Preexisting
          /\ dest' = merge_hash(dest, hash, l, s, c)
      BY <2>3, <2>5, <3>1, AddHashForm DEF Wanted
    <3>3. /\ dest'.names = dest.names
          /\ \A k \in Hash, t \in Source : k # hash \/ t # s =>
                dest'.count[k][t] = dest.count[k][t]
          /\ \A t \in Source \ {s} : dest'.data[t] = dest.data[t]
          /\ \A k \in Hashes(dest) : dest'.label[k] = dest.label[k]
      BY <2>2, <3>2, MergeForm
    <3>4. \A t \in Preexisting : t \in Source /\ t # s
      BY <3>2 DEF Preexisting
    <3> QED  BY <3>3, <3>4 DEF Untouched
  <2>6. CASE AddSourceData
    <3>1. /\ InSource
          /\ dest' = insert_source_data(dest, s, SourceData(producer, s))
      BY <2>3, <2>6 DEF AddSourceData, InSource
    <3>2. SourceData(producer, s) # NoSource
      BY <2>4, <3>1, WantedHas DEF IInv
    <3>3. /\ dest'.names = dest.names /\ dest'.count = dest.count
          /\ dest'.label = dest.label
          /\ \A t \in Source \ {s} : dest'.data[t] = dest.data[t]
      BY <2>2, <2>4, <3>1, <3>2, DataForm
    <3>4. \A t \in Preexisting : t \in Source /\ t # s
      BY <2>4, <3>1 DEF Preexisting
    <3> QED  BY <3>3, <3>4 DEF Untouched
  <2>7. CASE AddSourceName
    <3>1. /\ InSource /\ Naming(s) /\ pc = "names" /\ names # {}
          /\ dest' = insert_source_name(dest, s, Min(names))
      BY <2>3, <2>7 DEF AddSourceName, InSource, Naming
    <3>2. Min(names) \in Name
      <4>1. names \in SUBSET Name /\ Name \in SUBSET Nat
        BY CopyAssumption DEF IInv, TypeOK
      <4> QED  BY <3>1, <4>1, MinForm
    <3>3. dest.data[s] # NoSource
      <4>1. InRun
        BY <3>1 DEF InRun
      <4>2. dest.data[s] = SourceData(producer, s)
        BY <2>4, <3>1, <4>1 DEF IInv, DescribedSoFar
      <4> QED  BY <2>4, <3>1, <4>2, WantedHas DEF IInv
    <3>4. /\ dest'.data = dest.data /\ dest'.count = dest.count
          /\ dest'.label = dest.label
          /\ \A t \in Source \ {s} : dest'.names[t] = dest.names[t]
      BY <2>2, <2>4, <3>1, <3>2, <3>3, NameForm
    <3>5. \A t \in Preexisting : t \in Source /\ t # s
      BY <2>4, <3>1 DEF Preexisting
    <3> QED  BY <3>4, <3>5 DEF Untouched
  <2>8. CASE Start \/ ReadHash \/ SkipSource \/ SourceProcessed \/ NextHash
             \/ Interrupt \/ Ended
    <3>1. dest' = dest
      BY <2>8 DEF Start, ReadHash, SkipSource, SourceProcessed, NextHash,
                  Interrupt, Ended, vars
    <3> QED  BY <2>1, <3>1
  <2> QED  BY <2>5, <2>6, <2>7, <2>8 DEF Next
<1> QED  BY <1>1, Invariance, PTL DEF Spec, PreexistingUntouched
=============================================================================
