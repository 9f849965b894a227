-------------------------- MODULE HashRecordsProofs -------------------------
(***************************************************************************)
(* Lemmas about the records of the hash data store, for every width of the *)
(* fields and every source.  The proofs about HashData and ImportManager   *)
(* rest on them.                                                           *)
(***************************************************************************)
EXTENDS HashRecords, TLAPS

(***************************************************************************)
(* Lemmas about the operators that records are built with.                 *)
(***************************************************************************)

(* What put2, put4, add2 and add4 write fits the field. *)
LEMMA FieldsFit ==
    /\ \A n \in Nat : put2(n) \in 0 .. Max2
    /\ \A n \in Nat : put4(n) \in 0 .. Max4
    /\ \A a, b \in Nat : add2(a, b) \in 0 .. Max2
    /\ \A a, b \in Nat : add4(a, b) \in 0 .. Max4
    /\ \A n \in 0 .. Max4 : get4(n) \in Nat
<1>1. \A a, b \in Nat : Plus64(a, b) \in Nat
  BY WidthAssumption DEF Plus64
<1>2. /\ \A n \in Nat : put2(n) \in 0 .. Max2
      /\ \A n \in Nat : put4(n) \in 0 .. Max4
  BY WidthAssumption DEF put2, put4, Max4
<1>3. \A a, b \in Nat : add2(a, b) \in 0 .. Max2
  BY <1>1, WidthAssumption DEF add2
<1>4. \A a, b \in Nat : add4(a, b) \in 0 .. Max4
  <2>1. Max4 \in Nat
    BY WidthAssumption DEF Max4
  <2>2. QED
    BY <1>1, <2>1 DEF add4
<1>5. \A n \in 0 .. Max4 : get4(n) \in Nat
  BY WidthAssumption DEF get4, Max4
<1>6. QED
  BY <1>2, <1>3, <1>4, <1>5

(* A Type 3 record holds a natural number. *)
LEMMA Type3Value ==
    ASSUME NEW subs \in Type3s, NEW s \in DOMAIN subs
    PROVE  subs[s] \in 0 .. Max2 /\ subs[s] \in Nat /\ s \in SourceId
<1>1. PICK S \in SUBSET SourceId : subs \in [S -> 0 .. Max2]
  BY DEF Type3s
<1>2. QED
  BY <1>1

(* Writing a Type 3 record adds its source and keeps the others. *)
LEMMA PutType3 ==
    ASSUME NEW subs \in Type3s, NEW s \in SourceId, NEW n \in Nat
    PROVE  /\ put_type3(subs, s, n) \in Type3s
           /\ DOMAIN put_type3(subs, s, n) = DOMAIN subs \cup {s}
           /\ \A x \in DOMAIN subs \cup {s} :
                 put_type3(subs, s, n)[x] = IF x = s THEN put2(n) ELSE subs[x]
<1>1. PICK S \in SUBSET SourceId : subs \in [S -> 0 .. Max2]
  BY DEF Type3s
<1>2. S \cup {s} \in SUBSET SourceId
  OBVIOUS
<1>3. put_type3(subs, s, n) \in [S \cup {s} -> 0 .. Max2]
  BY <1>1, FieldsFit DEF put_type3
<1>4. QED
  BY <1>1, <1>2, <1>3 DEF Type3s, put_type3

(* The records that insert and merge write are well formed. *)
LEMMA NewType1 ==
    ASSUME NEW e \in Entropy, NEW l \in StoredLabel, NEW s \in SourceId,
           NEW n \in Nat
    PROVE  /\ new_type1(e, l, s, n) \in Type1
           /\ Type2Size <= new_type1(e, l, s, n).size
<1>1. put2(n) \in 0 .. Max2
  BY FieldsFit
<1>2. Type1Size(s) \in Nat /\ Type2Size <= Type1Size(s)
  <2>1. VarintBase \in Nat /\ s \in Nat
    BY RecordAssumption
  <2>2. VarintBase * VarintBase \in Nat
    BY <2>1
  <2>3. VarintBase <= VarintBase * VarintBase
    BY <2>1, RecordAssumption
  <2>4. QED
    BY <2>1, <2>2, <2>3 DEF Type1Size, IdSize, Padding, Type2Size
<1>3. QED
  BY <1>1, <1>2 DEF new_type1, Type1

(* Splitting a Type 1 record gives a Type 2 record of the same size. *)
LEMMA SplitType1 ==
    ASSUME NEW rec \in Type1, NEW c \in Nat, NEW s \in SourceId, NEW n \in Nat
    PROVE  /\ split_type1(rec, c, s, n) \in Type2
           /\ split_type1(rec, c, s, n).size = rec.size
           /\ split_type1(rec, c, s, n).count = put4(c)
<1> DEFINE first == [x \in {rec.source_id} |-> rec.sub_count]
<1>1. /\ first \in [{rec.source_id} -> 0 .. Max2]
      /\ {rec.source_id} \in SUBSET SourceId
  BY DEF Type1
<1>2. first \in Type3s
  BY <1>1 DEF Type3s
<1>3. put_type3(first, s, n) \in Type3s
  BY <1>2, PutType3
<1>4. put4(c) \in 0 .. Max4
  BY FieldsFit
<1>5. QED
  BY <1>3, <1>4 DEF split_type1, Type1, Type2

(* Updating a Type 2 record keeps its size and its form. *)
LEMMA UpdateType2 ==
    ASSUME NEW rec \in Type2, NEW c \in Nat, NEW s \in SourceId, NEW n \in Nat
    PROVE  /\ update_type2(rec, c, s, n) \in Type2
           /\ update_type2(rec, c, s, n).size = rec.size
           /\ update_type2(rec, c, s, n).count = put4(c)
<1>1. put_type3(rec.subs, s, n) \in Type3s
  BY PutType3 DEF Type2
<1>2. put4(c) \in 0 .. Max4
  BY FieldsFit
<1>3. QED
  BY <1>1, <1>2 DEF update_type2, Type2

(***************************************************************************)
(* insert and merge, on the records of one hash.                           *)
(***************************************************************************)

(* The three forms of a record are told apart by their type. *)
LEMMA RecordForms ==
    ASSUME NEW rec \in Record
    PROVE  /\ rec.type \in {0, 1, 2}
           /\ rec.type = 0 => rec = None
           /\ rec.type = 1 => rec \in Type1
           /\ rec.type = 2 => rec \in Type2
BY DEF Record, None, Type1, Type2

(* Reading a record gives natural numbers. *)
LEMMA CountsAreNat ==
    ASSUME NEW rec \in Record, NEW s \in SourceId, NEW n \in Nat
    PROVE  /\ find_count(rec) \in Nat
           /\ InsertCount(rec, s) \in Nat
           /\ MergeCount(rec, s, n) \in Nat
<1>1. CASE rec.type = 0
  BY <1>1, FieldsFit DEF find_count, InsertCount, MergeCount
<1>2. CASE rec.type = 1
  <2>1. rec.sub_count \in Nat
    BY <1>2, RecordForms DEF Type1
  <2>2. QED
    BY <1>2, <2>1, FieldsFit DEF find_count, InsertCount, MergeCount, Sources
<1>3. CASE rec.type = 2
  <2>1. get4(rec.count) \in Nat
    BY <1>3, RecordForms, FieldsFit DEF Type2
  <2>2. QED
    BY <1>3, <2>1, FieldsFit DEF find_count, InsertCount, MergeCount, Sources
<1>4. QED
  BY <1>1, <1>2, <1>3, RecordForms

(* insert writes a well-formed record with room for a Type 2. *)
LEMMA InsertForms ==
    ASSUME NEW rec \in Record, NEW e \in Entropy, NEW l \in StoredLabel,
           NEW s \in SourceId,
           rec.type # 0 => Type2Size <= rec.size
    PROVE  LET new == InsertRecord(rec, e, l, s) IN
           /\ new \in Type1 \cup Type2
           /\ Type2Size <= new.size
<1> DEFINE c == InsertCount(rec, s)
<1>0. c \in Nat
  BY CountsAreNat
<1> HIDE DEF c
<1>1. CASE rec.type = 0
  <2>1. InsertRecord(rec, e, l, s) = new_type1(e, l, s, 1)
    BY <1>1 DEF InsertRecord
  <2>2. QED
    BY <2>1, NewType1
<1>2. CASE rec.type = 1 /\ rec.source_id = s
  <2>1. InsertRecord(rec, e, l, s) = replace_type1(rec, c)
    BY <1>2 DEF InsertRecord, c
  <2>2. rec \in Type1 /\ put2(c) \in 0 .. Max2
    BY <1>0, <1>2, RecordForms, FieldsFit
  <2>3. QED
    BY <1>2, <2>1, <2>2 DEF replace_type1, Type1
<1>3. CASE rec.type = 1 /\ rec.source_id # s
  <2>1. InsertRecord(rec, e, l, s) = split_type1(rec, c, s, 1)
    BY <1>3 DEF InsertRecord, c
  <2>2. QED
    BY <1>0, <1>3, <2>1, SplitType1, RecordForms
<1>4. CASE rec.type = 2 /\ s \in DOMAIN rec.subs
  <2>1. InsertRecord(rec, e, l, s) =
           update_type2(rec, c, s, add2(rec.subs[s], 1))
    BY <1>4 DEF InsertRecord, c
  <2>2. rec \in Type2
    BY <1>4, RecordForms
  <2>3. rec.subs[s] \in Nat
    BY <1>4, <2>2, Type3Value DEF Type2
  <2>4. add2(rec.subs[s], 1) \in Nat
    <3>1. add2(rec.subs[s], 1) \in 0 .. Max2
      BY <2>3, FieldsFit
    <3>2. QED
      BY <3>1
  <2> DEFINE k == add2(rec.subs[s], 1)
  <2>5. k \in Nat
    BY <2>4
  <2> HIDE DEF k
  <2>6. update_type2(rec, c, s, k) \in Type2
        /\ update_type2(rec, c, s, k).size = rec.size
    BY <1>0, <2>2, <2>5, UpdateType2
  <2>7. QED
    BY <1>4, <2>1, <2>6 DEF k
<1>5. CASE rec.type = 2 /\ s \notin DOMAIN rec.subs
  <2>1. InsertRecord(rec, e, l, s) = update_type2(rec, c, s, 1)
    BY <1>5 DEF InsertRecord, c
  <2>2. QED
    BY <1>0, <1>5, <2>1, RecordForms, UpdateType2
<1>6. QED
  BY <1>1, <1>2, <1>3, <1>4, <1>5, RecordForms

(* merge writes a well-formed record with room for a Type 2. *)
LEMMA MergeForms ==
    ASSUME NEW rec \in Record, NEW e \in Entropy, NEW l \in StoredLabel,
           NEW s \in SourceId, NEW n \in Nat,
           rec.type # 0 => Type2Size <= rec.size
    PROVE  LET new == MergeRecord(rec, e, l, s, n) IN
           /\ new \in Type1 \cup Type2
           /\ Type2Size <= new.size
<1> DEFINE c == MergeCount(rec, s, n)
<1>0. c \in Nat
  BY CountsAreNat
<1> HIDE DEF c
<1>1. CASE rec.type = 0
  <2>1. MergeRecord(rec, e, l, s, n) = new_type1(e, l, s, n)
    BY <1>1 DEF MergeRecord
  <2>2. QED
    BY <2>1, NewType1
<1>2. CASE rec.type # 0 /\ s \in Sources(rec)
  <2>1. MergeRecord(rec, e, l, s, n) = rec
    BY <1>2 DEF MergeRecord
  <2>2. QED
    BY <1>2, <2>1, RecordForms
<1>3. CASE rec.type = 1 /\ s \notin Sources(rec)
  <2>1. MergeRecord(rec, e, l, s, n) = split_type1(rec, c, s, n)
    BY <1>3 DEF MergeRecord, c
  <2>2. QED
    BY <1>0, <1>3, <2>1, SplitType1, RecordForms
<1>4. CASE rec.type = 2 /\ s \notin Sources(rec)
  <2>1. MergeRecord(rec, e, l, s, n) = update_type2(rec, c, s, n)
    BY <1>4 DEF MergeRecord, c
  <2>2. QED
    BY <1>0, <1>4, <2>1, RecordForms, UpdateType2
<1>5. QED
  BY <1>1, <1>2, <1>3, <1>4, RecordForms

(* What insert and merge return as the count is a uint64_t. *)
LEMMA CountsAreUint64 ==
    ASSUME NEW rec \in Record, NEW s \in SourceId, NEW n \in Nat
    PROVE  InsertCount(rec, s) \in uint64_t /\ MergeCount(rec, s, n) \in uint64_t
<1>1. \A x \in 0 .. Max2 : x \in uint64_t
  BY WidthAssumption DEF uint64_t
<1>2. \A x \in 0 .. Max4 : x \in uint64_t /\ get4(x) \in uint64_t
  BY WidthAssumption DEF uint64_t, get4, Max4
<1>3. 1 \in uint64_t
  BY WidthAssumption DEF uint64_t
<1>4. \A a, b \in Nat : add2(a, b) \in uint64_t /\ add4(a, b) \in uint64_t
  BY <1>1, <1>2, FieldsFit
<1>5. CASE rec.type = 0
  BY <1>3, <1>4, <1>5 DEF InsertCount, MergeCount
<1>6. CASE rec.type = 1
  <2>1. rec.sub_count \in Nat /\ rec.sub_count \in uint64_t
    BY <1>1, <1>6, RecordForms DEF Type1
  <2>2. QED
    BY <1>4, <1>6, <2>1 DEF find_count, InsertCount, MergeCount, Sources
<1>7. CASE rec.type = 2
  <2>1. get4(rec.count) \in Nat /\ get4(rec.count) \in uint64_t
    BY <1>2, <1>7, RecordForms, FieldsFit DEF Type2
  <2>2. QED
    BY <1>4, <1>7, <2>1 DEF find_count, InsertCount, MergeCount, Sources
<1>8. QED
  BY <1>5, <1>6, <1>7, RecordForms

(* insert and merge add the source to those of the hash, and no other. *)
LEMMA RecordSources ==
    ASSUME NEW rec \in Record, NEW e \in Entropy, NEW l \in StoredLabel,
           NEW s \in SourceId, NEW n \in Nat
    PROVE  /\ Sources(InsertRecord(rec, e, l, s)) = Sources(rec) \cup {s}
           /\ Sources(MergeRecord(rec, e, l, s, n)) = Sources(rec) \cup {s}
<1>1. CASE rec.type = 0
  BY <1>1 DEF InsertRecord, MergeRecord, new_type1, Sources
<1>2. CASE rec.type = 1
  <2>1. rec \in Type1
    BY <1>2, RecordForms
  <2>2. CASE rec.source_id = s
    BY <1>2, <2>1, <2>2
    DEF InsertRecord, MergeRecord, replace_type1, Type1, Sources
  <2>3. CASE rec.source_id # s
    BY <1>2, <2>1, <2>3
    DEF InsertRecord, MergeRecord, split_type1, put_type3, Sources
  <2>4. QED
    BY <2>2, <2>3
<1>3. CASE rec.type = 2
  <2>1. rec \in Type2
    BY <1>3, RecordForms
  <2>2. \A c, k :
          /\ update_type2(rec, c, s, k).type = 2
          /\ DOMAIN update_type2(rec, c, s, k).subs = DOMAIN rec.subs \cup {s}
    BY <2>1 DEF update_type2, put_type3, Type2
  <2>3. /\ \E c, k : InsertRecord(rec, e, l, s) = update_type2(rec, c, s, k)
        /\ \/ s \in Sources(rec) /\ MergeRecord(rec, e, l, s, n) = rec
           \/ \E c, k : MergeRecord(rec, e, l, s, n) = update_type2(rec, c, s, k)
    BY <1>3 DEF InsertRecord, MergeRecord, Sources
  <2>4. QED
    BY <1>3, <2>2, <2>3 DEF Sources
<1>4. QED
  BY <1>1, <1>2, <1>3, RecordForms

(* Adding one to a stored sub_count clips it. *)
LEMMA OneMore ==
    ASSUME NEW x \in 0 .. Max2
    PROVE  put2(add2(x, 1)) = put2(x + 1) /\ put2(1) = 1
<1>1. Plus64(x, 1) = x + 1
  BY WidthAssumption DEF Plus64
<1>2. QED
  BY <1>1, WidthAssumption DEF put2, add2

(* insert adds one to the sub_count of its source and keeps the others. *)
LEMMA InsertSubCounts ==
    ASSUME NEW rec \in Record, NEW e \in Entropy, NEW l \in StoredLabel,
           NEW s \in SourceId
    PROVE  \A x \in Sources(rec) \cup {s} :
              SubCount(InsertRecord(rec, e, l, s), x) =
                 IF x # s THEN SubCount(rec, x)
                 ELSE IF s \in Sources(rec) THEN put2(SubCount(rec, s) + 1)
                 ELSE 1
<1> DEFINE new == InsertRecord(rec, e, l, s)
           D == Sources(rec) \cup {s}
           one == IF s \in Sources(rec) THEN put2(SubCount(rec, s) + 1) ELSE 1
<1>1. \A x \in D : SubCount(new, x) = IF x = s THEN one ELSE SubCount(rec, x)
  <2>1. CASE rec.type = 0
    BY <2>1, WidthAssumption
    DEF InsertRecord, new_type1, put2, Sources, SubCount
  <2>2. CASE rec.type = 1 /\ rec.source_id = s
    <3>1. new = replace_type1(rec, add2(rec.sub_count, 1)) /\ rec \in Type1
      BY <2>2, RecordForms DEF InsertRecord, InsertCount
    <3>2. /\ new.type = 1 /\ new.source_id = s
          /\ new.sub_count = put2(add2(rec.sub_count, 1))
      BY <2>2, <3>1 DEF replace_type1, Type1
    <3>3. put2(add2(rec.sub_count, 1)) = put2(rec.sub_count + 1)
      BY <3>1, OneMore DEF Type1
    <3>4. QED
      BY <2>2, <3>2, <3>3 DEF Sources, SubCount
  <2>3. CASE rec.type = 1 /\ rec.source_id # s
    <3> DEFINE first == [x \in {rec.source_id} |-> rec.sub_count]
    <3>1. /\ new.type = 2
          /\ new.subs = put_type3(first, s, 1)
      BY <2>3 DEF InsertRecord, split_type1
    <3>2. put2(1) = 1
      BY WidthAssumption DEF put2
    <3>3. QED
      BY <2>3, <3>1, <3>2 DEF put_type3, Sources, SubCount
  <2>4. CASE rec.type = 2
    <3> DEFINE k == IF s \in DOMAIN rec.subs THEN add2(rec.subs[s], 1) ELSE 1
    <3>1. rec \in Type2
      BY <2>4, RecordForms
    <3>2. new = update_type2(rec, InsertCount(rec, s), s, k)
      BY <2>4 DEF InsertRecord
    <3>3. new.type = 2 /\ new.subs = put_type3(rec.subs, s, k)
      BY <3>1, <3>2 DEF update_type2, Type2
    <3>4. put2(k) = one
      <4>1. CASE s \in DOMAIN rec.subs
        <5>1. rec.subs[s] \in 0 .. Max2
          BY <3>1, <4>1, Type3Value DEF Type2
        <5>2. QED
          BY <2>4, <4>1, <5>1, OneMore DEF Sources, SubCount
      <4>2. CASE s \notin DOMAIN rec.subs
        BY <2>4, <4>2, WidthAssumption DEF put2, Sources
      <4>3. QED
        BY <4>1, <4>2
    <3> HIDE DEF k, one
    <3>5. QED
      BY <2>4, <3>3, <3>4 DEF put_type3, Sources, SubCount
  <2>5. QED
    BY <2>1, <2>2, <2>3, <2>4, RecordForms
<1>2. QED
  BY <1>1

(* merge sets the sub_count of a new source and keeps the others. *)
LEMMA MergeSubCounts ==
    ASSUME NEW rec \in Record, NEW e \in Entropy, NEW l \in StoredLabel,
           NEW s \in SourceId, NEW n \in Nat, s \notin Sources(rec)
    PROVE  \A x \in Sources(rec) \cup {s} :
              SubCount(MergeRecord(rec, e, l, s, n), x) =
                 IF x = s THEN put2(n) ELSE SubCount(rec, x)
<1> DEFINE new == MergeRecord(rec, e, l, s, n)
<1>1. CASE rec.type = 0
  BY <1>1 DEF MergeRecord, new_type1, Sources, SubCount
<1>2. CASE rec.type = 1
  <2> DEFINE first == [x \in {rec.source_id} |-> rec.sub_count]
  <2>1. /\ new.type = 2
        /\ new.subs = put_type3(first, s, n)
    BY <1>2 DEF MergeRecord, split_type1
  <2>2. QED
    BY <1>2, <2>1 DEF put_type3, Sources, SubCount
<1>3. CASE rec.type = 2
  <2>1. rec \in Type2
    BY <1>3, RecordForms
  <2>2. new = update_type2(rec, MergeCount(rec, s, n), s, n)
    BY <1>3 DEF MergeRecord
  <2>3. new.type = 2 /\ new.subs = put_type3(rec.subs, s, n)
    BY <2>1, <2>2 DEF update_type2, Type2
  <2>4. QED
    BY <1>3, <2>3 DEF put_type3, Sources, SubCount
<1>4. QED
  BY <1>1, <1>2, <1>3, RecordForms

(* The entropy and label of a hash are those of its first occurrence. *)
LEMMA KeepsAbout ==
    ASSUME NEW rec \in Record, NEW e \in Entropy, NEW l \in StoredLabel,
           NEW s \in SourceId, NEW n \in Nat
    PROVE  LET kept == IF AboutOf(rec) = <<>> THEN <<e, l>> ELSE AboutOf(rec) IN
           /\ AboutOf(InsertRecord(rec, e, l, s)) = kept
           /\ AboutOf(MergeRecord(rec, e, l, s, n)) = kept
<1>1. CASE rec.type = 0
  BY <1>1 DEF AboutOf, InsertRecord, MergeRecord, new_type1
<1>2. CASE rec.type = 1
  BY <1>2, RecordForms
  DEF AboutOf, InsertRecord, MergeRecord, replace_type1, split_type1, Type1
<1>3. CASE rec.type = 2
  BY <1>3, RecordForms
  DEF AboutOf, InsertRecord, MergeRecord, update_type2, Type2
<1>4. QED
  BY <1>1, <1>2, <1>3, RecordForms
=============================================================================
