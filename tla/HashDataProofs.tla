--------------------------- MODULE HashDataProofs ---------------------------
(***************************************************************************)
(* Proofs about HashData, for every set of hashes, sources and labels and  *)
(* every width of the fields.                                              *)
(***************************************************************************)
EXTENDS HashData, HashRecordsProofs, TLAPS

(***************************************************************************)
(* The counts.                                                             *)
(***************************************************************************)

(* Below 2^31 a Type 2 record's count is read back as it was written. *)
LEMMA CountReadBack ==
    ASSUME NEW c \in Nat, c < Half4
    PROVE  put2(c) <= c /\ (c <= Max2 => put2(c) = c) /\ get4(put4(c)) = c
BY WidthAssumption DEF put2, put4, get4, Max4

(* Sums below 2^31 neither wrap nor clip at 4 bytes. *)
LEMMA SmallSums ==
    ASSUME NEW a \in Nat, NEW b \in Nat, a + b < Half4
    PROVE  /\ add4(a, b) = a + b
           /\ add2(a, b) <= a + b
           /\ a + b <= Max2 => add2(a, b) = a + b
<1>1. (a + b) % Size8 = a + b
  BY WidthAssumption
<1>2. QED
  BY <1>1, WidthAssumption DEF add2, add4, Plus64, Max4

(* insert counts one occurrence. *)
LEMMA InsertCounts ==
    ASSUME NEW rec \in Record, NEW e \in Entropy, NEW l \in StoredLabel,
           NEW s \in SourceId, NEW t \in Nat, Counted(rec, t)
    PROVE  Counted(InsertRecord(rec, e, l, s), t + 1)
<1> DEFINE c == InsertCount(rec, s)
           new == InsertRecord(rec, e, l, s)
<1>1. c \in Nat /\ find_count(rec) \in Nat
  BY CountsAreNat
<1>2. new.type \in {1, 2}
  BY RecordForms DEF InsertRecord, new_type1, replace_type1, split_type1,
                     update_type2, Type1, Type2
<1>3. ASSUME t + 1 < Half4
      PROVE  c <= t + 1 /\ (t + 1 <= Max2 => c = t + 1)
  <2>1. CASE rec.type = 0
    BY <2>1 DEF InsertCount, Counted
  <2>2. CASE rec.type = 1
    <3>1. find_count(rec) = rec.sub_count /\ rec.sub_count + 1 < Half4
      BY <1>1, <1>3, <2>2, WidthAssumption DEF find_count, Counted
    <3>2. QED
      BY <1>1, <1>3, <2>2, <3>1, SmallSums, WidthAssumption
      DEF InsertCount, Counted
  <2>3. CASE rec.type = 2
    <3>1. find_count(rec) = get4(rec.count) /\ get4(rec.count) + 1 < Half4
      BY <1>1, <1>3, <2>3, WidthAssumption DEF find_count, Counted
    <3>2. QED
      BY <1>1, <1>3, <2>3, <3>1, SmallSums, WidthAssumption
      DEF InsertCount, Counted
  <2>4. QED
    BY <2>1, <2>2, <2>3, RecordForms
<1>4. find_count(new) = put2(c) \/ find_count(new) = get4(put4(c))
  <2>1. CASE rec.type = 0
    BY <2>1 DEF InsertRecord, InsertCount, new_type1, find_count
  <2>2. CASE rec.type = 1 /\ rec.source_id = s
    BY <2>2, RecordForms DEF InsertRecord, replace_type1, Type1, find_count
  <2>3. CASE rec.type = 1 /\ rec.source_id # s
    BY <2>3 DEF InsertRecord, split_type1, find_count
  <2>4. CASE rec.type = 2
    BY <2>4, RecordForms DEF InsertRecord, update_type2, Type2, find_count
  <2>5. QED
    BY <2>1, <2>2, <2>3, <2>4, RecordForms
<1> HIDE DEF c, new
<1>5. ASSUME t + 1 < Half4
      PROVE  find_count(new) <= t + 1 /\ (t + 1 <= Max2 => find_count(new) = t + 1)
  <2>1. c \in Nat /\ c < Half4 /\ c <= t + 1 /\ (t + 1 <= Max2 => c = t + 1)
    BY <1>1, <1>3, <1>5, WidthAssumption
  <2>2. put2(c) <= c /\ (c <= Max2 => put2(c) = c) /\ get4(put4(c)) = c
    BY <2>1, CountReadBack
  <2>3. put2(c) \in Nat
    BY <2>1, FieldsFit
  <2>4. QED
    BY <1>4, <2>1, <2>2, <2>3
<1>6. Counted(new, t + 1)
  BY <1>2, <1>5, WidthAssumption DEF Counted
<1>7. QED
  BY <1>6 DEF new

(* merge counts what it adds for a new source. *)
LEMMA MergeCounts ==
    ASSUME NEW rec \in Record, NEW e \in Entropy, NEW l \in StoredLabel,
           NEW s \in SourceId, NEW n \in Nat, NEW t \in Nat, Counted(rec, t),
           s \notin Sources(rec)
    PROVE  Counted(MergeRecord(rec, e, l, s, n), t + n)
<1> DEFINE c == MergeCount(rec, s, n)
           new == MergeRecord(rec, e, l, s, n)
<1>1. c \in Nat /\ find_count(rec) \in Nat
  BY CountsAreNat
<1>2. new.type \in {1, 2}
  BY RecordForms DEF MergeRecord, new_type1, split_type1, update_type2,
                     Type1, Type2
<1>3. ASSUME t + n < Half4
      PROVE  c <= t + n /\ (t + n <= Max2 => c = t + n)
  <2>1. CASE rec.type = 0
    BY <1>3, <2>1, SmallSums DEF MergeCount, Counted
  <2>2. CASE rec.type = 1
    <3>1. find_count(rec) = rec.sub_count /\ rec.sub_count + n < Half4
      BY <1>1, <1>3, <2>2, WidthAssumption DEF find_count, Counted
    <3>2. QED
      BY <1>1, <1>3, <2>2, <3>1, SmallSums, WidthAssumption
      DEF MergeCount, Counted
  <2>3. CASE rec.type = 2
    <3>1. find_count(rec) = get4(rec.count) /\ get4(rec.count) + n < Half4
      BY <1>1, <1>3, <2>3, WidthAssumption DEF find_count, Counted
    <3>2. QED
      BY <1>1, <1>3, <2>3, <3>1, SmallSums, WidthAssumption
      DEF MergeCount, Counted
  <2>4. QED
    BY <2>1, <2>2, <2>3, RecordForms
<1>4. t + n < Half4 =>
        find_count(new) = put2(c) \/ find_count(new) = get4(put4(c))
  <2>1. CASE rec.type = 0
    <3>1. find_count(new) = put2(n)
      BY <2>1 DEF MergeRecord, new_type1, find_count
    <3>2. ASSUME n < Half4 PROVE put2(add2(n, 0)) = put2(n)
      <4>1. Plus64(n, 0) = n
        BY <3>2, WidthAssumption DEF Plus64
      <4>2. QED
        BY <4>1, WidthAssumption DEF put2, add2
    <3>3. QED
      BY <2>1, <3>1, <3>2 DEF MergeCount, Counted
  <2>2. CASE rec.type = 1
    BY <2>2 DEF MergeRecord, split_type1, find_count
  <2>3. CASE rec.type = 2
    <3>1. new = update_type2(rec, c, s, n)
      BY <2>3 DEF MergeRecord
    <3>2. rec \in Type2
      BY <2>3, RecordForms
    <3>3. new.type = 2 /\ new.count = put4(c)
      BY <3>1, <3>2 DEF update_type2, Type2
    <3>4. QED
      BY <3>3 DEF find_count
  <2>4. QED
    BY <2>1, <2>2, <2>3, RecordForms
<1> HIDE DEF c, new
<1>5. ASSUME t + n < Half4
      PROVE  find_count(new) <= t + n /\ (t + n <= Max2 => find_count(new) = t + n)
  <2>1. c \in Nat /\ c < Half4 /\ c <= t + n /\ (t + n <= Max2 => c = t + n)
    BY <1>1, <1>3, <1>5, WidthAssumption
  <2>2. put2(c) <= c /\ (c <= Max2 => put2(c) = c) /\ get4(put4(c)) = c
    BY <2>1, CountReadBack
  <2>3. put2(c) \in Nat
    BY <2>1, FieldsFit
  <2>4. QED
    BY <1>4, <1>5, <2>1, <2>2, <2>3
<1>6. Counted(new, t + n)
  BY <1>2, <1>5, WidthAssumption DEF Counted
<1>7. QED
  BY <1>6 DEF new

-----------------------------------------------------------------------------
(***************************************************************************)
(* The inductive invariant: the records are well formed, a Type 2 record   *)
(* always fits, and the counts are what was counted.                       *)
(***************************************************************************)
IInv == TypeOK /\ RecordsFit /\ CountFaithful

(* An empty store. *)
LEMMA InitIInv == Init => IInv
BY WidthAssumption
DEF Init, IInv, TypeOK, RecordsFit, CountFaithful, Counted, Record, None,
    Changes, find_count

(* insert keeps the invariant. *)
LEMMA InsertIInv ==
    ASSUME IInv, NEW h \in Hash, NEW e \in Entropy, NEW l \in Label,
           NEW s \in SourceId, insert(h, e, l, s)
    PROVE  IInv'
<1> DEFINE label == truncate_block_label(l)
           new == InsertRecord(store[h], e, label, s)
<1>1. label \in StoredLabel /\ store[h] \in Record /\ total[h] \in Nat
  BY DEF StoredLabel, IInv, TypeOK
<1>2. store[h].type # 0 => Type2Size <= store[h].size
  BY DEF IInv, RecordsFit
<1>3. new \in Type1 \cup Type2 /\ Type2Size <= new.size
  BY <1>1, <1>2, InsertForms
<1>4. Counted(new, total[h] + 1)
  BY <1>1, InsertCounts DEF IInv, CountFaithful
<1>5. store' = [store EXCEPT ![h] = new] /\ total' = [total EXCEPT ![h] = @ + 1]
  BY DEF insert
<1>6. changes' \in Changes
  <2> DEFINE i == changes.hash_data_inserted + 1
             m == changes.hash_data_mismatched_data_detected
                  + One(mismatched_data(store[h], e, label))
  <2>1. i \in Nat /\ m \in Nat /\ changes \in Changes
    BY DEF IInv, TypeOK, Changes, One
  <2>2. changes' = [changes EXCEPT
            !.hash_data_inserted = i,
            !.hash_data_mismatched_data_detected = m]
    BY Zenon DEF insert
  <2> HIDE DEF i, m
  <2>3. QED
    BY <2>1, <2>2 DEF Changes
<1> HIDE DEF label, new
<1>7. TypeOK'
  BY <1>1, <1>3, <1>5, <1>6 DEF IInv, TypeOK, Record
<1>8. RecordsFit'
  BY <1>3, <1>5 DEF IInv, TypeOK, RecordsFit
<1>9. CountFaithful'
  BY <1>4, <1>5 DEF IInv, TypeOK, CountFaithful
<1>10. QED
  BY <1>7, <1>8, <1>9 DEF IInv

(* merge keeps the invariant, for a known and for a new source. *)
LEMMA MergeIInv ==
    ASSUME IInv, NEW h \in Hash, NEW e \in Entropy, NEW l \in Label,
           NEW s \in SourceId, NEW n \in SubCount64, merge(h, e, l, s, n)
    PROVE  IInv'
<1> DEFINE label == truncate_block_label(l)
           known == s \in Sources(store[h])
           new == MergeRecord(store[h], e, label, s, n)
           sum == IF known THEN total[h] ELSE total[h] + n
<1>1. label \in StoredLabel /\ store[h] \in Record /\ total[h] \in Nat /\ n \in Nat
  BY HashDataAssumption, WidthAssumption DEF StoredLabel, IInv, TypeOK, uint64_t
<1>2. store[h].type # 0 => Type2Size <= store[h].size
  BY DEF IInv, RecordsFit
<1>3. new \in Type1 \cup Type2 /\ Type2Size <= new.size
  BY <1>1, <1>2, MergeForms
<1>4. Counted(new, sum)
  <2>1. CASE known
    <3>1. new = store[h]
      BY <1>1, <2>1, RecordForms DEF MergeRecord, Sources
    <3>2. QED
      BY <2>1, <3>1 DEF IInv, CountFaithful
  <2>2. CASE ~known
    BY <1>1, <2>2, MergeCounts DEF IInv, CountFaithful
  <2>3. QED
    BY <2>1, <2>2
<1>5. store' = [store EXCEPT ![h] = new] /\ total' = [total EXCEPT ![h] = sum]
  BY DEF merge
<1>6. changes' \in Changes
  <2> DEFINE u == changes.hash_data_merged + One(~known)
             k == changes.hash_data_merged_same + One(known)
             m == changes.hash_data_mismatched_data_detected
                  + One(mismatched_data(store[h], e, label))
             d == changes.hash_data_mismatched_sub_count_detected
                  + One(mismatched_sub_count(store[h], s, n))
  <2>1. u \in Nat /\ k \in Nat /\ m \in Nat /\ d \in Nat /\ changes \in Changes
    BY DEF IInv, TypeOK, Changes, One
  <2>2. changes' = [changes EXCEPT
            !.hash_data_merged = u,
            !.hash_data_merged_same = k,
            !.hash_data_mismatched_data_detected = m,
            !.hash_data_mismatched_sub_count_detected = d]
    BY Zenon DEF merge
  <2> HIDE DEF u, k, m, d
  <2>3. QED
    BY <2>1, <2>2 DEF Changes
<1>7. sum \in Nat
  BY <1>1
<1> HIDE DEF label, known, new, sum
<1>8. TypeOK'
  BY <1>1, <1>3, <1>5, <1>6, <1>7 DEF IInv, TypeOK, Record
<1>9. RecordsFit'
  BY <1>3, <1>5 DEF IInv, TypeOK, RecordsFit
<1>10. CountFaithful'
  BY <1>4, <1>5 DEF IInv, TypeOK, CountFaithful
<1>11. QED
  BY <1>8, <1>9, <1>10 DEF IInv

(* Every step keeps the invariant. *)
LEMMA NextIInv == IInv /\ [Next]_vars => IInv'
<1>1. ASSUME IInv, Next PROVE IInv'
  BY <1>1, InsertIInv, MergeIInv DEF Next
<1>2. ASSUME IInv, UNCHANGED vars PROVE IInv'
  BY <1>2 DEF IInv, TypeOK, RecordsFit, CountFaithful, vars
<1>3. QED
  BY <1>1, <1>2

(* The invariant holds in every reachable state. *)
LEMMA Invariance == Spec => []IInv
BY InitIInv, NextIInv, PTL DEF Spec

(* Records are always well formed. *)
THEOREM TypeCorrect == Spec => []TypeOK
<1>1. IInv => TypeOK
  BY DEF IInv
<1>2. QED
  BY <1>1, Invariance, PTL

(***************************************************************************)
(* Whatever the widths and the calls, find_count equals the number of      *)
(* occurrences counted up to Max2 and never exceeds it below 2^31.         *)
(***************************************************************************)
THEOREM CountsAreFaithful == Spec => []CountFaithful
<1>1. IInv => CountFaithful
  BY DEF IInv
<1>2. QED
  BY <1>1, Invariance, PTL

(* The size assertions of replace_record never fail. *)
THEOREM RecordsAlwaysFit == Spec => []RecordsFit
<1>1. IInv => RecordsFit
  BY DEF IInv
<1>2. QED
  BY <1>1, Invariance, PTL

-----------------------------------------------------------------------------
(***************************************************************************)
(* The store implements HashSources.  First, on the records of one hash.   *)
(***************************************************************************)

(* Clipping a number is what writing it into two bytes does. *)
LEMMA ClipIsPut2 == \A n : Abstract!Clip(n) = put2(n)
BY DEF Abstract!Clip, put2

(* insert adds one to the sub_count of its source and keeps the others. *)
LEMMA InsertSubs ==
    ASSUME NEW rec \in Record, NEW e \in Entropy, NEW l \in StoredLabel,
           NEW s \in SourceId
    PROVE  LET old == SubsOf(rec) IN
           SubsOf(InsertRecord(rec, e, l, s)) =
             Abstract!With(old, s, IF s \in DOMAIN old
                                   THEN Abstract!Clip(old[s] + 1) ELSE 1)
BY RecordSources, InsertSubCounts, ClipIsPut2 DEF SubsOf, Abstract!With

(* merge sets the sub_count of a new source and keeps the others. *)
LEMMA MergeSubs ==
    ASSUME NEW rec \in Record, NEW e \in Entropy, NEW l \in StoredLabel,
           NEW s \in SourceId, NEW n \in Nat, s \notin Sources(rec)
    PROVE  SubsOf(MergeRecord(rec, e, l, s, n)) =
             Abstract!With(SubsOf(rec), s, Abstract!Clip(put2(n)))
<1>1. put2(put2(n)) = put2(n)
  BY WidthAssumption DEF put2
<1>2. QED
  BY <1>1, RecordSources, MergeSubCounts, ClipIsPut2
  DEF SubsOf, Abstract!With

(* Abbreviations for the state of HashSources that a state stands for. *)
SubsMap == [h \in Hash |-> SubsOf(store[h])]
AboutMap == [h \in Hash |-> AboutOf(store[h])]

(* insert is Insert of HashSources. *)
LEMMA InsertRefines ==
    ASSUME IInv, NEW h \in Hash, NEW e \in Entropy, NEW l \in Label,
           NEW s \in SourceId, insert(h, e, l, s)
    PROVE  Abstract!Insert(h, s, e, truncate_block_label(l))
<1> DEFINE label == truncate_block_label(l)
           new == InsertRecord(store[h], e, label, s)
<1>1. label \in StoredLabel /\ store[h] \in Record
  BY DEF StoredLabel, IInv, TypeOK
<1>2. store' = [store EXCEPT ![h] = new] /\ store \in [Hash -> Record]
  BY DEF insert, IInv, TypeOK
<1>3. SubsOf(new) = Abstract!With(SubsOf(store[h]), s,
        IF s \in DOMAIN SubsOf(store[h])
        THEN Abstract!Clip(SubsOf(store[h])[s] + 1) ELSE 1)
  BY <1>1, InsertSubs
<1>4. AboutOf(new) = IF AboutOf(store[h]) = <<>> THEN <<e, label>>
                     ELSE AboutOf(store[h])
  BY <1>1, KeepsAbout
<1> HIDE DEF new, label
<1>5. SubsMap' = [SubsMap EXCEPT ![h] = SubsOf(new)]
  BY <1>2 DEF SubsMap
<1>6. AboutMap' = [AboutMap EXCEPT ![h] = AboutOf(new)]
  BY <1>2 DEF AboutMap
<1>7. SubsMap[h] = SubsOf(store[h]) /\ AboutMap[h] = AboutOf(store[h])
  BY DEF SubsMap, AboutMap
<1>8. QED
  BY <1>3, <1>4, <1>5, <1>6, <1>7
  DEF Abstract!Insert, Abstract!Describe, SubsMap, AboutMap, label

(* merge is Merge of HashSources, or changes nothing. *)
LEMMA MergeRefines ==
    ASSUME IInv, NEW h \in Hash, NEW e \in Entropy, NEW l \in Label,
           NEW s \in SourceId, NEW n \in SubCount64, merge(h, e, l, s, n)
    PROVE  \/ UNCHANGED store
           \/ Abstract!Merge(h, s, put2(n), e, truncate_block_label(l))
<1> DEFINE label == truncate_block_label(l)
           new == MergeRecord(store[h], e, label, s, n)
<1>1. /\ label \in StoredLabel /\ store[h] \in Record /\ n \in Nat
      /\ store' = [store EXCEPT ![h] = new] /\ store \in [Hash -> Record]
  BY HashDataAssumption, WidthAssumption
  DEF StoredLabel, IInv, TypeOK, uint64_t, merge
<1>2. CASE s \in Sources(store[h])
  <2>1. new = store[h]
    BY <1>1, <1>2, RecordForms DEF MergeRecord, Sources
  <2>2. QED
    BY <1>1, <2>1
<1>3. CASE s \notin Sources(store[h])
  <2>1. SubsOf(new) = Abstract!With(SubsOf(store[h]), s, Abstract!Clip(put2(n)))
    BY <1>1, <1>3, MergeSubs
  <2>2. AboutOf(new) = IF AboutOf(store[h]) = <<>> THEN <<e, label>>
                       ELSE AboutOf(store[h])
    BY <1>1, KeepsAbout
  <2>3. s \notin DOMAIN SubsOf(store[h])
    BY <1>3 DEF SubsOf
  <2> HIDE DEF new, label
  <2>4. /\ SubsMap' = [SubsMap EXCEPT ![h] = SubsOf(new)]
        /\ AboutMap' = [AboutMap EXCEPT ![h] = AboutOf(new)]
        /\ SubsMap[h] = SubsOf(store[h])
        /\ AboutMap[h] = AboutOf(store[h])
    BY <1>1 DEF SubsMap, AboutMap
  <2>5. QED
    BY <2>1, <2>2, <2>3, <2>4
    DEF Abstract!Merge, Abstract!Describe, SubsMap, AboutMap, label
<1>4. QED
  BY <1>2, <1>3

(***************************************************************************)
(* The transitions between record types are invisible: the store behaves   *)
(* as a map from (hash, source) to a clipped sub_count in which insert     *)
(* adds one and merge sets the sub_count of a new source.                  *)
(***************************************************************************)
THEOREM StoreImplementsHashSources == Spec => ImplementsHashSources
<1>1. Init => Abstract!Init
  BY DEF Init, Abstract!Init, SubsOf, AboutOf, None, Sources
<1>2. ASSUME IInv, [Next]_vars
      PROVE  [Abstract!Next]_(Abstract!vars)
  <2>1. ASSUME NEW h \in Hash, NEW e \in Entropy, NEW l \in Label,
               NEW s \in SourceId, insert(h, e, l, s)
        PROVE  Abstract!Next
    BY <1>2, <2>1, InsertRefines DEF Abstract!Next, StoredLabel
  <2>2. ASSUME NEW h \in Hash, NEW e \in Entropy, NEW l \in Label,
               NEW s \in SourceId, NEW n \in SubCount64, merge(h, e, l, s, n)
        PROVE  Abstract!Next \/ UNCHANGED store
    <3>1. put2(n) \in 0 .. Max2
      BY FieldsFit, HashDataAssumption, WidthAssumption DEF uint64_t
    <3>2. QED
      BY <1>2, <2>2, <3>1, MergeRefines DEF Abstract!Next, StoredLabel
  <2>3. UNCHANGED store => UNCHANGED Abstract!vars
    BY DEF Abstract!vars
  <2>4. UNCHANGED vars => UNCHANGED store
    BY DEF vars
  <2>5. QED
    BY <1>2, <2>1, <2>2, <2>3, <2>4 DEF Next
<1>3. QED
  BY <1>1, <1>2, Invariance, PTL DEF Spec, ImplementsHashSources, Abstract!Spec
=============================================================================
