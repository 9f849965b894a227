----------------------------- MODULE HashRecords ----------------------------
(***************************************************************************)
(* The records that the hash data store keeps under one block hash, and    *)
(* what insert, merge and find compute from them (lmdb_hash_data_manager   *)
(* and lmdb_hash_data_support).                                            *)
(*                                                                         *)
(*   Type 1: the only record of a hash that has one source;                *)
(*   Type 2: the first record of a hash that has several sources, followed *)
(*           by one Type 3 record per source.                              *)
(*                                                                         *)
(* The entropy and the block label are kept by every operation; both have  *)
(* the same encoding in Type 1 and in Type 2, so the size of a record is   *)
(* modelled by its other fields alone.                                     *)
(***************************************************************************)
EXTENDS FixedWidth, Sequences

CONSTANTS
    SourceId,      \* the source IDs in use, all > 0
    Entropy,       \* entropy values
    Label,         \* block labels passed to insert and merge (sequences)
    MaxLabelSize,  \* max_block_label_size
    VarintBase     \* 0x80: a number below it is encoded in one byte

ASSUME RecordAssumption ==
    /\ SourceId \subseteq Nat \ {0}
    /\ Label \subseteq Seq(STRING)
    /\ MaxLabelSize \in Nat
    /\ VarintBase \in Nat \ {0}

(* The hash has no record. *)
None == [type |-> 0]

(* The number of bytes that encode a source ID; "3" is "3 or more". *)
IdSize(source_id) ==
    IF source_id < VarintBase THEN 1
    ELSE IF source_id < VarintBase * VarintBase THEN 2 ELSE 3

(* A faulty variant of the next definition. *)
Padding_OneByte(source_id) == IF source_id < VarintBase THEN 1 ELSE 0

(* The padding that lets a Type 2 record take the place of a Type 1.       *)
Padding(source_id) ==
    (IF source_id < VarintBase * VarintBase THEN 1 ELSE 0)
    + (IF source_id < VarintBase THEN 1 ELSE 0)

Type1Size(source_id) == IdSize(source_id) + 2 + Padding(source_id)

(* The NULL byte and the 4-byte count. *)
Type2Size == 1 + 4

truncate_block_label(label) ==
    IF Len(label) > MaxLabelSize THEN SubSeq(label, 1, MaxLabelSize) ELSE label

(***************************************************************************)
(* Writing records.  A replaced record keeps the size of the old one.      *)
(***************************************************************************)
new_type1(k_entropy, label, source_id, sub_count) ==
    [type |-> 1, k_entropy |-> k_entropy, block_label |-> label,
     source_id |-> source_id, sub_count |-> put2(sub_count),
     size |-> Type1Size(source_id)]

replace_type1(rec, sub_count) == [rec EXCEPT !.sub_count = put2(sub_count)]

(* Type 3 records are the function from source ID to stored sub_count.     *)
put_type3(subs, source_id, sub_count) ==
    [s \in DOMAIN subs \cup {source_id} |->
        IF s = source_id THEN put2(sub_count) ELSE subs[s]]

(* A faulty variant of the next definition: the old source is dropped.     *)
split_type1_DropsOld(rec, count, source_id, sub_count) ==
    [type |-> 2, k_entropy |-> rec.k_entropy, block_label |-> rec.block_label,
     count |-> put4(count), size |-> rec.size,
     subs |-> put_type3([s \in {} |-> 0], source_id, sub_count)]

(* Split Type 1 into a Type 2 in the same space and two Type 3.            *)
split_type1(rec, count, source_id, sub_count) ==
    [type |-> 2, k_entropy |-> rec.k_entropy, block_label |-> rec.block_label,
     count |-> put4(count), size |-> rec.size,
     subs |-> put_type3([s \in {rec.source_id} |-> rec.sub_count],
                        source_id, sub_count)]

(* Replace the count of Type 2 and write one Type 3.                       *)
update_type2(rec, count, source_id, sub_count) ==
    [rec EXCEPT !.count = put4(count),
                !.subs = put_type3(rec.subs, source_id, sub_count)]

(***************************************************************************)
(* Reading records.                                                        *)
(***************************************************************************)
Sources(rec) ==
    CASE rec.type = 0 -> {}
      [] rec.type = 1 -> {rec.source_id}
      [] rec.type = 2 -> DOMAIN rec.subs

SubCount(rec, source_id) ==
    IF rec.type = 1 THEN rec.sub_count ELSE rec.subs[source_id]

(* The count that find and find_count report. *)
find_count(rec) ==
    CASE rec.type = 0 -> 0
      [] rec.type = 1 -> rec.sub_count
      [] rec.type = 2 -> get4(rec.count)

mismatched_data(rec, k_entropy, label) ==
    rec.type # 0 /\ (rec.k_entropy # k_entropy \/ rec.block_label # label)

(***************************************************************************)
(* insert: count one more occurrence of the hash in the source.            *)
(***************************************************************************)

(* A faulty variant of the next definition: the other source's occurrences *)
(* are not counted when Type 1 is split.                                   *)
InsertCount_SplitRestarts(rec, source_id) ==
    CASE rec.type = 0 -> 1
      [] rec.type = 1 /\ rec.source_id = source_id -> add2(rec.sub_count, 1)
      [] rec.type = 1 /\ rec.source_id # source_id -> 1
      [] rec.type = 2 -> add4(get4(rec.count), 1)

InsertCount(rec, source_id) ==
    CASE rec.type = 0 -> 1
      [] rec.type = 1 /\ rec.source_id = source_id -> add2(rec.sub_count, 1)
      [] rec.type = 1 /\ rec.source_id # source_id -> add4(rec.sub_count, 1)
      [] rec.type = 2 -> add4(get4(rec.count), 1)

InsertRecord(rec, k_entropy, label, source_id) ==
    LET count == InsertCount(rec, source_id) IN
    CASE rec.type = 0 -> new_type1(k_entropy, label, source_id, 1)
      [] rec.type = 1 /\ rec.source_id = source_id -> replace_type1(rec, count)
      [] rec.type = 1 /\ rec.source_id # source_id ->
            split_type1(rec, count, source_id, 1)
      [] rec.type = 2 /\ source_id \in DOMAIN rec.subs ->
            update_type2(rec, count, source_id, add2(rec.subs[source_id], 1))
      [] rec.type = 2 /\ source_id \notin DOMAIN rec.subs ->
            update_type2(rec, count, source_id, 1)

(***************************************************************************)
(* merge: set the source's sub_count, unless the source is already there.  *)
(***************************************************************************)

(* A faulty variant of the next definition: no count for a known source.   *)
MergeCount_KnownIsZero(rec, source_id, sub_count) ==
    CASE rec.type = 0 -> add2(sub_count, 0)
      [] rec.type # 0 /\ source_id \in Sources(rec) -> 0
      [] rec.type = 1 /\ source_id \notin Sources(rec) ->
            add4(rec.sub_count, sub_count)
      [] rec.type = 2 /\ source_id \notin Sources(rec) ->
            add4(get4(rec.count), sub_count)

MergeCount(rec, source_id, sub_count) ==
    CASE rec.type = 0 -> add2(sub_count, 0)
      [] rec.type # 0 /\ source_id \in Sources(rec) -> find_count(rec)
      [] rec.type = 1 /\ source_id \notin Sources(rec) ->
            add4(rec.sub_count, sub_count)
      [] rec.type = 2 /\ source_id \notin Sources(rec) ->
            add4(get4(rec.count), sub_count)

MergeRecord(rec, k_entropy, label, source_id, sub_count) ==
    LET count == MergeCount(rec, source_id, sub_count) IN
    CASE rec.type = 0 -> new_type1(k_entropy, label, source_id, sub_count)
      [] rec.type # 0 /\ source_id \in Sources(rec) -> rec
      [] rec.type = 1 /\ source_id \notin Sources(rec) ->
            split_type1(rec, count, source_id, sub_count)
      [] rec.type = 2 /\ source_id \notin Sources(rec) ->
            update_type2(rec, count, source_id, sub_count)

mismatched_sub_count(rec, source_id, sub_count) ==
    source_id \in Sources(rec) /\ SubCount(rec, source_id) # sub_count

(***************************************************************************)
(* The records that a hash can have, and what they say of it.              *)
(***************************************************************************)
StoredLabel == {truncate_block_label(l) : l \in Label}

(* The Type 3 records of a hash.                                           *)
Type3s == UNION {[S -> 0 .. Max2] : S \in SUBSET SourceId}

Type1 == [type : {1}, k_entropy : Entropy, block_label : StoredLabel,
          source_id : SourceId, sub_count : 0 .. Max2, size : Nat]

Type2 == [type : {2}, k_entropy : Entropy, block_label : StoredLabel,
          count : 0 .. Max4, size : Nat, subs : Type3s]

Record == {None} \cup Type1 \cup Type2

SubsOf(rec) == [s \in Sources(rec) |-> SubCount(rec, s)]

AboutOf(rec) ==
    IF rec.type = 0 THEN <<>> ELSE <<rec.k_entropy, rec.block_label>>
=============================================================================
