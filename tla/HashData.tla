------------------------------ MODULE HashData ------------------------------
(***************************************************************************)
(* The LMDB hash data store as its callers see it: insert and merge each   *)
(* hold the store's mutex and run in one LMDB write transaction, so each   *)
(* is one step.  A call with an empty block hash returns before it takes   *)
(* the mutex and changes nothing; it is not modelled.                      *)
(***************************************************************************)
EXTENDS HashRecords

CONSTANTS
    Hash,       \* block hashes
    SubCount64, \* sub_counts passed to merge (a JSON import takes any uint64)
    MaxCalls    \* bound: the number of calls of insert and merge

ASSUME HashDataAssumption ==
    /\ SubCount64 \subseteq uint64_t
    /\ MaxCalls \in Nat

VARIABLES
    store,    \* store[h]: the records of h
    changes,  \* the hash data counters of lmdb_changes_t
    total     \* history: total[h] is the number of occurrences of h counted
              \* so far, with no limit on its size

vars == <<store, changes, total>>

Changes == [hash_data_inserted : Nat,
            hash_data_merged : Nat,
            hash_data_merged_same : Nat,
            hash_data_mismatched_data_detected : Nat,
            hash_data_mismatched_sub_count_detected : Nat]

Calls == changes.hash_data_inserted + changes.hash_data_merged
         + changes.hash_data_merged_same

One(condition) == IF condition THEN 1 ELSE 0

Init ==
    /\ store = [h \in Hash |-> None]
    /\ changes = [hash_data_inserted |-> 0,
                  hash_data_merged |-> 0,
                  hash_data_merged_same |-> 0,
                  hash_data_mismatched_data_detected |-> 0,
                  hash_data_mismatched_sub_count_detected |-> 0]
    /\ total = [h \in Hash |-> 0]

insert(h, k_entropy, p_block_label, source_id) ==
    LET label == truncate_block_label(p_block_label) IN
    /\ Calls < MaxCalls
    /\ store' = [store EXCEPT ![h] =
                    InsertRecord(store[h], k_entropy, label, source_id)]
    /\ changes' = [changes EXCEPT
          !.hash_data_inserted = @ + 1,
          !.hash_data_mismatched_data_detected =
              @ + One(mismatched_data(store[h], k_entropy, label))]
    /\ total' = [total EXCEPT ![h] = @ + 1]

merge(h, k_entropy, p_block_label, source_id, sub_count) ==
    LET label == truncate_block_label(p_block_label)
        known == source_id \in Sources(store[h]) IN
    /\ Calls < MaxCalls
    /\ store' = [store EXCEPT ![h] =
          MergeRecord(store[h], k_entropy, label, source_id, sub_count)]
    /\ changes' = [changes EXCEPT
          !.hash_data_merged = @ + One(~known),
          !.hash_data_merged_same = @ + One(known),
          !.hash_data_mismatched_data_detected =
              @ + One(mismatched_data(store[h], k_entropy, label)),
          !.hash_data_mismatched_sub_count_detected =
              @ + One(mismatched_sub_count(store[h], source_id, sub_count))]
    /\ total' = [total EXCEPT ![h] = IF known THEN @ ELSE @ + sub_count]

Next ==
    \E h \in Hash, e \in Entropy, l \in Label, s \in SourceId :
        \/ insert(h, e, l, s)
        \/ \E n \in SubCount64 : merge(h, e, l, s, n)

Spec == Init /\ [][Next]_vars

-----------------------------------------------------------------------------
(* Every record is of a known type and its numbers fit their fields.       *)
TypeOK ==
    /\ store \in [Hash -> Record]
    /\ changes \in Changes
    /\ total \in [Hash -> Nat]

(* What is known of the records of a hash after t occurrences of it.       *)
Counted(rec, t) ==
    /\ rec.type = 0 => t = 0
    /\ t <= Max2 => find_count(rec) = t
    /\ t < Half4 => find_count(rec) <= t

(***************************************************************************)
(* find_count reports every occurrence that was counted, as long as they   *)
(* all fit in a 2-byte field; above that it never reports more than were   *)
(* counted, as long as they are below 2^31.  The count is kept next to the *)
(* sub_counts it should be the sum of, and the branches of insert and      *)
(* merge update them separately.                                           *)
(***************************************************************************)
CountFaithful == \A h \in Hash : Counted(store[h], total[h])

(***************************************************************************)
(* The assertions of replace_record cannot fail: the Type 2 record that    *)
(* replaces a Type 1 record fits in its space, whatever the number of      *)
(* bytes that the source ID of the Type 1 record took.                     *)
(***************************************************************************)
RecordsFit ==
    \A h \in Hash : store[h].type # 0 => Type2Size <= store[h].size

(***************************************************************************)
(* The store implements the abstract map from (hash, source) to sub_count: *)
(* no transition between record types loses, adds or changes a source.     *)
(***************************************************************************)
Abstract == INSTANCE HashSources WITH
    subs <- [h \in Hash |-> SubsOf(store[h])],
    about <- [h \in Hash |-> AboutOf(store[h])]

ImplementsHashSources == Abstract!Spec
=============================================================================
