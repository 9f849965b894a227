---------------------------- MODULE ImportManager ---------------------------
(***************************************************************************)
(* import_manager_t over its five stores.  Each store has a mutex of its   *)
(* own and writes in one LMDB transaction, but an API call goes through    *)
(* several stores and holds nothing between them.  Threads that share the  *)
(* import manager therefore interleave at the store calls, which are the   *)
(* steps of this module, and a process that dies leaves what the store     *)
(* calls before that point have written.                                   *)
(*                                                                         *)
(* Calls with an empty block hash or file hash return at once and are not  *)
(* modelled.  import_json is a sequence of the four calls below made by    *)
(* one thread.  The change counters are reporting only; HashData has them. *)
(***************************************************************************)
EXTENDS HashRecords, ApproximateCount, FiniteSets

CONSTANTS
    Thread,     \* the threads that share the import manager
    File,       \* file hashes
    Hash,       \* block hashes
    Prefix,     \* what num_prefix_bytes bytes of a block hash can be
    prefix,     \* prefix[h]: the first num_prefix_bytes bytes of h
    Name,       \* (repository name, filename) pairs
    Data,       \* file size, file type, zero count and nonprobative count
    Blank,      \* the member of Data that stands for 0, "", 0, 0
    SubCounts,  \* sub_counts passed to merge_hash
    MaxCalls,   \* bound: the number of API calls
    MaxCrashes  \* bound: the number of times the process dies

ASSUME ImportAssumption ==
    /\ IsFiniteSet(File)
    /\ SourceId = 1 .. Cardinality(File)
    /\ prefix \in [Hash -> Prefix]
    /\ Blank \in Data
    /\ SubCounts \subseteq uint64_t
    /\ MaxCalls \in Nat /\ MaxCrashes \in Nat

VARIABLES
    source_id_store,    \* source_id_store[f]: the source ID of f, 0 for none
    source_name_store,  \* source_name_store[i]: the names of source i
    source_data_store,  \* source_data_store[i]: file and data, or NoData
    hash_data_store,    \* hash_data_store[h]: the records of h
    hash_store,         \* hash_store[p]: the count byte of p, or NoByte
    frame,              \* frame[t]: the API call that t is in, and its locals
    calls, crashes,     \* numbers of calls and of crashes so far
    returned            \* history: the API calls that have returned

stores == <<source_id_store, source_name_store, source_data_store,
            hash_data_store, hash_store>>

vars == <<stores, frame, calls, crashes, returned>>

NoData == [found |-> FALSE]

NoByte == <<>>

Idle == [pc |-> "idle"]

NameCall == [op : {"insert_source_name"}, file : File, name : Name]
DataCall == [op : {"insert_source_data"}, file : File, data : Data]
InsertCall == [op : {"insert_hash"}, file : File, hash : Hash,
               k_entropy : Entropy, label : Label]
MergeCall == [op : {"merge_hash"}, file : File, hash : Hash,
              k_entropy : Entropy, label : Label, sub_count : SubCounts]

Call == NameCall \cup DataCall \cup InsertCall \cup MergeCall

Init ==
    /\ source_id_store = [f \in File |-> 0]
    /\ source_name_store = [i \in SourceId |-> {}]
    /\ source_data_store = [i \in SourceId |-> NoData]
    /\ hash_data_store = [h \in Hash |-> None]
    /\ hash_store = [p \in Prefix |-> NoByte]
    /\ frame = [t \in Thread |-> Idle]
    /\ calls = 0 /\ crashes = 0
    /\ returned = {}

(* A faulty variant of the next definition. *)
size_OfSourceData ==
    Cardinality({i \in SourceId : source_data_store[i] # NoData})

(* The number of source IDs in the store. *)
size == Cardinality({f \in File : source_id_store[f] # 0})

pc(t) == frame[t].pc

Goto(t, label) == frame' = [frame EXCEPT ![t].pc = label]

Return(t) ==
    /\ frame' = [frame EXCEPT ![t] = Idle]
    /\ returned' = returned \cup {frame[t].call}

(* A faulty variant of the next definition. *)
FinishWithBlank_Never(t) == Return(t)

(* Another.                                                                *)
FinishWithBlank_Always(t) == Goto(t, "source_data") /\ UNCHANGED returned

(* "If the source ID is new then add a blank source data record".          *)
FinishWithBlank(t) ==
    IF frame[t].is_new_id
    THEN Goto(t, "source_data") /\ UNCHANGED returned
    ELSE Return(t)

(* The caller enters one of the four calls. *)
Enter(t, call) ==
    /\ pc(t) = "idle"
    /\ calls < MaxCalls
    /\ frame' = [frame EXCEPT ![t] = [pc |-> "source_id", call |-> call]]
    /\ calls' = calls + 1
    /\ UNCHANGED <<stores, crashes, returned>>

(* lmdb_source_id_manager_t::insert, the first step of every call.         *)
InsertSourceId(t) ==
    LET call == frame[t].call
        is_new == source_id_store[call.file] = 0
        id == IF is_new THEN size + 1 ELSE source_id_store[call.file]
        next == [insert_source_name |-> "source_name",
                 insert_source_data |-> "source_data",
                 insert_hash |-> "hash_data",
                 merge_hash |-> "hash_data"] IN
    /\ pc(t) = "source_id"
    /\ source_id_store' = [source_id_store EXCEPT ![call.file] = id]
    /\ frame' = [frame EXCEPT ![t] =
                    [pc |-> next[call.op], call |-> call,
                     source_id |-> id, is_new_id |-> is_new, count |-> 0]]
    /\ UNCHANGED <<source_name_store, source_data_store, hash_data_store,
                   hash_store, calls, crashes, returned>>

(* lmdb_source_name_manager_t::insert.                                     *)
InsertSourceName(t) ==
    /\ pc(t) = "source_name"
    /\ source_name_store' = [source_name_store EXCEPT ![frame[t].source_id] =
                                @ \cup {frame[t].call.name}]
    /\ FinishWithBlank(t)
    /\ UNCHANGED <<source_id_store, source_data_store, hash_data_store,
                   hash_store, calls, crashes>>

(* lmdb_hash_data_manager_t::insert.                                       *)
InsertHashData(t) ==
    LET call == frame[t].call
        id == frame[t].source_id
        rec == hash_data_store[call.hash]
        label == truncate_block_label(call.label) IN
    /\ pc(t) = "hash_data"
    /\ call.op = "insert_hash"
    /\ hash_data_store' = [hash_data_store EXCEPT ![call.hash] =
                              InsertRecord(rec, call.k_entropy, label, id)]
    /\ frame' = [frame EXCEPT ![t] =
            [frame[t] EXCEPT !.pc = "hash_store",
                             !.count = InsertCount(rec, id)]]
    /\ UNCHANGED <<source_id_store, source_name_store, source_data_store,
                   hash_store, calls, crashes, returned>>

(* lmdb_hash_data_manager_t::merge.                                        *)
MergeHashData(t) ==
    LET call == frame[t].call
        id == frame[t].source_id
        rec == hash_data_store[call.hash]
        label == truncate_block_label(call.label) IN
    /\ pc(t) = "hash_data"
    /\ call.op = "merge_hash"
    /\ hash_data_store' = [hash_data_store EXCEPT ![call.hash] =
            MergeRecord(rec, call.k_entropy, label, id, call.sub_count)]
    /\ frame' = [frame EXCEPT ![t] =
            [frame[t] EXCEPT !.pc = "hash_store",
                             !.count = MergeCount(rec, id, call.sub_count)]]
    /\ UNCHANGED <<source_id_store, source_name_store, source_data_store,
                   hash_store, calls, crashes, returned>>

(* lmdb_hash_manager_t::insert: the last writer of a prefix wins.          *)
InsertHashStore(t) ==
    /\ pc(t) = "hash_store"
    /\ hash_store' = [hash_store EXCEPT ![prefix[frame[t].call.hash]] =
                         count_to_byte(frame[t].count)]
    /\ FinishWithBlank(t)
    /\ UNCHANGED <<source_id_store, source_name_store, source_data_store,
                   hash_data_store, calls, crashes>>

(* lmdb_source_data_manager_t::insert, which overwrites what differs.      *)
InsertSourceData(t) ==
    LET call == frame[t].call IN
    /\ pc(t) = "source_data"
    /\ source_data_store' = [source_data_store EXCEPT ![frame[t].source_id] =
            [found |-> TRUE, file |-> call.file,
             data |-> IF call.op = "insert_source_data"
                      THEN call.data ELSE Blank]]
    /\ Return(t)
    /\ UNCHANGED <<source_id_store, source_name_store, hash_data_store,
                   hash_store, calls, crashes>>

(* The process dies and a new one opens the stores: every transaction that *)
(* was committed is in the file cache, and nothing else is left.           *)
Crash ==
    /\ crashes < MaxCrashes
    /\ crashes' = crashes + 1
    /\ frame' = [t \in Thread |-> Idle]
    /\ UNCHANGED <<stores, calls, returned>>

Step(t) ==
    \/ \E call \in Call : Enter(t, call)
    \/ InsertSourceId(t)
    \/ InsertSourceName(t)
    \/ InsertHashData(t)
    \/ MergeHashData(t)
    \/ InsertHashStore(t)
    \/ InsertSourceData(t)

Next == \E t \in Thread : Step(t)

Spec == Init /\ [][Next]_vars

CrashSpec == Init /\ [][Next \/ Crash]_vars

-----------------------------------------------------------------------------
(***************************************************************************)
(* What scan_manager_t reads when nobody writes.                           *)
(***************************************************************************)

(* lmdb_hash_manager_t::find. *)
ApproximateHashCount(h) ==
    LET b == hash_store[prefix[h]] IN
    IF b = NoByte THEN 0 ELSE byte_to_count(b)

(* The sources of h whose look-up in the source data store fails.          *)
LookupFails(h) ==
    {i \in Sources(hash_data_store[h]) : source_data_store[i] = NoData}

-----------------------------------------------------------------------------
Quiet == \A t \in Thread : frame[t] = Idle

Frame ==
    {Idle}
    \cup [pc : {"source_id"}, call : Call]
    \cup [pc : {"source_name"}, call : NameCall, source_id : SourceId,
          is_new_id : BOOLEAN, count : uint64_t]
    \cup [pc : {"hash_data", "hash_store"}, call : InsertCall \cup MergeCall,
          source_id : SourceId, is_new_id : BOOLEAN, count : uint64_t]
    \cup [pc : {"source_data"}, call : Call, source_id : SourceId,
          is_new_id : BOOLEAN, count : uint64_t]

(* The stores and the frames hold what the code can put into them.         *)
TypeOK ==
    /\ source_id_store \in [File -> SourceId \cup {0}]
    /\ source_name_store \in [SourceId -> SUBSET Name]
    /\ source_data_store \in
          [SourceId -> {NoData} \cup
                       [found : {TRUE}, file : File, data : Data]]
    /\ hash_data_store \in [Hash -> Record]
    /\ hash_store \in [Prefix -> Byte \cup {NoByte}]
    /\ frame \in [Thread -> Frame]
    /\ calls \in Nat /\ crashes \in Nat
    /\ returned \subseteq Call

(***************************************************************************)
(* Source IDs are 1, 2, ... without a gap and no two files share one: the  *)
(* ID is computed from the size of the store, so this depends on the mutex *)
(* of the source ID store and on nothing ever being removed.               *)
(***************************************************************************)
IdsDense ==
    /\ \A f, g \in File :
          source_id_store[f] = source_id_store[g] /\ source_id_store[f] # 0
              => f = g
    /\ \A f \in File : source_id_store[f] <= size

(* The source IDs that were given out. *)
UsedIds == {source_id_store[f] : f \in File} \ {0}

(***************************************************************************)
(* The assertion of find_source_data: the source data found through the    *)
(* ID of a file names that file.  And every ID in the other stores is one  *)
(* that the source ID store gave out.                                      *)
(***************************************************************************)
SourceDataNamesFile ==
    /\ \A f \in File :
          LET i == source_id_store[f] IN
          i # 0 /\ source_data_store[i] # NoData
              => source_data_store[i].file = f
    /\ \A i \in SourceId :
          source_data_store[i] # NoData \/ source_name_store[i] # {}
              => i \in UsedIds
    /\ \A h \in Hash : Sources(hash_data_store[h]) \subseteq UsedIds

(* t is in a call that created source ID i, or that will write its data.   *)
WillDescribe(t, i) ==
    /\ pc(t) \in {"source_name", "hash_data", "hash_store", "source_data"}
    /\ frame[t].source_id = i
    /\ frame[t].is_new_id \/ pc(t) = "source_data"

(***************************************************************************)
(* A source ID without source data has a thread on its way to write it:    *)
(* the thread that created it, wherever it was overtaken.                  *)
(***************************************************************************)
PendingSourceData ==
    \A i \in UsedIds :
        source_data_store[i] = NoData => \E t \in Thread : WillDescribe(t, i)

(***************************************************************************)
(* "source_data must have a source_id to match the source_id in hash_data" *)
(* (the assertion in find_hash): with no call under way, the look-up of    *)
(* every source of every hash succeeds.                                    *)
(***************************************************************************)
ReverseLookup == Quiet => \A h \in Hash : LookupFails(h) = {}

(***************************************************************************)
(* The stores together implement the abstract map from hash and FILE to    *)
(* sub_count: the source IDs in between are never mixed up.                *)
(***************************************************************************)
FilesOf(rec) == {f \in File : source_id_store[f] \in Sources(rec)}

Abstract == INSTANCE HashSources WITH
    SourceId <- File,
    subs <- [h \in Hash |->
               [f \in FilesOf(hash_data_store[h]) |->
                   SubCount(hash_data_store[h], source_id_store[f])]],
    about <- [h \in Hash |-> AboutOf(hash_data_store[h])]

ImplementsHashSources == Abstract!Spec

(* t is in a call that created source ID i and has still to write the      *)
(* blank record of it, which insert_source_data alone does not write.      *)
OwesBlank(t, i) ==
    /\ pc(t) \in {"source_name", "hash_data", "hash_store", "source_data"}
    /\ frame[t].source_id = i
    /\ frame[t].is_new_id
    /\ frame[t].call.op # "insert_source_data"

(* No blank record of source ID i is under way.                            *)
Settled(i) == \A t \in Thread : ~OwesBlank(t, i)

(* This step of t is the store of insert_source_data for source ID i.      *)
Describes(t, i) ==
    /\ pc(t) = "source_data"
    /\ frame[t].source_id = i
    /\ frame[t].call.op = "insert_source_data"
    /\ source_data_store'[i].data = frame[t].call.data

(***************************************************************************)
(* No step, and no crash, takes an ID from a file, a name from a source, a *)
(* source from a hash, or from a source the fact that it has data.  The    *)
(* data itself can be lost: a call that created the ID of a source writes  *)
(* a blank record as its last step, and when another thread gave the       *)
(* source its data in between, the blank record replaces it (the if        *)
(* statements at the end of insert_source_name, insert_hash and            *)
(* merge_hash), although hashdb.hpp says "All interfaces are locked and    *)
(* threadsafe".  That is all that is lost: once no such call is under way  *)
(* for a source none ever is again, and then only insert_source_data       *)
(* changes what the source is said to be.                                  *)
(***************************************************************************)
NothingForgotten ==
    [][/\ \A f \in File : source_id_store[f] # 0
              => source_id_store'[f] = source_id_store[f]
       /\ \A i \in SourceId :
             /\ source_data_store[i] # NoData
                    => source_data_store'[i] # NoData
             /\ source_name_store[i] \subseteq source_name_store'[i]
       /\ \A i \in UsedIds : Settled(i) =>
             /\ Settled(i)'
             /\ \/ source_data_store'[i] = source_data_store[i]
                \/ \E t \in Thread : Describes(t, i)
       /\ \A h \in Hash : Sources(hash_data_store[h])
                              \subseteq Sources(hash_data_store'[h])]_vars
=============================================================================
