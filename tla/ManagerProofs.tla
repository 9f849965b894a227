--------------------------- MODULE ManagerProofs ----------------------------
(***************************************************************************)
(* Proofs about ImportManager, for all sets of threads, files, hashes and  *)
(* names, any number of calls and, where it says so, of crashes; then      *)
(* about ScanManager, whose scanning threads, any number of them, run      *)
(* beside the importing threads, and so rest on the first part; and about  *)
(* the one-byte counts (ApproximateCount), which the last of its theorems  *)
(* needs.                                                                  *)
(***************************************************************************)
EXTENDS ScanManager, HashRecordsProofs, FiniteSetTheorems, TLAPS,
        NaturalsInduction, WellFoundedInduction

(***************************************************************************)
(* The import manager.                                                     *)
(***************************************************************************)
(* The program points at which a call has its source ID. *)
HasId == {"source_name", "hash_data", "hash_store", "source_data"}

(* The types, but for the bytes of the hash store: only what a scan finds  *)
(* depends on them, and Present below says of them what it needs.          *)
Types ==
    /\ source_id_store \in [File -> SourceId \cup {0}]
    /\ source_name_store \in [SourceId -> SUBSET Name]
    /\ source_data_store \in
          [SourceId -> {NoData} \cup
                       [found : {TRUE}, file : File, data : Data]]
    /\ hash_data_store \in [Hash -> Record]
    /\ frame \in [Thread -> Frame]

(* A Type 2 record fits in the place of every stored record. *)
Room ==
    \A h \in Hash : hash_data_store[h].type # 0
                        => Type2Size <= hash_data_store[h].size

(* A call that has a source ID has the one of its file. *)
OwnId ==
    \A t \in Thread : pc(t) \in HasId =>
        frame[t].source_id = source_id_store[frame[t].call.file]

(* The inductive invariant, also with crashes. *)
IInv == Types /\ Room /\ OwnId /\ IdsDense /\ SourceDataNamesFile

-----------------------------------------------------------------------------
(* The forms of a frame. *)
LEMMA FrameForms ==
    ASSUME Types, NEW t \in Thread
    PROVE  /\ frame[t] \in Frame
           /\ pc(t) = "source_id" =>
                frame[t] \in [pc : {"source_id"}, call : Call]
           /\ pc(t) = "source_name" =>
                frame[t] \in [pc : {"source_name"}, call : NameCall,
                    source_id : SourceId, is_new_id : BOOLEAN, count : uint64_t]
           /\ pc(t) \in {"hash_data", "hash_store"} =>
                frame[t] \in [pc : {"hash_data", "hash_store"},
                    call : InsertCall \cup MergeCall,
                    source_id : SourceId, is_new_id : BOOLEAN, count : uint64_t]
           /\ pc(t) = "source_data" =>
                frame[t] \in [pc : {"source_data"}, call : Call,
                    source_id : SourceId, is_new_id : BOOLEAN, count : uint64_t]
<1>1. frame[t] \in Frame
  BY DEF Types
<1>2. QED
  BY <1>1 DEF Frame, Idle, pc

(* Every call is for a file. *)
LEMMA CallFile ==
    ASSUME NEW call \in Call
    PROVE  /\ call.file \in File
           /\ call.op \in {"insert_source_name", "insert_source_data",
                           "insert_hash", "merge_hash"}
           /\ call.op = "insert_source_name" => call \in NameCall
           /\ call.op = "insert_source_data" => call \in DataCall
           /\ call.op = "insert_hash" => call \in InsertCall
           /\ call.op = "merge_hash" => call \in MergeCall
BY DEF Call, NameCall, DataCall, InsertCall, MergeCall

(* The IDs that were given out and their number. *)
LEMMA SizeFacts ==
    ASSUME Types
    PROVE  /\ IsFiniteSet({f \in File : source_id_store[f] # 0})
           /\ size \in Nat
           /\ \A f \in File : source_id_store[f] = 0 => size + 1 \in SourceId
<1> DEFINE S == {f \in File : source_id_store[f] # 0}
<1>1. S \subseteq File /\ IsFiniteSet(File)
  BY ImportAssumption
<1>2. IsFiniteSet(S) /\ Cardinality(S) \in Nat /\ Cardinality(File) \in Nat
  BY <1>1, FS_Subset, FS_CardinalityType
<1>3. ASSUME NEW f \in File, source_id_store[f] = 0
      PROVE  size + 1 \in SourceId
  <2>1. S # File /\ Cardinality(S) <= Cardinality(File)
    BY <1>1, <1>3, FS_Subset
  <2>2. Cardinality(S) # Cardinality(File)
    BY <1>1, <2>1, FS_Subset
  <2>3. QED
    BY <1>2, <2>1, <2>2, ImportAssumption DEF size
<1>4. QED
  BY <1>2, <1>3 DEF size

(* Giving f an ID makes the store one larger. *)
LEMMA SizeGrows ==
    ASSUME Types, NEW f \in File, NEW i \in SourceId, source_id_store[f] = 0,
           source_id_store' = [source_id_store EXCEPT ![f] = i]
    PROVE  size' = size + 1
<1> DEFINE S == {g \in File : source_id_store[g] # 0}
<1>1. i # 0
  BY RecordAssumption
<1>2. {g \in File : source_id_store'[g] # 0} = S \cup {f}
  BY <1>1 DEF Types
<1>3. Cardinality(S \cup {f}) = Cardinality(S) + 1
  BY SizeFacts, FS_AddElement
<1>4. QED
  BY <1>2, <1>3 DEF size

-----------------------------------------------------------------------------
(* Thread t, in a call that has its ID, goes on in the call or returns.    *)
Moves(t) ==
    /\ frame' \in [Thread -> Frame]
    /\ \A u \in Thread \ {t} : frame'[u] = frame[u]
    /\ \/ frame'[t] = Idle
       \/ /\ pc(t) \in HasId
          /\ frame'[t].pc \in HasId
          /\ frame'[t].call = frame[t].call
          /\ frame'[t].source_id = frame[t].source_id
          /\ frame'[t].is_new_id = frame[t].is_new_id

(* The call that t is in once it has its ID. *)
LEMMA ActiveFrame ==
    ASSUME Types, NEW t \in Thread, pc(t) \in HasId
    PROVE  /\ frame[t].call \in Call
           /\ frame[t].call.file \in File
           /\ frame[t].source_id \in SourceId
           /\ frame[t].is_new_id \in BOOLEAN
<1>1. frame[t].call \in Call /\ frame[t].source_id \in SourceId
      /\ frame[t].is_new_id \in BOOLEAN
  BY FrameForms DEF HasId, Call
<1>2. QED
  BY <1>1, CallFile

(* Goto and Return, from a point where the call has its ID. *)
LEMMA GotoMoves ==
    ASSUME Types, NEW t \in Thread, pc(t) \in HasId, Goto(t, "source_data")
    PROVE  Moves(t) /\ frame'[t].pc = "source_data"
<1>1. frame[t].call \in Call
  BY ActiveFrame
<1>2. /\ frame'[t] \in [pc : {"source_data"}, call : Call,
            source_id : SourceId, is_new_id : BOOLEAN, count : uint64_t]
      /\ frame'[t].call = frame[t].call
      /\ frame'[t].source_id = frame[t].source_id
      /\ frame'[t].is_new_id = frame[t].is_new_id
  <2>1. frame'[t] = [frame[t] EXCEPT !.pc = "source_data"]
    BY DEF Goto, Types
  <2>2. CASE pc(t) = "source_name"
    BY <1>1, <2>1, <2>2, FrameForms
  <2>3. CASE pc(t) \in {"hash_data", "hash_store"}
    BY <1>1, <2>1, <2>3, FrameForms
  <2>4. CASE pc(t) = "source_data"
    BY <1>1, <2>1, <2>4, FrameForms
  <2>5. QED
    BY <2>2, <2>3, <2>4 DEF HasId
<1>3. \A u \in Thread \ {t} : frame'[u] = frame[u]
  BY DEF Goto, Types
<1>4. frame' \in [Thread -> Frame]
  <2>1. frame'[t] \in Frame
    BY <1>2 DEF Frame
  <2>2. QED
    BY <2>1 DEF Goto, Types
<1>5. QED
  BY <1>2, <1>3, <1>4 DEF Moves, HasId

(* Return leaves the call. *)
LEMMA ReturnMoves ==
    ASSUME Types, NEW t \in Thread, Return(t)
    PROVE  Moves(t) /\ frame'[t] = Idle
<1>1. Idle \in Frame
  BY DEF Frame
<1>2. QED
  BY <1>1 DEF Return, Moves, Types

(* A call ends, or goes on to the blank source data if it made the ID.     *)
LEMMA FinishMoves ==
    ASSUME Types, NEW t \in Thread, pc(t) \in HasId, FinishWithBlank(t)
    PROVE  /\ Moves(t)
           /\ \/ frame[t].is_new_id /\ frame'[t].pc = "source_data"
              \/ ~frame[t].is_new_id /\ frame'[t] = Idle
BY GotoMoves, ReturnMoves DEF FinishWithBlank

(* The frame of a call that has written its hash data. *)
LEMMA HashFrame ==
    ASSUME NEW C, NEW r \in [pc : {"hash_data", "hash_store"}, call : C,
               source_id : SourceId, is_new_id : BOOLEAN, count : uint64_t],
           NEW n \in uint64_t
    PROVE  LET new == [r EXCEPT !.pc = "hash_store", !.count = n] IN
           /\ new \in [pc : {"hash_data", "hash_store"}, call : C,
                  source_id : SourceId, is_new_id : BOOLEAN, count : uint64_t]
           /\ new.pc = "hash_store" /\ new.call = r.call
           /\ new.source_id = r.source_id /\ new.is_new_id = r.is_new_id
OBVIOUS

(* Between the hash data and the hash store. *)
LEMMA HashDataMoves ==
    ASSUME Types, NEW t \in Thread, pc(t) = "hash_data", NEW n \in uint64_t,
           frame' = [frame EXCEPT ![t] =
                        [frame[t] EXCEPT !.pc = "hash_store", !.count = n]]
    PROVE  Moves(t) /\ frame'[t].pc = "hash_store"
<1> DEFINE new == [frame[t] EXCEPT !.pc = "hash_store", !.count = n]
<1>0. frame' = [frame EXCEPT ![t] = new]
  OBVIOUS
<1> HIDE DEF new
<1>1. frame'[t] = new /\ \A u \in Thread \ {t} : frame'[u] = frame[u]
  BY <1>0 DEF Types
<1>2. /\ frame'[t] \in [pc : {"hash_data", "hash_store"},
            call : InsertCall \cup MergeCall,
            source_id : SourceId, is_new_id : BOOLEAN, count : uint64_t]
      /\ frame'[t].pc = "hash_store"
      /\ frame'[t].call = frame[t].call
      /\ frame'[t].source_id = frame[t].source_id
      /\ frame'[t].is_new_id = frame[t].is_new_id
  <2>1. frame[t] \in [pc : {"hash_data", "hash_store"},
            call : InsertCall \cup MergeCall,
            source_id : SourceId, is_new_id : BOOLEAN, count : uint64_t]
    BY FrameForms
  <2>2. /\ new \in [pc : {"hash_data", "hash_store"},
               call : InsertCall \cup MergeCall,
               source_id : SourceId, is_new_id : BOOLEAN, count : uint64_t]
        /\ new.pc = "hash_store" /\ new.call = frame[t].call
        /\ new.source_id = frame[t].source_id
        /\ new.is_new_id = frame[t].is_new_id
    BY <2>1, HashFrame, Zenon DEF new
  <2>3. QED
    BY <1>1, <2>2
<1>3. frame' \in [Thread -> Frame]
  <2>1. new \in Frame
    BY <1>1, <1>2 DEF Frame
  <2>2. QED
    BY <1>0, <2>1 DEF Types
<1>4. QED
  BY <1>1, <1>2, <1>3 DEF Moves, HasId

(* While no ID is given out, a moving thread keeps the ID of its file.     *)
LEMMA MovesKeepIds ==
    ASSUME IInv, NEW t \in Thread, Moves(t), UNCHANGED source_id_store
    PROVE  OwnId' /\ IdsDense' /\ UsedIds' = UsedIds
<1>1. IdsDense' /\ UsedIds' = UsedIds
  BY DEF IInv, IdsDense, UsedIds, size
<1>2. ASSUME NEW u \in Thread, frame'[u].pc \in HasId
      PROVE  frame'[u].source_id = source_id_store[frame'[u].call.file]
  <2>1. CASE u = t
    BY <1>2, <2>1 DEF IInv, OwnId, Moves, pc, Idle, HasId
  <2>2. CASE u # t
    BY <1>2, <2>2 DEF IInv, OwnId, Moves, pc
  <2>3. QED
    BY <2>1, <2>2
<1>3. QED
  BY <1>1, <1>2 DEF OwnId, pc

(* The ID of a call is one that was given out. *)
LEMMA OwnIdUsed ==
    ASSUME IInv, NEW t \in Thread, pc(t) \in HasId
    PROVE  frame[t].source_id \in UsedIds
<1>1. /\ frame[t].call.file \in File /\ frame[t].source_id # 0
      /\ frame[t].source_id = source_id_store[frame[t].call.file]
  BY ActiveFrame, RecordAssumption DEF IInv, OwnId
<1>2. QED
  BY <1>1 DEF UsedIds

-----------------------------------------------------------------------------
(* An empty database. *)
LEMMA InitIInv == Init => IInv
<1> SUFFICES ASSUME Init PROVE IInv
  OBVIOUS
<1>1. Types
  <2>1. Idle \in Frame /\ None \in Record
    BY DEF Frame, Record
  <2>2. QED
    BY <2>1 DEF Init, Types
<1>2. Room /\ OwnId
  BY DEF Init, Room, OwnId, None, Idle, pc, HasId
<1>3. IdsDense
  BY <1>1, SizeFacts DEF Init, IdsDense
<1>4. SourceDataNamesFile
  BY DEF Init, SourceDataNamesFile, None, Sources
<1>5. QED
  BY <1>1, <1>2, <1>3, <1>4 DEF IInv

(* Entering a call changes no store. *)
LEMMA EnterIInv ==
    ASSUME IInv, NEW t \in Thread, NEW call \in Call, Enter(t, call)
    PROVE  IInv'
<1> DEFINE new == [pc |-> "source_id", call |-> call]
<1>1. /\ frame' = [frame EXCEPT ![t] = new] /\ UNCHANGED stores
      /\ frame \in [Thread -> Frame]
  BY DEF Enter, IInv, Types
<1>2. new \in Frame /\ new.pc \notin HasId
  BY DEF Frame, HasId
<1> HIDE DEF new
<1>3. /\ frame' \in [Thread -> Frame] /\ frame'[t] = new
      /\ \A u \in Thread \ {t} : frame'[u] = frame[u]
  BY <1>1, <1>2
<1>4. Types' /\ Room'
  BY <1>1, <1>3 DEF IInv, Types, Room, stores
<1>5. OwnId'
  BY <1>1, <1>2, <1>3 DEF IInv, OwnId, pc, stores
<1>6. IdsDense' /\ SourceDataNamesFile'
  BY <1>1 DEF IInv, IdsDense, SourceDataNamesFile, UsedIds, size, stores
<1>7. QED
  BY <1>4, <1>5, <1>6 DEF IInv

(* The frame of a call that has just got its ID. *)
LEMMA IdFrame ==
    ASSUME IInv, NEW t \in Thread, InsertSourceId(t)
    PROVE  /\ frame[t].call \in Call
           /\ source_id_store'[frame[t].call.file] \in SourceId
           /\ frame' \in [Thread -> Frame]
           /\ frame'[t].pc \in HasId
           /\ frame'[t].call = frame[t].call
           /\ frame'[t].source_id = source_id_store'[frame[t].call.file]
           /\ frame'[t].is_new_id = (source_id_store[frame[t].call.file] = 0)
           /\ \A u \in Thread \ {t} : frame'[u] = frame[u]
<1> DEFINE call == frame[t].call
           is_new == source_id_store[call.file] = 0
           id == IF is_new THEN size + 1 ELSE source_id_store[call.file]
           next == [insert_source_name |-> "source_name",
                    insert_source_data |-> "source_data",
                    insert_hash |-> "hash_data",
                    merge_hash |-> "hash_data"]
           new == [pc |-> next[call.op], call |-> call, source_id |-> id,
                   is_new_id |-> is_new, count |-> 0]
<1>1. /\ call \in Call /\ call.file \in File
      /\ source_id_store \in [File -> SourceId \cup {0}]
      /\ frame \in [Thread -> Frame]
  <2>1. call \in Call
    BY FrameForms DEF IInv, InsertSourceId
  <2>2. QED
    BY <2>1, CallFile DEF IInv, Types
<1>2. id \in SourceId
  BY <1>1, SizeFacts DEF IInv
<1>3. /\ source_id_store' = [source_id_store EXCEPT ![call.file] = id]
      /\ frame' = [frame EXCEPT ![t] = new]
  BY Zenon DEF InsertSourceId
<1>4. 0 \in uint64_t /\ is_new \in BOOLEAN
  BY WidthAssumption DEF uint64_t
<1> HIDE DEF id, is_new
<1>5. new \in Frame /\ new.pc \in HasId
  <2>1. CASE call.op = "insert_source_name"
    BY <1>1, <1>2, <1>4, <2>1, CallFile DEF Frame, HasId
  <2>2. CASE call.op = "insert_source_data"
    BY <1>1, <1>2, <1>4, <2>2, CallFile DEF Frame, HasId
  <2>3. CASE call.op \in {"insert_hash", "merge_hash"}
    BY <1>1, <1>2, <1>4, <2>3, CallFile DEF Frame, HasId
  <2>4. QED
    BY <1>1, <2>1, <2>2, <2>3, CallFile
<1>6. new.call = call /\ new.source_id = id /\ new.is_new_id = is_new
  OBVIOUS
<1> HIDE DEF new, call
<1>7. /\ source_id_store'[call.file] = id
      /\ frame' \in [Thread -> Frame] /\ frame'[t] = new
      /\ \A u \in Thread \ {t} : frame'[u] = frame[u]
  BY <1>1, <1>3, <1>5
<1>8. /\ call \in Call /\ source_id_store'[call.file] \in SourceId
      /\ frame' \in [Thread -> Frame] /\ frame'[t].pc \in HasId
      /\ frame'[t].call = call
      /\ frame'[t].source_id = source_id_store'[call.file]
      /\ frame'[t].is_new_id = is_new
      /\ \A u \in Thread \ {t} : frame'[u] = frame[u]
  BY <1>1, <1>2, <1>5, <1>6, <1>7
<1>9. QED
  BY <1>8, Zenon DEF call, is_new

(* A file that has an ID keeps it; the ID given to one that has none is    *)
(* new.                                                                    *)
LEMMA IdStoreStep ==
    ASSUME IInv, NEW t \in Thread, InsertSourceId(t)
    PROVE  LET file == frame[t].call.file IN
           /\ file \in File
           /\ \A g \in File : source_id_store[g] # 0
                                  => source_id_store'[g] = source_id_store[g]
           /\ \/ UNCHANGED source_id_store
              \/ /\ source_id_store[file] = 0 /\ size \in Nat
                 /\ size + 1 \in SourceId
                 /\ source_id_store' =
                       [source_id_store EXCEPT ![file] = size + 1]
<1> DEFINE file == frame[t].call.file
<1>1. file \in File /\ source_id_store \in [File -> SourceId \cup {0}]
  BY IdFrame, CallFile DEF IInv, Types
<1>2. source_id_store' = [source_id_store EXCEPT ![file] =
         IF source_id_store[file] = 0 THEN size + 1 ELSE source_id_store[file]]
  BY Zenon DEF InsertSourceId
<1>3. size \in Nat /\ (source_id_store[file] = 0 => size + 1 \in SourceId)
  BY <1>1, SizeFacts DEF IInv
<1> HIDE DEF file
<1>4. CASE source_id_store[file] = 0
  <2>1. source_id_store' = [source_id_store EXCEPT ![file] = size + 1]
    BY <1>2, <1>4
  <2>2. \A g \in File : source_id_store[g] # 0
                            => source_id_store'[g] = source_id_store[g]
    BY <1>1, <1>4, <2>1
  <2>3. QED
    BY <1>1, <1>3, <1>4, <2>1, <2>2 DEF file
<1>5. CASE source_id_store[file] # 0
  <2>1. UNCHANGED source_id_store
    BY <1>1, <1>2, <1>5
  <2>2. QED
    BY <1>1, <2>1 DEF file
<1>6. QED
  BY <1>4, <1>5

(* The source ID store gives out IDs without a gap, each to one file. *)
LEMMA InsertSourceIdIInv ==
    ASSUME IInv, NEW t \in Thread, InsertSourceId(t)
    PROVE  IInv' /\ UsedIds \subseteq UsedIds'
<1> DEFINE file == frame[t].call.file
<1>0. /\ file \in File /\ source_id_store \in [File -> SourceId \cup {0}]
      /\ UNCHANGED <<source_name_store, source_data_store, hash_data_store>>
  BY IdStoreStep DEF IInv, Types, InsertSourceId
<1>1. source_id_store' \in [File -> SourceId \cup {0}]
  BY <1>0, IdStoreStep
<1>2. Types' /\ Room'
  BY <1>0, <1>1, IdFrame DEF IInv, Types, Room
<1>3. OwnId'
  <2>1. ASSUME NEW u \in Thread, frame'[u].pc \in HasId
        PROVE  frame'[u].source_id = source_id_store'[frame'[u].call.file]
    <3>1. CASE u = t
      BY <3>1, IdFrame
    <3>2. CASE u # t
      <4>1. frame'[u] = frame[u] /\ pc(u) \in HasId
        BY <2>1, <3>2, IdFrame DEF pc
      <4>2. /\ frame[u].call.file \in File
            /\ frame[u].source_id \in SourceId
            /\ frame[u].source_id = source_id_store[frame[u].call.file]
        BY <4>1, ActiveFrame DEF IInv, OwnId
      <4>3. source_id_store[frame[u].call.file] # 0
        BY <4>2, RecordAssumption
      <4>4. QED
        BY <4>1, <4>2, <4>3, IdStoreStep
    <3>3. QED
      BY <3>1, <3>2
  <2>2. QED
    BY <2>1 DEF OwnId, pc
<1>4. UsedIds \subseteq UsedIds'
  <2>1. ASSUME NEW g \in File, source_id_store[g] # 0
        PROVE  source_id_store[g] \in UsedIds'
    BY <2>1, IdStoreStep DEF UsedIds
  <2>2. QED
    BY <2>1 DEF UsedIds
<1>5. CASE UNCHANGED source_id_store
  <2>1. IdsDense' /\ SourceDataNamesFile'
    BY <1>0, <1>5 DEF IInv, IdsDense, SourceDataNamesFile, UsedIds, size
  <2>2. QED
    BY <1>2, <1>3, <1>4, <2>1 DEF IInv
<1>6. ASSUME source_id_store[file] = 0, size \in Nat, size + 1 \in SourceId,
             source_id_store' = [source_id_store EXCEPT ![file] = size + 1]
      PROVE  IInv'
  <2> HIDE DEF file
  <2>1. /\ source_id_store'[file] = size + 1
        /\ \A g \in File \ {file} : source_id_store'[g] = source_id_store[g]
    BY <1>0, <1>6
  <2>2. \A g \in File : source_id_store[g] <= size /\ source_id_store[g] \in Nat
    <3>1. \A g \in File : source_id_store[g] \in Nat
      <4>1. SourceId \cup {0} \subseteq Nat
        BY RecordAssumption
      <4>2. \A g \in File : source_id_store[g] \in SourceId \cup {0}
        BY <1>0
      <4>3. QED
        BY <4>1, <4>2
    <3>2. \A g \in File : source_id_store[g] <= size
      BY Zenon DEF IInv, IdsDense
    <3>3. QED
      BY <3>1, <3>2
  <2>3. size' = size + 1
    BY <1>0, <1>6, SizeGrows DEF IInv
  <2>4. IdsDense'
    <3>1. \A g \in File : source_id_store'[g] <= size'
      BY <1>6, <2>1, <2>2, <2>3
    <3>2. ASSUME NEW f \in File, NEW g \in File, source_id_store'[f] # 0,
                 source_id_store'[f] = source_id_store'[g]
          PROVE  f = g
      <4>1. CASE f # file /\ g # file
        BY <2>1, <3>2, <4>1 DEF IInv, IdsDense
      <4>2. CASE f = file \/ g = file
        BY <1>6, <2>1, <2>2, <3>2, <4>2
      <4>3. QED
        BY <4>1, <4>2
    <3>3. QED
      BY <3>1, <3>2 DEF IdsDense
  <2>5. size + 1 \notin UsedIds
    BY <1>6, <2>2 DEF UsedIds
  <2>6. source_data_store[size + 1] = NoData
    BY <1>6, <2>5 DEF IInv, SourceDataNamesFile
  <2>7. SourceDataNamesFile'
    <3>1. ASSUME NEW f \in File, source_id_store'[f] # 0,
                 source_data_store[source_id_store'[f]] # NoData
          PROVE  source_data_store[source_id_store'[f]].file = f
      <4>1. f # file
        BY <2>1, <2>6, <3>1
      <4>2. QED
        BY <2>1, <3>1, <4>1 DEF IInv, SourceDataNamesFile
    <3>2. QED
      BY <1>0, <1>4, <3>1 DEF IInv, SourceDataNamesFile
  <2>8. QED
    BY <1>2, <1>3, <2>4, <2>7 DEF IInv
<1>7. QED
  BY <1>4, <1>5, <1>6, IdStoreStep

(* A new name goes to an ID that was given out. *)
LEMMA InsertSourceNameIInv ==
    ASSUME IInv, NEW t \in Thread, InsertSourceName(t)
    PROVE  IInv'
<1> DEFINE i == frame[t].source_id
           new == source_name_store[i] \cup {frame[t].call.name}
<1>1. /\ pc(t) \in HasId /\ FinishWithBlank(t)
      /\ source_name_store' = [source_name_store EXCEPT ![i] = new]
      /\ UNCHANGED <<source_id_store, source_data_store, hash_data_store>>
  BY DEF InsertSourceName, HasId
<1>2. i \in SourceId /\ new \in SUBSET Name /\ i \in UsedIds
  <2>1. frame[t].call \in NameCall /\ i \in SourceId
    BY FrameForms DEF IInv, InsertSourceName
  <2>2. frame[t].call.name \in Name
    BY <2>1 DEF NameCall
  <2>3. QED
    BY <1>1, <2>1, <2>2, OwnIdUsed DEF IInv, Types
<1> HIDE DEF i, new
<1>3. Moves(t)
  BY <1>1, FinishMoves DEF IInv
<1>4. OwnId' /\ IdsDense' /\ UsedIds' = UsedIds
  BY <1>1, <1>3, MovesKeepIds
<1>5. Types' /\ Room'
  BY <1>1, <1>2, <1>3 DEF IInv, Types, Room, Moves
<1>6. SourceDataNamesFile'
  <2>1. \A j \in SourceId \ {i} : source_name_store'[j] = source_name_store[j]
    BY <1>1 DEF IInv, Types
  <2>2. QED
    BY <1>1, <1>2, <1>4, <2>1 DEF IInv, SourceDataNamesFile
<1>7. QED
  BY <1>4, <1>5, <1>6 DEF IInv

(* A write of the records of a hash that adds the source of the call. *)
LEMMA HashDataIInv ==
    ASSUME IInv, NEW t \in Thread, pc(t) = "hash_data", Moves(t),
           NEW h \in Hash, NEW new \in Record,
           Type2Size <= new.size,
           Sources(new) = Sources(hash_data_store[h]) \cup {frame[t].source_id},
           hash_data_store' = [hash_data_store EXCEPT ![h] = new],
           UNCHANGED <<source_id_store, source_name_store, source_data_store>>
    PROVE  IInv'
<1>1. OwnId' /\ IdsDense' /\ UsedIds' = UsedIds
  BY MovesKeepIds
<1>2. Types'
  BY DEF IInv, Types, Moves
<1>3. Room'
  BY DEF IInv, Types, Room
<1>4. SourceDataNamesFile'
  <2>1. Sources(new) \subseteq UsedIds
    BY OwnIdUsed DEF HasId, IInv, SourceDataNamesFile
  <2>2. \A g \in Hash : Sources(hash_data_store'[g]) \subseteq UsedIds
    BY <2>1 DEF IInv, Types, SourceDataNamesFile
  <2>3. QED
    BY <1>1, <2>2 DEF IInv, SourceDataNamesFile
<1>5. QED
  BY <1>1, <1>2, <1>3, <1>4 DEF IInv

(* What insert_hash and merge_hash are called with, and what they find. *)
LEMMA HashCallFacts ==
    ASSUME IInv, NEW t \in Thread, pc(t) = "hash_data"
    PROVE  LET call == frame[t].call IN
           /\ call.hash \in Hash /\ call.k_entropy \in Entropy
           /\ truncate_block_label(call.label) \in StoredLabel
           /\ call.op = "merge_hash" => call.sub_count \in Nat
           /\ frame[t].source_id \in SourceId
           /\ hash_data_store[call.hash] \in Record
           /\ hash_data_store[call.hash].type # 0
                 => Type2Size <= hash_data_store[call.hash].size
<1> DEFINE call == frame[t].call
<1>1. call \in InsertCall \cup MergeCall /\ frame[t].source_id \in SourceId
  BY FrameForms DEF IInv
<1> HIDE DEF call
<1>2. /\ call.hash \in Hash /\ call.k_entropy \in Entropy /\ call.label \in Label
      /\ call.op = "merge_hash" => call.sub_count \in SubCounts
  BY <1>1 DEF InsertCall, MergeCall
<1>3. SubCounts \subseteq Nat
  BY ImportAssumption, WidthAssumption DEF uint64_t
<1>4. /\ hash_data_store[call.hash] \in Record
      /\ hash_data_store[call.hash].type # 0
                 => Type2Size <= hash_data_store[call.hash].size
  BY <1>2 DEF IInv, Types, Room
<1>5. QED
  BY <1>1, <1>2, <1>3, <1>4 DEF StoredLabel, call

(* The stores and the frame after a write of hash data. *)
LEMMA InsertHashDataStep ==
    ASSUME IInv, NEW t \in Thread, InsertHashData(t)
    PROVE  /\ Moves(t) /\ frame'[t].pc = "hash_store"
           /\ \E h \in Hash, new \in Record :
                /\ h = frame[t].call.hash
                /\ Type2Size <= new.size
                /\ Sources(new) =
                      Sources(hash_data_store[h]) \cup {frame[t].source_id}
                /\ hash_data_store' = [hash_data_store EXCEPT ![h] = new]
<1> DEFINE call == frame[t].call
           i == frame[t].source_id
           rec == hash_data_store[call.hash]
           l == truncate_block_label(call.label)
           new == InsertRecord(rec, call.k_entropy, l, i)
           n == InsertCount(rec, i)
<1>1. /\ pc(t) = "hash_data"
      /\ hash_data_store' = [hash_data_store EXCEPT ![call.hash] = new]
      /\ frame' = [frame EXCEPT ![t] =
                      [frame[t] EXCEPT !.pc = "hash_store", !.count = n]]
  BY Zenon DEF InsertHashData
<1>2. /\ call.hash \in Hash /\ call.k_entropy \in Entropy /\ l \in StoredLabel
      /\ i \in SourceId /\ rec \in Record
      /\ rec.type # 0 => Type2Size <= rec.size
  BY <1>1, HashCallFacts
<1> HIDE DEF call, i, rec, l
<1>3. /\ new \in Record /\ Type2Size <= new.size
      /\ Sources(new) = Sources(rec) \cup {i}
  BY <1>2, InsertForms, RecordSources DEF Record
<1>4. n \in uint64_t
  BY <1>2, CountsAreUint64
<1> HIDE DEF new, n
<1>5. Moves(t) /\ frame'[t].pc = "hash_store"
  BY <1>1, <1>4, HashDataMoves, Zenon DEF IInv
<1>6. QED
  BY <1>1, <1>2, <1>3, <1>5, Zenon DEF rec, i, call

(* The same for merge_hash. *)
LEMMA MergeHashDataStep ==
    ASSUME IInv, NEW t \in Thread, MergeHashData(t)
    PROVE  /\ Moves(t) /\ frame'[t].pc = "hash_store"
           /\ \E h \in Hash, new \in Record :
                /\ h = frame[t].call.hash
                /\ Type2Size <= new.size
                /\ Sources(new) =
                      Sources(hash_data_store[h]) \cup {frame[t].source_id}
                /\ hash_data_store' = [hash_data_store EXCEPT ![h] = new]
<1> DEFINE call == frame[t].call
           i == frame[t].source_id
           rec == hash_data_store[call.hash]
           l == truncate_block_label(call.label)
           new == MergeRecord(rec, call.k_entropy, l, i, call.sub_count)
           n == MergeCount(rec, i, call.sub_count)
<1>1. /\ pc(t) = "hash_data" /\ call.op = "merge_hash"
      /\ hash_data_store' = [hash_data_store EXCEPT ![call.hash] = new]
      /\ frame' = [frame EXCEPT ![t] =
                      [frame[t] EXCEPT !.pc = "hash_store", !.count = n]]
  BY Zenon DEF MergeHashData
<1>2. /\ call.hash \in Hash /\ call.k_entropy \in Entropy /\ l \in StoredLabel
      /\ i \in SourceId /\ rec \in Record /\ call.sub_count \in Nat
      /\ rec.type # 0 => Type2Size <= rec.size
  BY <1>1, HashCallFacts
<1> HIDE DEF call, i, rec, l
<1>3. /\ new \in Record /\ Type2Size <= new.size
      /\ Sources(new) = Sources(rec) \cup {i}
  <2> DEFINE e == call.k_entropy
             k == call.sub_count
  <2>1. e \in Entropy /\ k \in Nat
    BY <1>2
  <2> HIDE DEF e, k
  <2>2. /\ MergeRecord(rec, e, l, i, k) \in Type1 \cup Type2
        /\ Type2Size <= MergeRecord(rec, e, l, i, k).size
    BY <1>2, <2>1, MergeForms
  <2>3. Sources(MergeRecord(rec, e, l, i, k)) = Sources(rec) \cup {i}
    BY <1>2, <2>1, RecordSources
  <2>4. QED
    BY <2>2, <2>3 DEF Record, e, k
<1>4. n \in uint64_t
  BY <1>2, CountsAreUint64
<1> HIDE DEF new, n
<1>5. Moves(t) /\ frame'[t].pc = "hash_store"
  BY <1>1, <1>4, HashDataMoves, Zenon DEF IInv
<1>6. QED
  BY <1>1, <1>2, <1>3, <1>5, Zenon DEF rec, i, call

(* insert_hash and merge_hash write hash data. *)
LEMMA WriteHashDataIInv ==
    ASSUME IInv, NEW t \in Thread, InsertHashData(t) \/ MergeHashData(t)
    PROVE  IInv'
<1>1. /\ pc(t) = "hash_data"
      /\ UNCHANGED <<source_id_store, source_name_store, source_data_store>>
  BY DEF InsertHashData, MergeHashData
<1>2. PICK h \in Hash, new \in Record :
         /\ h = frame[t].call.hash
         /\ Type2Size <= new.size
         /\ Sources(new) =
               Sources(hash_data_store[h]) \cup {frame[t].source_id}
         /\ hash_data_store' = [hash_data_store EXCEPT ![h] = new]
  <2>1. CASE InsertHashData(t)
    BY <2>1, InsertHashDataStep, Zenon
  <2>2. CASE MergeHashData(t)
    BY <2>2, MergeHashDataStep, Zenon
  <2>3. QED
    BY <2>1, <2>2
<1>3. Moves(t)
  BY InsertHashDataStep, MergeHashDataStep, Zenon
<1>4. QED
  BY <1>1, <1>2, <1>3, HashDataIInv

(* The hash store is not part of the invariant. *)
LEMMA InsertHashStoreIInv ==
    ASSUME IInv, NEW t \in Thread, InsertHashStore(t)
    PROVE  IInv'
<1>1. /\ pc(t) \in HasId /\ FinishWithBlank(t)
      /\ UNCHANGED <<source_id_store, source_name_store, source_data_store,
                     hash_data_store>>
  BY DEF InsertHashStore, HasId
<1>2. Moves(t)
  BY <1>1, FinishMoves DEF IInv
<1>3. OwnId' /\ IdsDense' /\ UsedIds' = UsedIds
  BY <1>1, <1>2, MovesKeepIds
<1>4. Types' /\ Room' /\ SourceDataNamesFile'
  BY <1>1, <1>2, <1>3 DEF IInv, Types, Room, Moves, SourceDataNamesFile
<1>5. QED
  BY <1>3, <1>4 DEF IInv

(* Source data is written under the ID of the file that it names. *)
LEMMA InsertSourceDataIInv ==
    ASSUME IInv, NEW t \in Thread, InsertSourceData(t)
    PROVE  IInv'
<1> DEFINE call == frame[t].call
           i == frame[t].source_id
           d == IF call.op = "insert_source_data" THEN call.data ELSE Blank
           new == [found |-> TRUE, file |-> call.file, data |-> d]
<1>1. /\ pc(t) = "source_data" /\ Return(t)
      /\ source_data_store' = [source_data_store EXCEPT ![i] = new]
      /\ UNCHANGED <<source_id_store, source_name_store, hash_data_store>>
  BY Zenon DEF InsertSourceData
<1>2. pc(t) \in HasId
  BY <1>1 DEF HasId
<1>3. /\ call \in Call /\ call.file \in File /\ i \in SourceId /\ i \in UsedIds
      /\ i = source_id_store[call.file] /\ i # 0
  <2>1. call \in Call /\ call.file \in File /\ i \in SourceId
    BY <1>2, ActiveFrame DEF IInv
  <2>2. QED
    BY <1>2, <2>1, OwnIdUsed, RecordAssumption DEF IInv, OwnId
<1>4. d \in Data
  <2>1. call.op = "insert_source_data" => call.data \in Data
    BY <1>3, CallFile DEF DataCall
  <2>2. QED
    BY <2>1, ImportAssumption
<1> HIDE DEF d
<1>5. /\ new \in [found : {TRUE}, file : File, data : Data]
      /\ new.file = call.file
  BY <1>3, <1>4
<1> HIDE DEF call, i, new
<1>6. Moves(t)
  BY <1>1, ReturnMoves DEF IInv
<1>7. OwnId' /\ IdsDense' /\ UsedIds' = UsedIds
  BY <1>1, <1>6, MovesKeepIds
<1>8. Types' /\ Room'
  BY <1>1, <1>3, <1>5, <1>6 DEF IInv, Types, Room, Moves
<1>9. SourceDataNamesFile'
  <2>1. /\ source_data_store'[i] = new
        /\ \A j \in SourceId \ {i} : source_data_store'[j] = source_data_store[j]
    BY <1>1, <1>3 DEF IInv, Types
  <2>2. ASSUME NEW f \in File, source_id_store[f] # 0,
               source_data_store'[source_id_store[f]] # NoData
        PROVE  source_data_store'[source_id_store[f]].file = f
    <3>1. CASE source_id_store[f] = i
      <4>1. f = call.file
        BY <1>3, <3>1 DEF IInv, IdsDense
      <4>2. QED
        BY <1>5, <2>1, <3>1, <4>1
    <3>2. CASE source_id_store[f] # i
      <4>1. source_id_store[f] \in SourceId \ {i}
        BY <2>2, <3>2 DEF IInv, Types
      <4>2. QED
        BY <2>1, <2>2, <4>1 DEF IInv, SourceDataNamesFile
    <3>3. QED
      BY <3>1, <3>2
  <2>3. \A j \in SourceId :
           source_data_store'[j] # NoData \/ source_name_store[j] # {}
               => j \in UsedIds
    BY <1>3, <2>1 DEF IInv, SourceDataNamesFile
  <2>4. QED
    BY <1>1, <1>7, <2>2, <2>3 DEF IInv, SourceDataNamesFile
<1>10. QED
  BY <1>7, <1>8, <1>9 DEF IInv

(* A crash empties the frames and leaves the stores. *)
LEMMA CrashIInv == ASSUME IInv, Crash PROVE IInv'
<1>1. UNCHANGED stores /\ frame' = [t \in Thread |-> Idle]
  BY DEF Crash
<1>2. Idle \in Frame
  BY DEF Frame
<1>3. Types' /\ Room'
  BY <1>1, <1>2 DEF IInv, Types, Room, stores
<1>4. OwnId'
  BY <1>1 DEF OwnId, pc, Idle, HasId
<1>5. IdsDense' /\ SourceDataNamesFile'
  BY <1>1 DEF IInv, IdsDense, SourceDataNamesFile, UsedIds, size, stores
<1>6. QED
  BY <1>3, <1>4, <1>5 DEF IInv

(* Every step of a thread keeps the invariant. *)
LEMMA StepIInv == ASSUME IInv, Next PROVE IInv'
BY EnterIInv, InsertSourceIdIInv, InsertSourceNameIInv, WriteHashDataIInv,
   InsertHashStoreIInv, InsertSourceDataIInv
DEF Next, Step

(* A step that changes nothing keeps it. *)
LEMMA StutterIInv == ASSUME IInv, UNCHANGED vars PROVE IInv'
<1>1. UNCHANGED <<source_id_store, source_name_store, source_data_store,
                  hash_data_store, frame>>
  BY DEF vars, stores
<1>2. Types' /\ Room' /\ OwnId'
  BY <1>1 DEF IInv, Types, Room, OwnId, pc
<1>3. IdsDense' /\ SourceDataNamesFile'
  BY <1>1 DEF IInv, IdsDense, SourceDataNamesFile, UsedIds, size
<1>4. QED
  BY <1>2, <1>3 DEF IInv

(* The invariant holds in every reachable state, with crashes... *)
LEMMA CrashInvariance == CrashSpec => []IInv
<1>1. IInv /\ [Next \/ Crash]_vars => IInv'
  BY StepIInv, CrashIInv, StutterIInv
<1>2. QED
  BY <1>1, InitIInv, PTL DEF CrashSpec

(* ... and without. *)
LEMMA Invariance == Spec => []IInv
<1>1. IInv /\ [Next]_vars => IInv'
  BY StepIInv, StutterIInv
<1>2. QED
  BY <1>1, InitIInv, PTL DEF Spec

(***************************************************************************)
(* However the calls of the threads interleave and wherever the process    *)
(* dies, no two files share a source ID and there is no gap.               *)
(***************************************************************************)
THEOREM IdsStayDense == CrashSpec => []IdsDense
<1>1. IInv => IdsDense
  BY DEF IInv
<1>2. QED
  BY <1>1, CrashInvariance, PTL

(***************************************************************************)
(* The same for what the other stores hold under an ID: the source data    *)
(* names the file that has the ID, and every ID is one that was given out. *)
(***************************************************************************)
THEOREM SourceDataIsOfItsFile == CrashSpec => []SourceDataNamesFile
<1>1. IInv => SourceDataNamesFile
  BY DEF IInv
<1>2. QED
  BY <1>1, CrashInvariance, PTL

-----------------------------------------------------------------------------
(***************************************************************************)
(* Without crashes: the thread that created an ID describes it.            *)
(***************************************************************************)

(* The other threads go on describing what they describe. *)
LEMMA OthersDescribe ==
    ASSUME NEW t \in Thread, \A u \in Thread \ {t} : frame'[u] = frame[u],
           NEW u \in Thread \ {t}, NEW i, WillDescribe(u, i)
    PROVE  WillDescribe(u, i)'
BY DEF WillDescribe, pc

(* A thread that moves without having described its ID still will.         *)
LEMMA PendingMoves ==
    ASSUME IInv, PendingSourceData, NEW t \in Thread, Moves(t),
           \A i \in UsedIds : WillDescribe(t, i) => WillDescribe(t, i)',
           UNCHANGED <<source_id_store, source_data_store>>
    PROVE  PendingSourceData'
<1>1. UsedIds' = UsedIds
  BY DEF UsedIds
<1>2. ASSUME NEW i \in UsedIds, source_data_store[i] = NoData
      PROVE  \E u \in Thread : WillDescribe(u, i)'
  <2>1. PICK u \in Thread : WillDescribe(u, i)
    BY <1>2 DEF PendingSourceData
  <2>2. QED
    BY <2>1, OthersDescribe DEF Moves
<1>3. QED
  BY <1>1, <1>2 DEF PendingSourceData

(* Every step keeps PendingSourceData. *)
LEMMA StepPending ==
    ASSUME IInv, PendingSourceData, Next
    PROVE  PendingSourceData'
<1>1. ASSUME NEW t \in Thread, NEW call \in Call, Enter(t, call)
      PROVE  PendingSourceData'
  <2>1. /\ UNCHANGED stores /\ pc(t) = "idle"
        /\ \A u \in Thread \ {t} : frame'[u] = frame[u]
    BY <1>1 DEF Enter, IInv, Types
  <2>2. \A i : ~WillDescribe(t, i)
    BY <2>1 DEF WillDescribe
  <2>3. UsedIds' = UsedIds /\ source_data_store' = source_data_store
    BY <2>1 DEF UsedIds, stores
  <2>4. ASSUME NEW i \in UsedIds, source_data_store[i] = NoData
        PROVE  \E u \in Thread : WillDescribe(u, i)'
    <3>1. PICK u \in Thread : WillDescribe(u, i)
      BY <2>4 DEF PendingSourceData
    <3>2. QED
      BY <2>1, <2>2, <3>1, OthersDescribe
  <2>5. QED
    BY <2>3, <2>4 DEF PendingSourceData
<1>2. ASSUME NEW t \in Thread, InsertSourceId(t)
      PROVE  PendingSourceData'
  <2> DEFINE file == frame[t].call.file
  <2>1. pc(t) = "source_id" /\ UNCHANGED source_data_store /\ file \in File
    BY <1>2, IdStoreStep DEF InsertSourceId
  <2>2. \A i : ~WillDescribe(t, i)
    BY <2>1 DEF WillDescribe
  <2>3. ASSUME NEW i \in UsedIds, source_data_store[i] = NoData
        PROVE  \E u \in Thread : WillDescribe(u, i)'
    <3>1. PICK u \in Thread : WillDescribe(u, i)
      BY <2>3 DEF PendingSourceData
    <3>2. QED
      BY <1>2, <2>2, <3>1, OthersDescribe, IdFrame
  <2>4. ASSUME NEW i \in UsedIds', i \notin UsedIds
        PROVE  WillDescribe(t, i)'
    <3>1. PICK f \in File : i = source_id_store'[f] /\ i # 0
      BY DEF UsedIds
    <3>2. source_id_store[f] = 0
      BY <1>2, <2>4, <3>1, IdStoreStep DEF UsedIds
    <3>3. f = file /\ source_id_store[file] = 0
      BY <1>2, <3>1, <3>2, IdStoreStep DEF IInv, Types
    <3>4. /\ frame'[t].pc \in HasId /\ frame'[t].is_new_id
          /\ frame'[t].source_id = i
      BY <1>2, <3>1, <3>3, IdFrame
    <3>5. QED
      BY <3>4 DEF WillDescribe, pc, HasId
  <2>5. QED
    BY <2>1, <2>3, <2>4 DEF PendingSourceData
<1>3. ASSUME NEW t \in Thread, InsertSourceName(t) \/ InsertHashStore(t)
      PROVE  PendingSourceData'
  <2>1. /\ pc(t) \in {"source_name", "hash_store"} /\ FinishWithBlank(t)
        /\ UNCHANGED <<source_id_store, source_data_store>>
    BY <1>3 DEF InsertSourceName, InsertHashStore
  <2>2. /\ Moves(t)
        /\ \/ frame[t].is_new_id /\ frame'[t].pc = "source_data"
           \/ ~frame[t].is_new_id /\ frame'[t] = Idle
    BY <2>1, FinishMoves DEF IInv, HasId
  <2>3. ASSUME NEW i \in UsedIds, WillDescribe(t, i)
        PROVE  WillDescribe(t, i)'
    <3>1. frame[t].is_new_id /\ frame[t].source_id = i
      BY <2>1, <2>3 DEF WillDescribe
    <3>2. frame'[t].pc = "source_data"
      BY <2>2, <3>1, Zenon
    <3>3. frame'[t] # Idle
      BY <3>2 DEF Idle
    <3>4. frame'[t].source_id = i
      BY <2>2, <3>1, <3>3, Zenon DEF Moves
    <3>5. QED
      BY <3>2, <3>4 DEF WillDescribe, pc
  <2>4. QED
    BY <2>1, <2>2, <2>3, PendingMoves
<1>4. ASSUME NEW t \in Thread, InsertHashData(t) \/ MergeHashData(t)
      PROVE  PendingSourceData'
  <2>1. /\ pc(t) = "hash_data"
        /\ UNCHANGED <<source_id_store, source_data_store>>
    BY <1>4 DEF InsertHashData, MergeHashData
  <2>2. Moves(t) /\ frame'[t].pc = "hash_store"
    BY <1>4, InsertHashDataStep, MergeHashDataStep, Zenon
  <2>3. ASSUME NEW i \in UsedIds, WillDescribe(t, i)
        PROVE  WillDescribe(t, i)'
    <3>1. frame[t].is_new_id /\ frame[t].source_id = i
      BY <2>1, <2>3 DEF WillDescribe
    <3>2. frame'[t] # Idle
      BY <2>2 DEF Idle
    <3>3. frame'[t].is_new_id /\ frame'[t].source_id = i
      BY <2>2, <3>1, <3>2, Zenon DEF Moves
    <3>4. QED
      BY <2>2, <3>3 DEF WillDescribe, pc
  <2>4. QED
    BY <2>1, <2>2, <2>3, PendingMoves
<1>5. ASSUME NEW t \in Thread, InsertSourceData(t)
      PROVE  PendingSourceData'
  <2> DEFINE j == frame[t].source_id
             call == frame[t].call
             new == [found |-> TRUE, file |-> call.file,
                     data |-> IF call.op = "insert_source_data"
                              THEN call.data ELSE Blank]
  <2>1. /\ pc(t) = "source_data" /\ Return(t) /\ UNCHANGED source_id_store
        /\ source_data_store' = [source_data_store EXCEPT ![j] = new]
    BY <1>5, Zenon DEF InsertSourceData
  <2>2. new # NoData
    BY DEF NoData
  <2> HIDE DEF j, new
  <2>3. /\ \A i \in UsedIds : i # j => source_data_store'[i] = source_data_store[i]
        /\ j \in SourceId => source_data_store'[j] = new
        /\ UsedIds' = UsedIds
    BY <2>1 DEF IInv, Types, UsedIds
  <2>4. ASSUME NEW i \in UsedIds, source_data_store'[i] = NoData
        PROVE  \E u \in Thread : WillDescribe(u, i)'
    <3>1. i # j
      <4>1. j \in SourceId
        BY <2>1, ActiveFrame DEF IInv, HasId, j
      <4>2. QED
        BY <2>2, <2>3, <2>4, <4>1
    <3>2. source_data_store[i] = NoData
      BY <2>3, <2>4, <3>1
    <3>3. PICK u \in Thread : WillDescribe(u, i)
      BY <3>2 DEF PendingSourceData
    <3>4. u # t
      BY <3>1, <3>3 DEF WillDescribe, j
    <3>5. QED
      BY <2>1, <3>3, <3>4, OthersDescribe, ReturnMoves DEF Moves, IInv
  <2>5. QED
    BY <2>3, <2>4 DEF PendingSourceData
<1>6. QED
  BY <1>1, <1>2, <1>3, <1>4, <1>5 DEF Next, Step

(***************************************************************************)
(* Without crashes, a source ID that has no source data yet has a thread   *)
(* that will write it, whoever else uses the ID meanwhile.                 *)
(***************************************************************************)
THEOREM SourceDataIsPending == Spec => []PendingSourceData
<1>1. Init => PendingSourceData
  BY DEF Init, PendingSourceData, UsedIds
<1>2. IInv /\ PendingSourceData /\ UNCHANGED vars => PendingSourceData'
  <2> SUFFICES ASSUME PendingSourceData, UNCHANGED vars
               PROVE  PendingSourceData'
    OBVIOUS
  <2>1. UNCHANGED <<source_id_store, source_data_store, frame>>
    BY DEF vars, stores
  <2>2. QED
    BY <2>1 DEF PendingSourceData, UsedIds, WillDescribe, pc
<1>3. IInv /\ PendingSourceData /\ [Next]_vars => PendingSourceData'
  BY <1>2, StepPending
<1>4. QED
  BY <1>1, <1>3, Invariance, PTL DEF Spec

(* With no call under way there is no ID left to describe. *)
LEMMA PendingReverseLookup == IInv /\ PendingSourceData => ReverseLookup
<1> SUFFICES ASSUME IInv, PendingSourceData, Quiet, NEW h \in Hash,
                    NEW i \in Sources(hash_data_store[h])
             PROVE  source_data_store[i] # NoData
  BY DEF ReverseLookup, LookupFails
<1>1. i \in UsedIds
  BY DEF IInv, SourceDataNamesFile
<1>2. \A t \in Thread : ~WillDescribe(t, i)
  BY DEF Quiet, WillDescribe, pc, Idle
<1>3. QED
  BY <1>1, <1>2 DEF PendingSourceData

(***************************************************************************)
(* So the assertion of find_hash, that each source of a hash has source    *)
(* data, holds whenever no call is under way.                              *)
(***************************************************************************)
THEOREM LookupSucceeds == Spec => []ReverseLookup
BY PendingReverseLookup, SourceDataIsPending, Invariance, PTL

-----------------------------------------------------------------------------
(* What NothingForgotten says of a step. *)
Remembers ==
    /\ \A f \in File : source_id_store[f] # 0
           => source_id_store'[f] = source_id_store[f]
    /\ \A i \in SourceId :
          /\ source_data_store[i] # NoData => source_data_store'[i] # NoData
          /\ source_name_store[i] \subseteq source_name_store'[i]
    /\ \A h \in Hash : Sources(hash_data_store[h])
                           \subseteq Sources(hash_data_store'[h])

(* No step of a thread, and no crash, takes anything away. *)
LEMMA StepRemembers == ASSUME IInv, Next \/ Crash PROVE Remembers
<1>1. ASSUME UNCHANGED <<source_id_store, source_name_store,
                         source_data_store, hash_data_store>>
      PROVE  Remembers
  BY <1>1 DEF Remembers
<1>2. ASSUME NEW t \in Thread, InsertSourceId(t) PROVE Remembers
  <2>1. UNCHANGED <<source_name_store, source_data_store, hash_data_store>>
    BY <1>2 DEF InsertSourceId
  <2>2. QED
    BY <1>2, <2>1, IdStoreStep DEF Remembers
<1>3. ASSUME NEW t \in Thread, InsertSourceName(t) PROVE Remembers
  <2> DEFINE j == frame[t].source_id
  <2>1. /\ UNCHANGED <<source_id_store, source_data_store, hash_data_store>>
        /\ source_name_store' = [source_name_store EXCEPT ![j] =
              source_name_store[j] \cup {frame[t].call.name}]
    BY <1>3 DEF InsertSourceName
  <2> HIDE DEF j
  <2>2. \A i \in SourceId : source_name_store[i] \subseteq source_name_store'[i]
    BY <2>1 DEF IInv, Types
  <2>3. QED
    BY <2>1, <2>2 DEF Remembers
<1>4. ASSUME NEW t \in Thread, InsertHashData(t) \/ MergeHashData(t)
      PROVE  Remembers
  <2>1. UNCHANGED <<source_id_store, source_name_store, source_data_store>>
    BY <1>4 DEF InsertHashData, MergeHashData
  <2>2. PICK h \in Hash, new \in Record :
           /\ h = frame[t].call.hash
           /\ Type2Size <= new.size
           /\ Sources(new) =
                 Sources(hash_data_store[h]) \cup {frame[t].source_id}
           /\ hash_data_store' = [hash_data_store EXCEPT ![h] = new]
    <3>1. CASE InsertHashData(t)
      BY <3>1, InsertHashDataStep, Zenon
    <3>2. CASE MergeHashData(t)
      BY <3>2, MergeHashDataStep, Zenon
    <3>3. QED
      BY <1>4, <3>1, <3>2
  <2>3. \A g \in Hash : Sources(hash_data_store[g])
                            \subseteq Sources(hash_data_store'[g])
    BY <2>2 DEF IInv, Types
  <2>4. QED
    BY <2>1, <2>3 DEF Remembers
<1>5. ASSUME NEW t \in Thread, InsertSourceData(t) PROVE Remembers
  <2> DEFINE j == frame[t].source_id
             call == frame[t].call
             new == [found |-> TRUE, file |-> call.file,
                     data |-> IF call.op = "insert_source_data"
                              THEN call.data ELSE Blank]
  <2>1. /\ UNCHANGED <<source_id_store, source_name_store, hash_data_store>>
        /\ source_data_store' = [source_data_store EXCEPT ![j] = new]
    BY <1>5, Zenon DEF InsertSourceData
  <2>2. new # NoData
    BY DEF NoData
  <2> HIDE DEF j, new
  <2>3. \A i \in SourceId : source_data_store[i] # NoData
                                => source_data_store'[i] # NoData
    BY <2>1, <2>2 DEF IInv, Types
  <2>4. QED
    BY <2>1, <2>3 DEF Remembers
<1>6. QED
  BY <1>1, <1>2, <1>3, <1>4, <1>5
  DEF Next, Step, Crash, Enter, InsertHashStore, stores

(* What else NothingForgotten says: the data of a source that no blank     *)
(* record is under way for changes through insert_source_data only.        *)
KeepsData ==
    \A i \in UsedIds : Settled(i) =>
        /\ Settled(i)'
        /\ \/ source_data_store'[i] = source_data_store[i]
           \/ \E t \in Thread : Describes(t, i)

(* A step of thread t that leaves the IDs and the data alone, and after    *)
(* which t owes no blank record that it did not owe, keeps the data.       *)
LEMMA MovesKeepData ==
    ASSUME NEW t \in Thread, UNCHANGED source_data_store,
           \A u \in Thread \ {t} : frame'[u] = frame[u],
           \A i \in UsedIds : OwesBlank(t, i)' => OwesBlank(t, i)
    PROVE  KeepsData
<1>1. ASSUME NEW i \in UsedIds, Settled(i), NEW u \in Thread
      PROVE  ~OwesBlank(u, i)'
  BY <1>1 DEF Settled, OwesBlank, pc
<1>2. QED
  BY <1>1 DEF KeepsData, Settled

(* A thread that moves in its call owes no other blank record.             *)
LEMMA MovesOwe ==
    ASSUME NEW t \in Thread, Moves(t), NEW i, OwesBlank(t, i)'
    PROVE  OwesBlank(t, i)
<1>1. frame'[t] # Idle
  BY DEF OwesBlank, pc, Idle
<1>2. QED
  BY <1>1 DEF Moves, OwesBlank, pc, HasId

(* A call other than insert_source_data that is about to write a record to *)
(* the source data store created the ID.                                   *)
BlankIsNew ==
    \A t \in Thread :
        pc(t) = "source_data" /\ frame[t].call.op # "insert_source_data"
            => frame[t].is_new_id

(* A step of t that takes its call to the source data store only when it   *)
(* created the ID keeps this.                                              *)
LEMMA MovesBlankIsNew ==
    ASSUME BlankIsNew, NEW t \in Thread,
           \A u \in Thread \ {t} : frame'[u] = frame[u],
           \/ frame'[t].pc # "source_data"
           \/ frame'[t].is_new_id
           \/ frame'[t].call.op = "insert_source_data"
    PROVE  BlankIsNew'
BY DEF BlankIsNew, pc

LEMMA StepBlankIsNew == ASSUME IInv, BlankIsNew, Next \/ Crash PROVE BlankIsNew'
<1>1. ASSUME NEW t \in Thread, NEW call \in Call, Enter(t, call)
      PROVE  BlankIsNew'
  <2>1. /\ frame'[t].pc = "source_id"
        /\ \A u \in Thread \ {t} : frame'[u] = frame[u]
    BY <1>1 DEF Enter, IInv, Types
  <2>2. QED
    BY <2>1, MovesBlankIsNew
<1>2. ASSUME NEW t \in Thread, InsertSourceId(t) PROVE BlankIsNew'
  <2> DEFINE call == frame[t].call
  <2>1. /\ call \in Call /\ frame'[t].call = call
        /\ \A u \in Thread \ {t} : frame'[u] = frame[u]
    BY <1>2, IdFrame
  <2>2. frame'[t].pc = [insert_source_name |-> "source_name",
                        insert_source_data |-> "source_data",
                        insert_hash |-> "hash_data",
                        merge_hash |-> "hash_data"][call.op]
    BY <1>2 DEF InsertSourceId, IInv, Types
  <2> HIDE DEF call
  <2>3. frame'[t].pc = "source_data" => call.op = "insert_source_data"
    BY <2>1, <2>2, CallFile
  <2>4. QED
    BY <2>1, <2>3, MovesBlankIsNew
<1>3. ASSUME NEW t \in Thread, InsertSourceName(t) \/ InsertHashStore(t)
      PROVE  BlankIsNew'
  <2>1. /\ Moves(t)
        /\ \/ frame[t].is_new_id /\ frame'[t].pc = "source_data"
           \/ ~frame[t].is_new_id /\ frame'[t] = Idle
    BY <1>3, FinishMoves DEF InsertSourceName, InsertHashStore, IInv, HasId
  <2>2. \/ frame'[t].pc # "source_data"
        \/ frame'[t].is_new_id
    <3>1. CASE frame[t].is_new_id /\ frame'[t].pc = "source_data"
      <4>1. frame'[t] # Idle
        BY <3>1 DEF Idle
      <4>2. QED
        BY <2>1, <3>1, <4>1, Zenon DEF Moves
    <3>2. CASE frame'[t] = Idle
      BY <3>2 DEF Idle
    <3>3. QED
      BY <2>1, <3>1, <3>2
  <2>3. QED
    BY <2>1, <2>2, MovesBlankIsNew DEF Moves
<1>4. ASSUME NEW t \in Thread, InsertHashData(t) \/ MergeHashData(t)
      PROVE  BlankIsNew'
  <2>1. Moves(t) /\ frame'[t].pc = "hash_store"
    BY <1>4, InsertHashDataStep, MergeHashDataStep, Zenon
  <2>2. QED
    BY <2>1, MovesBlankIsNew DEF Moves
<1>5. ASSUME NEW t \in Thread, InsertSourceData(t) PROVE BlankIsNew'
  <2>1. Moves(t) /\ frame'[t] = Idle
    BY <1>5, ReturnMoves DEF InsertSourceData, IInv
  <2>2. QED
    BY <2>1, MovesBlankIsNew DEF Moves, Idle
<1>6. ASSUME Crash PROVE BlankIsNew'
  <2>1. \A t \in Thread : frame'[t].pc = "idle"
    BY <1>6 DEF Crash, Idle
  <2>2. QED
    BY <2>1 DEF BlankIsNew, pc
<1>7. QED
  BY <1>1, <1>2, <1>3, <1>4, <1>5, <1>6 DEF Next, Step

(* No step of a thread, and no crash, replaces the data of such a source.  *)
LEMMA StepKeepsData ==
    ASSUME IInv, BlankIsNew, Next \/ Crash
    PROVE  KeepsData
<1>1. ASSUME NEW t \in Thread, NEW call \in Call, Enter(t, call)
      PROVE  KeepsData
  <2>1. /\ UNCHANGED source_data_store
        /\ frame'[t].pc = "source_id"
        /\ \A u \in Thread \ {t} : frame'[u] = frame[u]
    BY <1>1 DEF Enter, IInv, Types, stores
  <2>2. \A i : ~OwesBlank(t, i)'
    BY <2>1 DEF OwesBlank, pc
  <2>3. QED
    BY <2>1, <2>2, MovesKeepData
<1>2. ASSUME NEW t \in Thread, InsertSourceId(t) PROVE KeepsData
  <2> DEFINE file == frame[t].call.file
  <2>1. UNCHANGED source_data_store
    BY <1>2 DEF InsertSourceId
  <2>2. ASSUME NEW i \in UsedIds PROVE ~OwesBlank(t, i)'
    <3>1. PICK f \in File : i = source_id_store[f] /\ i # 0
      BY DEF UsedIds
    <3>2. CASE source_id_store[file] = 0
      <4>0. size \in Nat /\ source_id_store \in [File -> SourceId \cup {0}]
        BY SizeFacts DEF IInv, Types
      <4>1. i <= size /\ i \in Nat
        BY <3>1, <4>0, RecordAssumption DEF IInv, IdsDense
      <4>2. file \in File /\ source_id_store'[file] = size + 1
        <5>1. file \in File /\ source_id_store'[file] # 0
          BY <1>2, IdFrame, IdStoreStep, RecordAssumption
        <5>2. QED
          BY <1>2, <3>2, <4>0, <5>1, IdStoreStep
      <4>3. frame'[t].source_id = size + 1
        BY <1>2, <4>2, IdFrame
      <4>4. QED
        BY <4>0, <4>1, <4>3 DEF OwesBlank, pc
    <3>3. CASE source_id_store[file] # 0
      BY <1>2, <3>3, IdFrame DEF OwesBlank, pc
    <3>4. QED
      BY <3>2, <3>3
  <2>3. QED
    BY <1>2, <2>1, <2>2, IdFrame, MovesKeepData
<1>3. ASSUME NEW t \in Thread, InsertSourceName(t) \/ InsertHashStore(t)
      PROVE  KeepsData
  <2>1. UNCHANGED source_data_store /\ Moves(t)
    BY <1>3, FinishMoves DEF InsertSourceName, InsertHashStore, IInv, HasId
  <2>2. QED
    BY <2>1, MovesOwe, MovesKeepData DEF Moves
<1>4. ASSUME NEW t \in Thread, InsertHashData(t) \/ MergeHashData(t)
      PROVE  KeepsData
  <2>1. UNCHANGED source_data_store
    BY <1>4 DEF InsertHashData, MergeHashData
  <2>2. Moves(t)
    BY <1>4, InsertHashDataStep, MergeHashDataStep, Zenon
  <2>3. QED
    BY <2>1, <2>2, MovesOwe, MovesKeepData DEF Moves
<1>5. ASSUME NEW t \in Thread, InsertSourceData(t) PROVE KeepsData
  <2> DEFINE j == frame[t].source_id
             call == frame[t].call
             new == [found |-> TRUE, file |-> call.file,
                     data |-> IF call.op = "insert_source_data"
                              THEN call.data ELSE Blank]
  <2>1. /\ pc(t) = "source_data" /\ Return(t)
        /\ source_data_store' = [source_data_store EXCEPT ![j] = new]
    BY <1>5, Zenon DEF InsertSourceData
  <2>2. Moves(t) /\ frame'[t] = Idle
    BY <2>1, ReturnMoves DEF IInv
  <2>3. ASSUME NEW i \in UsedIds, Settled(i), NEW u \in Thread
        PROVE  ~OwesBlank(u, i)'
    BY <2>2, <2>3, MovesOwe DEF Settled, Moves, OwesBlank, pc
  <2>4. j \in SourceId /\ frame[t].is_new_id \in BOOLEAN
    BY <2>1, ActiveFrame DEF IInv, HasId
  <2>5. ASSUME NEW i \in UsedIds, Settled(i),
               source_data_store'[i] # source_data_store[i]
        PROVE  Describes(t, i)
    <3>1. i = j
      BY <2>1, <2>5 DEF IInv, Types
    <3>2. source_data_store'[i] = new
      BY <2>1, <2>4, <3>1 DEF IInv, Types
    <3>3. ~OwesBlank(t, i)
      BY <2>5 DEF Settled
    <3>4. call.op = "insert_source_data"
      BY <2>1, <3>1, <3>3 DEF OwesBlank, BlankIsNew
    <3>5. QED
      BY <2>1, <3>1, <3>2, <3>4 DEF Describes
  <2>6. QED
    BY <2>3, <2>5 DEF KeepsData, Settled
<1>6. ASSUME Crash PROVE KeepsData
  <2>1. UNCHANGED source_data_store /\ \A u \in Thread : frame'[u] = Idle
    BY <1>6 DEF Crash, stores
  <2>2. \A u \in Thread, i \in UsedIds : ~OwesBlank(u, i)'
    BY <2>1 DEF OwesBlank, pc, Idle
  <2>3. QED
    BY <2>1, <2>2 DEF KeepsData, Settled
<1>7. QED
  BY <1>1, <1>2, <1>3, <1>4, <1>5, <1>6 DEF Next, Step

(***************************************************************************)
(* No call, of any thread, and no crash makes the database forget the ID   *)
(* of a file, a name of a source, a source of a hash, or that a source has *)
(* data; and the data itself is replaced by the next insert_source_data    *)
(* only, unless a call that created the ID of the source is under way and  *)
(* has still to write its blank record: that one replaces what another     *)
(* thread wrote since.                                                     *)
(***************************************************************************)
THEOREM DatabaseOnlyGrows == CrashSpec => NothingForgotten
<1>1. Init => BlankIsNew
  BY DEF Init, BlankIsNew, Idle, pc
<1>2. ASSUME IInv, BlankIsNew, [Next \/ Crash]_vars
      PROVE  BlankIsNew'
  <2>1. CASE UNCHANGED vars
    BY <1>2, <2>1 DEF BlankIsNew, pc, vars
  <2>2. QED
    BY <1>2, <2>1, StepBlankIsNew
<1>3. ASSUME IInv, BlankIsNew, [Next \/ Crash]_vars
      PROVE  [Remembers /\ KeepsData]_vars
  BY <1>3, StepRemembers, StepKeepsData
<1>4. QED
  BY <1>1, <1>2, <1>3, CrashInvariance, PTL
  DEF CrashSpec, NothingForgotten, Remembers, KeepsData

-----------------------------------------------------------------------------
(***************************************************************************)
(* What a call that returns leaves in the stores.                          *)
(***************************************************************************)

(* The stores hold what call c promises: the ID of its file, and under it  *)
(* the hash or the name.                                                   *)
Stored(c) ==
    LET i == source_id_store[c.file] IN
    /\ c.file \in File /\ i # 0
    /\ c.op \in {"insert_hash", "merge_hash"} =>
          c.hash \in Hash /\ i \in Sources(hash_data_store[c.hash])
    /\ c.op = "insert_source_name" => c.name \in source_name_store[i]

(* The points of a call after it has written its hash or its name. *)
Wrote == {"hash_store", "source_data"}

(* The calls that have returned, and those about to, are stored. *)
Written ==
    /\ \A c \in returned : Stored(c)
    /\ \A t \in Thread : pc(t) \in Wrote => Stored(frame[t].call)

(* What is stored stays stored. *)
LEMMA StoredStays ==
    ASSUME IInv, Remembers, NEW c, Stored(c)
    PROVE  Stored(c)'
<1> DEFINE i == source_id_store[c.file]
<1>1. c.file \in File /\ i # 0 /\ i \in SourceId
  BY DEF Stored, IInv, Types
<1>2. source_id_store'[c.file] = i
  BY <1>1 DEF Remembers
<1> HIDE DEF i
<1>3. c.op \in {"insert_hash", "merge_hash"} =>
         c.hash \in Hash /\ i \in Sources(hash_data_store'[c.hash])
  BY DEF Remembers, Stored, i
<1>4. c.op = "insert_source_name" => c.name \in source_name_store'[i]
  BY <1>1 DEF Remembers, Stored, i
<1>5. QED
  BY <1>1, <1>2, <1>3, <1>4 DEF Stored

(* A step of thread t whose call, if it returns or has written, is stored. *)
LEMMA WrittenMoves ==
    ASSUME IInv, Remembers, Written, NEW t \in Thread,
           NEW call, call = frame[t].call,
           \A u \in Thread \ {t} : frame'[u] = frame[u],
           frame'[t].pc \in Wrote => frame'[t].call = call,
           returned' \subseteq returned \cup {call},
           \/ Stored(call)'
           \/ returned' = returned /\ frame'[t].pc \notin Wrote
    PROVE  Written'
<1>1. \A c \in returned : Stored(c)'
  BY StoredStays DEF Written
<1>2. \A c \in returned' : Stored(c)'
  BY <1>1
<1>3. ASSUME NEW u \in Thread, frame'[u].pc \in Wrote,
             NEW c, c = frame'[u].call
      PROVE  Stored(c)'
  <2>1. CASE u = t
    BY <1>3, <2>1
  <2>2. CASE u # t
    <3>1. frame'[u] = frame[u] /\ pc(u) \in Wrote
      BY <1>3, <2>2 DEF pc
    <3>2. Stored(c)
      BY <1>3, <3>1 DEF Written
    <3>3. QED
      BY <3>2, StoredStays
  <2>3. QED
    BY <2>1, <2>2
<1>4. \A u \in Thread : frame'[u].pc \in Wrote => Stored(frame[u].call)'
  BY <1>3
<1>5. QED
  BY <1>2, <1>4 DEF Written, pc

(* No step loses what a call has written, and none returns before it has. *)
LEMMA StepWritten ==
    ASSUME IInv, Written, Next \/ Crash
    PROVE  Written'
<1>0. Remembers
  BY StepRemembers
<1>1. ASSUME NEW t \in Thread, NEW call \in Call, Enter(t, call)
      PROVE  Written'
  <2>1. /\ frame'[t].pc = "source_id" /\ returned' = returned
        /\ \A u \in Thread \ {t} : frame'[u] = frame[u]
    BY <1>1 DEF Enter, IInv, Types
  <2>2. QED
    BY <1>0, <2>1, WrittenMoves DEF Wrote
<1>2. ASSUME NEW t \in Thread, InsertSourceId(t)
      PROVE  Written'
  <2>0. PICK call : call = frame[t].call
    OBVIOUS
  <2>1. /\ call \in Call /\ source_id_store'[call.file] \in SourceId
        /\ frame'[t].call = call
        /\ \A u \in Thread \ {t} : frame'[u] = frame[u]
    BY <1>2, <2>0, IdFrame
  <2>2. returned' = returned
    BY <1>2 DEF InsertSourceId
  <2>3. CASE call.op = "insert_source_data"
    <3>1. call.file \in File /\ source_id_store'[call.file] # 0
      BY <2>1, CallFile, RecordAssumption
    <3>2. Stored(call)'
      BY <2>3, <3>1 DEF Stored
    <3>3. QED
      BY <1>0, <2>0, <2>1, <2>2, <3>2, WrittenMoves
  <2>4. CASE call.op # "insert_source_data"
    <3> DEFINE next == [insert_source_name |-> "source_name",
                        insert_source_data |-> "source_data",
                        insert_hash |-> "hash_data",
                        merge_hash |-> "hash_data"]
    <3>1. frame'[t].pc = next[call.op]
      BY <1>2, <2>0, Zenon DEF InsertSourceId, IInv, Types
    <3>2. call.op \in {"insert_source_name", "insert_hash", "merge_hash"}
      BY <2>1, <2>4, CallFile
    <3>3. frame'[t].pc \notin Wrote
      BY <3>1, <3>2 DEF Wrote
    <3>4. QED
      BY <1>0, <2>0, <2>1, <2>2, <3>3, WrittenMoves
  <2>5. QED
    BY <2>3, <2>4
<1>3. ASSUME NEW t \in Thread, pc(t) \in HasId, FinishWithBlank(t),
             NEW call, call = frame[t].call, Stored(call)'
      PROVE  Written'
  <2>1. /\ Moves(t)
        /\ \/ frame[t].is_new_id /\ frame'[t].pc = "source_data"
           \/ ~frame[t].is_new_id /\ frame'[t] = Idle
    BY <1>3, FinishMoves DEF IInv
  <2>2. returned' \subseteq returned \cup {call}
    BY <1>3 DEF FinishWithBlank, Return
  <2>3. frame'[t].pc \in Wrote => frame'[t].call = call
    BY <1>3, <2>1 DEF Moves, Idle, Wrote
  <2>4. QED
    BY <1>0, <1>3, <2>1, <2>2, <2>3, WrittenMoves DEF Moves
<1>4. ASSUME NEW t \in Thread, InsertSourceName(t)
      PROVE  Written'
  <2>0. PICK call, i : call = frame[t].call /\ i = frame[t].source_id
    OBVIOUS
  <2>1. /\ pc(t) = "source_name" /\ pc(t) \in HasId /\ FinishWithBlank(t)
        /\ UNCHANGED source_id_store
        /\ source_name_store' = [source_name_store EXCEPT ![i] =
              source_name_store[i] \cup {call.name}]
    BY <1>4, <2>0 DEF InsertSourceName, HasId
  <2>2. call \in NameCall /\ i \in SourceId
    BY <2>0, <2>1, FrameForms DEF IInv
  <2>3. call.op = "insert_source_name" /\ call.file \in File
    BY <2>2 DEF NameCall
  <2>4. i = source_id_store[call.file] /\ i # 0
    BY <2>0, <2>1, <2>2, RecordAssumption DEF IInv, OwnId
  <2>5. call.name \in source_name_store'[i]
    BY <2>1, <2>2 DEF IInv, Types
  <2>6. Stored(call)'
    BY <2>1, <2>3, <2>4, <2>5 DEF Stored
  <2>7. QED
    BY <1>3, <2>0, <2>1, <2>6
<1>5. ASSUME NEW t \in Thread, InsertHashData(t) \/ MergeHashData(t)
      PROVE  Written'
  <2>0. PICK call, i : call = frame[t].call /\ i = frame[t].source_id
    OBVIOUS
  <2>1. /\ pc(t) = "hash_data" /\ pc(t) \in HasId
        /\ UNCHANGED <<source_id_store, returned>>
    BY <1>5 DEF InsertHashData, MergeHashData, HasId
  <2>2. Moves(t) /\ frame'[t].pc = "hash_store"
    BY <1>5, InsertHashDataStep, MergeHashDataStep, Zenon
  <2>3. PICK h \in Hash, new \in Record :
           /\ h = frame[t].call.hash
           /\ Type2Size <= new.size
           /\ Sources(new) =
                 Sources(hash_data_store[h]) \cup {frame[t].source_id}
           /\ hash_data_store' = [hash_data_store EXCEPT ![h] = new]
    <3>1. CASE InsertHashData(t)
      BY <3>1, InsertHashDataStep, Zenon
    <3>2. CASE MergeHashData(t)
      BY <3>2, MergeHashDataStep, Zenon
    <3>3. QED
      BY <1>5, <3>1, <3>2
  <2>4. /\ call \in InsertCall \cup MergeCall /\ call.file \in File
        /\ call.op \in {"insert_hash", "merge_hash"}
    BY <2>0, <2>1, FrameForms DEF IInv, InsertCall, MergeCall
  <2>5. i = source_id_store[call.file] /\ i # 0
    BY <2>0, <2>1, ActiveFrame, RecordAssumption DEF IInv, OwnId
  <2>6. i \in Sources(hash_data_store'[call.hash])
    BY <2>0, <2>3 DEF IInv, Types
  <2>7. Stored(call)'
    BY <2>0, <2>1, <2>3, <2>4, <2>5, <2>6 DEF Stored
  <2>8. frame'[t].call = call
    BY <2>0, <2>2 DEF Moves, Idle
  <2>9. QED
    BY <1>0, <2>0, <2>1, <2>2, <2>7, <2>8, WrittenMoves DEF Moves
<1>6. ASSUME NEW t \in Thread, InsertHashStore(t) \/ InsertSourceData(t)
      PROVE  Written'
  <2>0. PICK call : call = frame[t].call
    OBVIOUS
  <2>1. pc(t) \in Wrote /\ pc(t) \in HasId
    BY <1>6 DEF InsertHashStore, InsertSourceData, Wrote, HasId
  <2>2. Stored(call)
    BY <2>0, <2>1 DEF Written
  <2>3. Stored(call)'
    BY <1>0, <2>2, StoredStays
  <2>4. CASE InsertHashStore(t)
    <3>1. FinishWithBlank(t)
      BY <2>4 DEF InsertHashStore
    <3>2. QED
      BY <1>3, <2>0, <2>1, <2>3, <3>1
  <2>5. CASE InsertSourceData(t)
    <3>1. Return(t)
      BY <2>5, Zenon DEF InsertSourceData
    <3>2. /\ Moves(t) /\ frame'[t] = Idle
          /\ returned' = returned \cup {call}
      BY <2>0, <3>1, ReturnMoves DEF IInv, Return
    <3>3. QED
      BY <1>0, <2>0, <2>3, <3>2, WrittenMoves DEF Moves, Idle, Wrote
  <2>6. QED
    BY <1>6, <2>4, <2>5
<1>7. ASSUME Crash PROVE Written'
  <2>1. returned' = returned /\ \A u \in Thread : frame'[u] = Idle
    BY <1>7 DEF Crash
  <2>2. \A c \in returned : Stored(c)'
    BY <1>0, StoredStays DEF Written
  <2>3. QED
    BY <2>1, <2>2 DEF Written, pc, Idle, Wrote
<1>8. QED
  BY <1>1, <1>2, <1>4, <1>5, <1>6, <1>7 DEF Next, Step

(* Nothing is promised of an empty database. *)
LEMMA InitWritten == Init => Written
BY DEF Init, Written, pc, Idle, Wrote

(* A step that changes nothing. *)
LEMMA StutterWritten == ASSUME Written, UNCHANGED vars PROVE Written'
BY DEF Written, Stored, vars, stores, pc

(***************************************************************************)
(* Whatever the other threads do and wherever the process dies later, the  *)
(* stores hold what a call that has returned was to write: the ID of its   *)
(* file, the hash with that source, the name.                              *)
(***************************************************************************)
THEOREM ReturnedIsStored == CrashSpec => [](\A c \in returned : Stored(c))
<1>1. IInv /\ Written /\ [Next \/ Crash]_vars => Written'
  BY StepWritten, StutterWritten
<1>2. Written => \A c \in returned : Stored(c)
  BY DEF Written
<1>3. QED
  BY <1>1, <1>2, InitWritten, CrashInvariance, PTL DEF CrashSpec

-----------------------------------------------------------------------------
(***************************************************************************)
(* The stores together implement HashSources over files: the source IDs in *)
(* between are invisible.                                                  *)
(***************************************************************************)

(* The state of HashSources that a state stands for. *)
SubsMap ==
    [h \in Hash |->
        [f \in FilesOf(hash_data_store[h]) |->
            SubCount(hash_data_store[h], source_id_store[f])]]
AboutMap == [h \in Hash |-> AboutOf(hash_data_store[h])]

(* A step that changes neither the IDs nor the hash data. *)
LEMMA SameSources ==
    ASSUME UNCHANGED <<source_id_store, hash_data_store>>
    PROVE  UNCHANGED Abstract!vars
BY DEF Abstract!vars, FilesOf

(* The ID of a new file is in no record yet: giving it out changes nothing *)
(* that HashSources sees.                                                  *)
LEMMA NewIdIsInvisible ==
    ASSUME IInv, NEW t \in Thread, InsertSourceId(t)
    PROVE  UNCHANGED Abstract!vars
<1> DEFINE file == frame[t].call.file
<1>0. UNCHANGED hash_data_store
  BY DEF InsertSourceId
<1>1. CASE UNCHANGED source_id_store
  BY <1>0, <1>1, SameSources
<1>2. ASSUME file \in File, source_id_store[file] = 0, size \in Nat,
             size + 1 \in SourceId,
             source_id_store' = [source_id_store EXCEPT ![file] = size + 1]
      PROVE  UNCHANGED Abstract!vars
  <2> HIDE DEF file
  <2>1. /\ source_id_store'[file] = size + 1
        /\ \A g \in File \ {file} : source_id_store'[g] = source_id_store[g]
    BY <1>2 DEF IInv, Types
  <2>2. 0 \notin UsedIds /\ size + 1 \notin UsedIds
    <3>1. \A g \in File : source_id_store[g] # size + 1
      <4>1. \A g \in File : source_id_store[g] <= size
        BY Zenon DEF IInv, IdsDense
      <4>2. QED
        BY <1>2, <4>1
    <3>2. QED
      BY <3>1 DEF UsedIds
  <2>3. \A h \in Hash : Sources(hash_data_store[h]) \subseteq UsedIds
    BY DEF IInv, SourceDataNamesFile
  <2>4. ASSUME NEW h \in Hash
        PROVE  /\ FilesOf(hash_data_store[h])' = FilesOf(hash_data_store[h])
               /\ \A f \in FilesOf(hash_data_store[h]) :
                     source_id_store'[f] = source_id_store[f]
    <3>1. /\ 0 \notin Sources(hash_data_store[h])
          /\ size + 1 \notin Sources(hash_data_store[h])
      BY <2>2, <2>3
    <3>2. \A f \in File :
             /\ source_id_store'[f] \in Sources(hash_data_store[h])
                    <=> source_id_store[f] \in Sources(hash_data_store[h])
             /\ source_id_store[f] \in Sources(hash_data_store[h])
                    => source_id_store'[f] = source_id_store[f]
      BY <1>2, <2>1, <3>1
    <3>3. QED
      BY <1>0, <3>2 DEF FilesOf
  <2>5. SubsMap' = SubsMap
    <3>1. \A h \in Hash :
             [f \in FilesOf(hash_data_store[h])' |->
                 SubCount(hash_data_store[h], source_id_store'[f])]
             = [f \in FilesOf(hash_data_store[h]) |->
                   SubCount(hash_data_store[h], source_id_store[f])]
      BY <2>4
    <3>2. QED
      BY <1>0, <3>1 DEF SubsMap
  <2>6. AboutMap' = AboutMap
    BY <1>0 DEF AboutMap
  <2>7. QED
    BY <2>5, <2>6 DEF SubsMap, AboutMap, Abstract!vars
<1>3. QED
  BY <1>1, <1>2, IdStoreStep

(* The files of a hash after one more source i, the ID of file f. *)
LEMMA OneMoreFile ==
    ASSUME IInv, NEW rec, NEW new, NEW f \in File, source_id_store[f] # 0,
           Sources(new) = Sources(rec) \cup {source_id_store[f]}
    PROVE  /\ FilesOf(new) = FilesOf(rec) \cup {f}
           /\ f \in FilesOf(rec) <=> source_id_store[f] \in Sources(rec)
           /\ \A g \in File : source_id_store[g] = source_id_store[f] <=> g = f
<1>1. \A g \in File : source_id_store[g] = source_id_store[f] <=> g = f
  BY DEF IInv, IdsDense
<1>2. QED
  BY <1>1 DEF FilesOf

(* A write of the record new under hash h, as HashSources sees it. *)
LEMMA OneRecord ==
    ASSUME IInv, NEW h \in Hash, NEW new, UNCHANGED source_id_store,
           hash_data_store' = [hash_data_store EXCEPT ![h] = new]
    PROVE  /\ SubsMap' = [SubsMap EXCEPT ![h] =
                 [f \in FilesOf(new) |-> SubCount(new, source_id_store[f])]]
           /\ AboutMap' = [AboutMap EXCEPT ![h] = AboutOf(new)]
<1>1. /\ hash_data_store'[h] = new
      /\ \A g \in Hash \ {h} : hash_data_store'[g] = hash_data_store[g]
  BY DEF IInv, Types
<1>2. \A g \in Hash :
         SubsMap'[g] = IF g = h
            THEN [f \in FilesOf(new) |-> SubCount(new, source_id_store[f])]
            ELSE SubsMap[g]
  BY <1>1 DEF SubsMap, FilesOf
<1>3. \A g \in Hash :
         AboutMap'[g] = IF g = h THEN AboutOf(new) ELSE AboutMap[g]
  BY <1>1 DEF AboutMap
<1>4. /\ SubsMap = [g \in Hash |-> SubsMap[g]]
      /\ SubsMap' = [g \in Hash |-> SubsMap'[g]]
      /\ AboutMap = [g \in Hash |-> AboutMap[g]]
      /\ AboutMap' = [g \in Hash |-> AboutMap'[g]]
  BY DEF SubsMap, AboutMap
<1>5. QED
  BY <1>2, <1>3, <1>4

(* insert_hash is Insert of HashSources for the file of the call. *)
LEMMA InsertHashRefines ==
    ASSUME IInv, NEW t \in Thread, InsertHashData(t)
    PROVE  Abstract!Next
<1>0. PICK call, i, rec, e, l :
         /\ call = frame[t].call /\ i = frame[t].source_id
         /\ rec = hash_data_store[call.hash]
         /\ e = call.k_entropy /\ l = truncate_block_label(call.label)
  OBVIOUS
<1> DEFINE h == call.hash
           f == call.file
           new == InsertRecord(rec, e, l, i)
<1>1. /\ pc(t) = "hash_data" /\ UNCHANGED source_id_store
      /\ hash_data_store' = [hash_data_store EXCEPT ![h] = new]
  BY <1>0, Zenon DEF InsertHashData
<1>2. /\ h \in Hash /\ e \in Entropy /\ l \in StoredLabel
      /\ i \in SourceId /\ rec \in Record
  BY <1>0, <1>1, HashCallFacts
<1>3. f \in File /\ i = source_id_store[f] /\ source_id_store[f] # 0
  BY <1>0, <1>1, <1>2, ActiveFrame, RecordAssumption DEF IInv, OwnId, HasId
<1>4. /\ Sources(new) = Sources(rec) \cup {i}
      /\ \A x \in Sources(rec) \cup {i} :
            SubCount(new, x) =
               IF x # i THEN SubCount(rec, x)
               ELSE IF i \in Sources(rec) THEN put2(SubCount(rec, i) + 1)
               ELSE 1
      /\ AboutOf(new) = IF AboutOf(rec) = <<>> THEN <<e, l>> ELSE AboutOf(rec)
  BY <1>2, RecordSources, InsertSubCounts, KeepsAbout
<1> HIDE DEF new, h, f
<1>5. /\ SubsMap' = [SubsMap EXCEPT ![h] =
            [g \in FilesOf(new) |-> SubCount(new, source_id_store[g])]]
      /\ AboutMap' = [AboutMap EXCEPT ![h] = AboutOf(new)]
  BY <1>1, <1>2, OneRecord
<1>6. /\ SubsMap[h] = [g \in FilesOf(rec) |->
                          SubCount(rec, source_id_store[g])]
      /\ AboutMap[h] = AboutOf(rec)
  BY <1>0, <1>2 DEF SubsMap, AboutMap, h
<1>7. [g \in FilesOf(new) |-> SubCount(new, source_id_store[g])]
      = Abstract!With(SubsMap[h], f,
                      IF f \in DOMAIN SubsMap[h]
                      THEN Abstract!Clip(SubsMap[h][f] + 1) ELSE 1)
  <2>1. /\ FilesOf(new) = FilesOf(rec) \cup {f}
        /\ f \in FilesOf(rec) <=> i \in Sources(rec)
        /\ \A g \in File : source_id_store[g] = i <=> g = f
    BY <1>3, <1>4, OneMoreFile
  <2>2. \A g \in FilesOf(rec) \cup {f} :
           SubCount(new, source_id_store[g]) =
              IF g # f THEN SubCount(rec, source_id_store[g])
              ELSE IF f \in FilesOf(rec) THEN put2(SubCount(rec, i) + 1) ELSE 1
    BY <1>3, <1>4, <2>1 DEF FilesOf
  <2>3. QED
    BY <1>3, <1>6, <2>1, <2>2 DEF Abstract!With, Abstract!Clip, put2
<1>8. Abstract!Insert(h, f, e, l)
  BY <1>4, <1>5, <1>6, <1>7
  DEF Abstract!Insert, Abstract!Describe, SubsMap, AboutMap
<1>9. QED
  BY <1>2, <1>3, <1>8 DEF Abstract!Next

(* merge_hash is Merge of HashSources for the file of the call, or changes *)
(* nothing if the file is known.                                           *)
LEMMA MergeHashRefines ==
    ASSUME IInv, NEW t \in Thread, MergeHashData(t)
    PROVE  Abstract!Next \/ UNCHANGED Abstract!vars
<1>0. PICK call, i, rec, e, l, n :
         /\ call = frame[t].call /\ i = frame[t].source_id
         /\ rec = hash_data_store[call.hash]
         /\ e = call.k_entropy /\ l = truncate_block_label(call.label)
         /\ n = call.sub_count
  OBVIOUS
<1> DEFINE h == call.hash
           f == call.file
           new == MergeRecord(rec, e, l, i, n)
<1>1. /\ pc(t) = "hash_data" /\ UNCHANGED source_id_store
      /\ call.op = "merge_hash"
      /\ hash_data_store' = [hash_data_store EXCEPT ![h] = new]
  BY <1>0, Zenon DEF MergeHashData
<1>2. /\ h \in Hash /\ e \in Entropy /\ l \in StoredLabel
      /\ i \in SourceId /\ rec \in Record /\ n \in Nat
  BY <1>0, <1>1, HashCallFacts
<1>3. f \in File /\ i = source_id_store[f] /\ source_id_store[f] # 0
  BY <1>0, <1>1, <1>2, ActiveFrame, RecordAssumption DEF IInv, OwnId, HasId
<1>4. CASE i \in Sources(rec)
  <2>1. new = rec
    BY <1>2, <1>4, RecordForms DEF MergeRecord, Sources
  <2>2. UNCHANGED hash_data_store
    BY <1>0, <1>1, <1>2, <2>1 DEF IInv, Types
  <2>3. QED
    BY <1>1, <2>2, SameSources
<1>5. CASE i \notin Sources(rec)
  <2>1. /\ Sources(new) = Sources(rec) \cup {i}
        /\ \A x \in Sources(rec) \cup {i} :
              SubCount(new, x) = IF x = i THEN put2(n) ELSE SubCount(rec, x)
        /\ AboutOf(new) = IF AboutOf(rec) = <<>> THEN <<e, l>>
                          ELSE AboutOf(rec)
    BY <1>2, <1>5, RecordSources, MergeSubCounts, KeepsAbout
  <2> HIDE DEF new, h, f
  <2>2. /\ SubsMap' = [SubsMap EXCEPT ![h] =
              [g \in FilesOf(new) |-> SubCount(new, source_id_store[g])]]
        /\ AboutMap' = [AboutMap EXCEPT ![h] = AboutOf(new)]
    BY <1>1, <1>2, OneRecord
  <2>3. /\ SubsMap[h] = [g \in FilesOf(rec) |->
                            SubCount(rec, source_id_store[g])]
        /\ AboutMap[h] = AboutOf(rec)
    BY <1>0, <1>2 DEF SubsMap, AboutMap, h
  <2>4. /\ FilesOf(new) = FilesOf(rec) \cup {f}
        /\ f \notin FilesOf(rec)
        /\ \A g \in File : source_id_store[g] = i <=> g = f
    BY <1>3, <1>5, <2>1, OneMoreFile
  <2>5. \A g \in FilesOf(rec) \cup {f} :
           SubCount(new, source_id_store[g]) =
              IF g = f THEN put2(n) ELSE SubCount(rec, source_id_store[g])
    BY <1>3, <2>1, <2>4 DEF FilesOf
  <2>6. put2(n) \in 0 .. Max2 /\ put2(put2(n)) = put2(n)
    BY <1>2, FieldsFit, WidthAssumption DEF put2
  <2>7. [g \in FilesOf(new) |-> SubCount(new, source_id_store[g])]
        = Abstract!With(SubsMap[h], f, Abstract!Clip(put2(n)))
    BY <2>3, <2>4, <2>5, <2>6 DEF Abstract!With, Abstract!Clip, put2
  <2>8. f \notin DOMAIN SubsMap[h]
    BY <2>3, <2>4
  <2>9. Abstract!Merge(h, f, put2(n), e, l)
    BY <2>1, <2>2, <2>3, <2>7, <2>8
    DEF Abstract!Merge, Abstract!Describe, SubsMap, AboutMap
  <2>10. QED
    BY <1>2, <1>3, <2>6, <2>9 DEF Abstract!Next
<1>6. QED
  BY <1>4, <1>5

(***************************************************************************)
(* Seen from outside, the stores are one map from hash and FILE to a       *)
(* clipped sub_count, whatever the source IDs are and in whatever order    *)
(* the threads got them: insert_hash adds one to its file, merge_hash sets *)
(* the sub_count of a new file, and no other step, and no crash, changes   *)
(* the map.                                                                *)
(***************************************************************************)
THEOREM StoresImplementHashSources == CrashSpec => ImplementsHashSources
<1>1. Init => Abstract!Init
  <2> SUFFICES ASSUME Init PROVE Abstract!Init
    OBVIOUS
  <2>1. \A h \in Hash : /\ hash_data_store[h] = None
                        /\ FilesOf(hash_data_store[h]) = {}
                        /\ AboutOf(hash_data_store[h]) = <<>>
    BY DEF Init, None, Sources, FilesOf, AboutOf
  <2>2. QED
    BY <2>1 DEF Abstract!Init
<1>2. ASSUME IInv, [Next \/ Crash]_vars
      PROVE  [Abstract!Next]_(Abstract!vars)
  <2>1. ASSUME NEW t \in Thread, Step(t)
        PROVE  Abstract!Next \/ UNCHANGED Abstract!vars
    <3>1. CASE InsertSourceId(t)
      BY <1>2, <3>1, NewIdIsInvisible
    <3>2. CASE InsertHashData(t)
      BY <1>2, <3>2, InsertHashRefines
    <3>3. CASE MergeHashData(t)
      BY <1>2, <3>3, MergeHashRefines
    <3>4. ASSUME NEW call \in Call, Enter(t, call)
          PROVE  UNCHANGED Abstract!vars
      BY <3>4, SameSources DEF Enter, stores
    <3>5. CASE InsertSourceName(t) \/ InsertHashStore(t)
               \/ InsertSourceData(t)
      BY <3>5, SameSources
      DEF InsertSourceName, InsertHashStore, InsertSourceData
    <3>6. QED
      BY <2>1, <3>1, <3>2, <3>3, <3>4, <3>5 DEF Step
  <2>2. CASE Crash
    BY <2>2, SameSources DEF Crash, stores
  <2>3. CASE UNCHANGED vars
    BY <2>3, SameSources DEF vars, stores
  <2>4. QED
    BY <1>2, <2>1, <2>2, <2>3 DEF Next
<1>3. QED
  BY <1>1, <1>2, CrashInvariance, PTL
  DEF CrashSpec, ImplementsHashSources, Abstract!Spec

(***************************************************************************)
(* The scan manager, beside the import managers.                           *)
(***************************************************************************)
(* The program points of a call. *)
Active == {"hash_store", "hash_data", "sources", "assert", "report",
           "source_data", "source_names"}

(* The points after ReportHash has chosen to give the whole of the hash. *)
Reports == {"report", "source_data", "source_names"}

(* A record with the fields of a call. *)
Form(r) ==
    r = [pc |-> r.pc, mode |-> r.mode, hash |-> r.hash, number |-> r.number,
         ids |-> r.ids, files |-> r.files, todo |-> r.todo,
         described |-> r.described, source |-> r.source,
         promised |-> r.promised]

(* What scan[s] can be: idle, or a call. *)
InCall(r) == r.pc \in Active /\ r.hash \in Hash /\ Form(r)
IsFrame(r) == r = NoScan \/ InCall(r)

(* Each scanning thread is idle or in a call. *)
Scans ==
    /\ scan = [s \in Scanner |-> scan[s]]
    /\ \A s \in Scanner : IsFrame(scan[s])

(* What the call of s is for. *)
SameCall(s) ==
    /\ scan'[s].mode = scan[s].mode
    /\ scan'[s].hash = scan[s].hash
    /\ scan'[s].promised = scan[s].promised

OthersScan(s) == \A u \in Scanner \ {s} : scan'[u] = scan[u]

-----------------------------------------------------------------------------
(***************************************************************************)
(* What each step of a scan does to the frame of its thread.               *)
(***************************************************************************)

(* A thread that writes its frame leaves the others alone. *)
LEMMA ScanWrite ==
    ASSUME Scans, NEW s \in Scanner, NEW r,
           scan' = [scan EXCEPT ![s] = r],
           IsFrame(r)
    PROVE  Scans' /\ scan'[s] = r /\ OthersScan(s)
<1>1. /\ scan'[s] = r /\ OthersScan(s)
      /\ scan' = [u \in Scanner |-> scan'[u]]
  BY DEF Scans, OthersScan
<1>2. QED
  BY <1>1 DEF Scans, OthersScan

(* A thread that is not idle is in a call. *)
LEMMA NotIdle ==
    ASSUME Scans, NEW s \in Scanner, scan[s].pc # "idle"
    PROVE  InCall(scan[s])
BY DEF Scans, IsFrame, NoScan

(* The call begins. *)
LEMMA FindForm ==
    ASSUME Scans, NEW s \in Scanner, NEW mode \in Modes, NEW h \in Hash,
           find_hash_json(s, mode, h)
    PROVE  /\ Scans' /\ OthersScan(s) /\ At(s, "idle")
           /\ scan'[s].pc \in {"hash_data", "hash_store"}
           /\ scan'[s].hash = h /\ scan'[s].described = {}
           /\ scan'[s].promised = [files |-> ReturnedFiles(h),
                                   names |-> ReturnedNames]
           /\ UNCHANGED <<hashes, sources, reports>>
<1> DEFINE r == [pc |-> IF mode = "COUNT" THEN "hash_data" ELSE "hash_store",
                 mode |-> mode, hash |-> h, number |-> scans', ids |-> {},
                 files |-> {}, todo |-> {}, described |-> {}, source |-> {},
                 promised |-> [files |-> ReturnedFiles(h),
                               names |-> ReturnedNames]]
<1>1. scan' = [scan EXCEPT ![s] = r]
  BY Zenon DEF find_hash_json
<1>2. /\ r.pc \in {"hash_data", "hash_store"} /\ r.hash = h
      /\ r.described = {} /\ Form(r)
      /\ r.promised = [files |-> ReturnedFiles(h), names |-> ReturnedNames]
  BY DEF Form
<1> HIDE DEF r
<1>3. Scans' /\ scan'[s] = r /\ OthersScan(s)
  BY <1>1, <1>2, ScanWrite DEF IsFrame, InCall, Active
<1>4. At(s, "idle") /\ UNCHANGED <<hashes, sources, reports>>
  BY DEF find_hash_json
<1>5. QED
  BY <1>2, <1>3, <1>4

(* What report r of the call of s says, besides the answer. *)
IsReport(r, s) ==
    /\ r.mode = scan[s].mode /\ r.hash = scan[s].hash
    /\ r.promised = scan[s].promised
    /\ r.files = scan[s].files /\ r.described = scan[s].described

(* A call that replies is over, and its report is the only new one. *)
LEMMA ReplyForm ==
    ASSUME Scans, NEW s \in Scanner, NEW found, NEW full,
           Reply(s, found, full)
    PROVE  /\ Scans' /\ OthersScan(s) /\ scan'[s] = NoScan
           /\ \E r : /\ reports' = reports \cup {r} /\ IsReport(r, s)
                     /\ r.found = found /\ r.full = full
<1>0. scan' = [scan EXCEPT ![s] = NoScan]
  BY DEF Reply
<1>1. Scans' /\ scan'[s] = NoScan /\ OthersScan(s)
  BY <1>0, ScanWrite DEF IsFrame
<1> DEFINE r == [number |-> scan[s].number, mode |-> scan[s].mode,
                 hash |-> scan[s].hash, promised |-> scan[s].promised,
                 found |-> found, full |-> full, files |-> scan[s].files,
                 described |-> scan[s].described]
<1>2. reports' = reports \cup {r}
  BY Zenon DEF Reply
<1>3. IsReport(r, s) /\ r.found = found /\ r.full = full
  BY DEF IsReport
<1> HIDE DEF r
<1>4. QED
  BY <1>1, <1>2, <1>3

(* Any other step goes on in the call: it writes the program point and     *)
(* some of the locals.                                                     *)
LEMMA GoOn ==
    ASSUME Scans, NEW s \in Scanner, InCall(scan[s]), NEW new,
           Form(new), new.pc \in Active,
           new.mode = scan[s].mode, new.hash = scan[s].hash,
           new.promised = scan[s].promised,
           scan' = [scan EXCEPT ![s] = new]
    PROVE  Scans' /\ scan'[s] = new /\ OthersScan(s) /\ SameCall(s)
<1>1. IsFrame(new)
  BY DEF IsFrame, InCall
<1>2. Scans' /\ scan'[s] = new /\ OthersScan(s)
  BY <1>1, ScanWrite
<1>3. QED
  BY <1>2 DEF SameCall

(* The hash store has been read and the hash is there. *)
LEMMA ToHashData ==
    ASSUME Scans, NEW s \in Scanner, At(s, "hash_store"), To(s, "hash_data")
    PROVE  /\ Scans' /\ OthersScan(s) /\ SameCall(s)
           /\ scan'[s].pc = "hash_data"
           /\ scan'[s].described = scan[s].described
<1>1. InCall(scan[s])
  BY NotIdle DEF At
<1>2. PICK new : new = [scan[s] EXCEPT !.pc = "hash_data"]
  OBVIOUS
<1>3. /\ Form(new) /\ new.pc = "hash_data" /\ new.mode = scan[s].mode
      /\ new.hash = scan[s].hash /\ new.promised = scan[s].promised
      /\ new.described = scan[s].described
  BY <1>1, <1>2 DEF InCall, Form
<1>4. scan' = [scan EXCEPT ![s] = new]
  BY <1>2 DEF To
<1>5. QED
  BY <1>1, <1>3, <1>4, GoOn DEF Active

(* The hash store: a reply, or on to the hash data. *)
LEMMA HashStoreForm ==
    ASSUME Scans, NEW s \in Scanner, FindHashStore(s)
    PROVE  /\ At(s, "hash_store") /\ UNCHANGED <<hashes, sources>>
           /\ \/ \E found : Reply(s, found, FALSE)
              \/ To(s, "hash_data") /\ UNCHANGED reports
BY DEF FindHashStore

(* The hash data: a reply, or on to the sources of the hash. *)
LEMMA HashDataForm ==
    ASSUME Scans, NEW s \in Scanner, FindHashData(s)
    PROVE  /\ At(s, "hash_data") /\ UNCHANGED <<hashes, sources>>
           /\ \/ \E found : Reply(s, found, FALSE)
              \/ /\ Scans' /\ OthersScan(s) /\ SameCall(s)
                 /\ At(s, "sources")'
                 /\ scan'[s].ids = Sources(hash_data_store[scan[s].hash])
                 /\ scan'[s].described = scan[s].described
                 /\ UNCHANGED reports
<1>1. At(s, "hash_data") /\ UNCHANGED <<hashes, sources>>
  BY DEF FindHashData
<1>2. InCall(scan[s])
  BY <1>1, NotIdle DEF At
<1>3. PICK ids : ids = Sources(hash_data_store[scan[s].hash])
  OBVIOUS
<1>4. CASE \E found : Reply(s, found, FALSE)
  BY <1>1, <1>4
<1>5. CASE /\ scan' = [scan EXCEPT ![s].pc = "sources", ![s].ids = ids]
           /\ UNCHANGED reports
  <2>1. PICK new : new = [scan[s] EXCEPT !.pc = "sources", !.ids = ids]
    OBVIOUS
  <2>2. /\ Form(new) /\ new.pc = "sources" /\ new.mode = scan[s].mode
        /\ new.hash = scan[s].hash /\ new.promised = scan[s].promised
        /\ new.described = scan[s].described /\ new.ids = ids
    BY <1>2, <2>1 DEF InCall, Form
  <2>3. scan' = [scan EXCEPT ![s] = new]
    BY <1>5, <2>1 DEF Scans
  <2>4. Scans' /\ scan'[s] = new /\ OthersScan(s) /\ SameCall(s)
    BY <1>2, <2>2, <2>3, GoOn DEF Active
  <2>5. QED
    BY <1>1, <1>3, <1>5, <2>2, <2>4 DEF At
<1>6. QED
  BY <1>3, <1>4, <1>5 DEF FindHashData

(* One source ID is read, and has data or not. *)
LEMMA SourceForm ==
    ASSUME Scans, NEW s \in Scanner, FindSourceData(s)
    PROVE  /\ At(s, "sources") /\ UNCHANGED <<hashes, sources, reports>>
           /\ Scans' /\ OthersScan(s) /\ SameCall(s)
           /\ scan'[s].described = scan[s].described
           /\ \E i \in scan[s].ids :
                /\ scan'[s].ids = scan[s].ids \ {i}
                /\ scan'[s].source = {i}
                /\ \/ /\ At(s, "assert")' /\ source_data_store[i] = NoData
                      /\ scan'[s].files = scan[s].files
                   \/ /\ At(s, "sources")' /\ source_data_store[i] # NoData
                      /\ scan'[s].files = scan[s].files
                                          \cup {source_data_store[i].file}
<1>1. At(s, "sources") /\ UNCHANGED <<hashes, sources, reports>>
  BY DEF FindSourceData
<1>2. InCall(scan[s])
  BY <1>1, NotIdle DEF At
<1>3. PICK i \in scan[s].ids :
         LET d == source_data_store[i]
         IN  scan' = [scan EXCEPT
               ![s].ids = @ \ {i},
               ![s].files = IF d = NoData THEN @ ELSE @ \cup {d.file},
               ![s].source = {i},
               ![s].pc = IF d = NoData THEN "assert" ELSE "sources"]
  BY DEF FindSourceData
<1> DEFINE d == source_data_store[i]
<1>4. PICK files, point :
         /\ files = IF d = NoData THEN scan[s].files
                    ELSE scan[s].files \cup {d.file}
         /\ point = IF d = NoData THEN "assert" ELSE "sources"
  OBVIOUS
<1>5. PICK new : new = [scan[s] EXCEPT !.ids = scan[s].ids \ {i},
                                       !.files = files, !.source = {i},
                                       !.pc = point]
  OBVIOUS
<1>6. /\ Form(new) /\ new.pc = point /\ new.mode = scan[s].mode
      /\ new.hash = scan[s].hash /\ new.promised = scan[s].promised
      /\ new.described = scan[s].described /\ new.source = {i}
      /\ new.ids = scan[s].ids \ {i} /\ new.files = files
  BY <1>2, <1>5 DEF InCall, Form
<1>7. scan' = [scan EXCEPT ![s] = new]
  BY <1>3, <1>4, <1>5 DEF Scans
<1>8. Scans' /\ scan'[s] = new /\ OthersScan(s) /\ SameCall(s)
  BY <1>2, <1>4, <1>6, <1>7, GoOn DEF Active
<1>9. QED
  BY <1>1, <1>4, <1>6, <1>8 DEF At

(* The hash is reported: by its name alone, or in full. *)
LEMMA ReportHashForm ==
    ASSUME Scans, NEW s \in Scanner, ReportHash(s)
    PROVE  /\ At(s, "sources") /\ scan[s].ids = {} /\ UNCHANGED sources
           /\ \/ /\ Optimizing(s) /\ scan[s].hash \in hashes
                 /\ Reply(s, TRUE, FALSE) /\ UNCHANGED hashes
              \/ /\ ~(Optimizing(s) /\ scan[s].hash \in hashes)
                 /\ Scans' /\ OthersScan(s) /\ SameCall(s)
                 /\ At(s, "report")'
                 /\ scan'[s].files = scan[s].files
                 /\ scan'[s].described = scan[s].described
                 /\ hashes' = IF Optimizing(s) THEN hashes \cup {scan[s].hash}
                              ELSE hashes
                 /\ UNCHANGED reports
<1>1. At(s, "sources") /\ scan[s].ids = {} /\ UNCHANGED sources
  BY DEF ReportHash
<1>2. InCall(scan[s])
  BY <1>1, NotIdle DEF At
<1>3. CASE Optimizing(s) /\ scan[s].hash \in hashes
  BY <1>1, <1>3 DEF ReportHash
<1>4. CASE ~(Optimizing(s) /\ scan[s].hash \in hashes)
  <2>1. /\ scan' = [scan EXCEPT ![s].pc = "report",
                                ![s].todo = scan[s].files]
        /\ hashes' = IF Optimizing(s) THEN hashes \cup {scan[s].hash}
                     ELSE hashes
        /\ UNCHANGED reports
    BY <1>4 DEF ReportHash
  <2>2. PICK new : new = [scan[s] EXCEPT !.pc = "report",
                                         !.todo = scan[s].files]
    OBVIOUS
  <2>3. /\ Form(new) /\ new.pc = "report" /\ new.mode = scan[s].mode
        /\ new.hash = scan[s].hash /\ new.promised = scan[s].promised
        /\ new.described = scan[s].described /\ new.files = scan[s].files
    BY <1>2, <2>2 DEF InCall, Form
  <2>4. scan' = [scan EXCEPT ![s] = new]
    BY <2>1, <2>2 DEF Scans
  <2>5. Scans' /\ scan'[s] = new /\ OthersScan(s) /\ SameCall(s)
    BY <1>2, <2>3, <2>4, GoOn DEF Active
  <2>6. QED
    BY <1>1, <1>4, <2>1, <2>3, <2>5 DEF At
<1>5. QED
  BY <1>3, <1>4

(* One file of the hash: described unless it was already. *)
LEMMA ReportSourceForm ==
    ASSUME Scans, NEW s \in Scanner, ReportSource(s)
    PROVE  /\ At(s, "report") /\ UNCHANGED <<hashes, reports>>
           /\ Scans' /\ OthersScan(s) /\ SameCall(s)
           /\ scan'[s].files = scan[s].files
           /\ scan'[s].described = scan[s].described
           /\ \E f \in scan[s].todo :
                /\ scan'[s].source = {f}
                /\ sources' = IF Optimizing(s) THEN sources \cup {f}
                              ELSE sources
                /\ \/ Optimizing(s) /\ f \in sources /\ At(s, "report")'
                   \/ /\ ~(Optimizing(s) /\ f \in sources)
                      /\ At(s, "source_data")'
<1>1. At(s, "report") /\ UNCHANGED <<hashes, reports>>
  BY DEF ReportSource
<1>2. InCall(scan[s])
  BY <1>1, NotIdle DEF At
<1>3. PICK f \in scan[s].todo :
         /\ scan' = [scan EXCEPT
               ![s].todo = @ \ {f}, ![s].source = {f},
               ![s].pc = IF Optimizing(s) /\ f \in sources
                         THEN "report" ELSE "source_data"]
         /\ sources' = IF Optimizing(s) THEN sources \cup {f} ELSE sources
  BY DEF ReportSource
<1>4. PICK point : point = IF Optimizing(s) /\ f \in sources
                           THEN "report" ELSE "source_data"
  OBVIOUS
<1>5. PICK new : new = [scan[s] EXCEPT !.todo = scan[s].todo \ {f},
                                       !.source = {f}, !.pc = point]
  OBVIOUS
<1>6. /\ Form(new) /\ new.pc = point /\ new.mode = scan[s].mode
      /\ new.hash = scan[s].hash /\ new.promised = scan[s].promised
      /\ new.described = scan[s].described /\ new.source = {f}
      /\ new.files = scan[s].files
  BY <1>2, <1>5 DEF InCall, Form
<1>7. scan' = [scan EXCEPT ![s] = new]
  BY <1>3, <1>4, <1>5 DEF Scans
<1>8. Scans' /\ scan'[s] = new /\ OthersScan(s) /\ SameCall(s)
  BY <1>2, <1>4, <1>6, <1>7, GoOn DEF Active
<1>9. QED
  BY <1>1, <1>3, <1>4, <1>6, <1>8 DEF At

(* The two reads of a source that is described. *)
LEMMA ReadDataForm ==
    ASSUME Scans, NEW s \in Scanner, ReadSourceData(s)
    PROVE  /\ At(s, "source_data") /\ UNCHANGED <<hashes, sources, reports>>
           /\ Scans' /\ OthersScan(s) /\ SameCall(s)
           /\ At(s, "source_names")'
           /\ scan'[s].files = scan[s].files
           /\ scan'[s].described = scan[s].described
           /\ \E f \in scan[s].source : \E d : scan'[s].source = {<<f, d>>}
<1>1. At(s, "source_data") /\ UNCHANGED <<hashes, sources, reports>>
  BY DEF ReadSourceData
<1>2. InCall(scan[s])
  BY <1>1, NotIdle DEF At
<1>3. PICK f \in scan[s].source :
         scan' = [scan EXCEPT
            ![s].pc = "source_names",
            ![s].source = {<<f, source_data_store[source_id_store[f]]>>}]
  BY DEF ReadSourceData
<1>4. PICK d : d = source_data_store[source_id_store[f]]
  OBVIOUS
<1>5. PICK new : new = [scan[s] EXCEPT !.pc = "source_names",
                                       !.source = {<<f, d>>}]
  OBVIOUS
<1>6. /\ Form(new) /\ new.pc = "source_names" /\ new.mode = scan[s].mode
      /\ new.hash = scan[s].hash /\ new.promised = scan[s].promised
      /\ new.described = scan[s].described /\ new.source = {<<f, d>>}
      /\ new.files = scan[s].files
  BY <1>2, <1>5 DEF InCall, Form
<1>7. scan' = [scan EXCEPT ![s] = new]
  BY <1>3, <1>4, <1>5 DEF Scans
<1>8. Scans' /\ scan'[s] = new /\ OthersScan(s) /\ SameCall(s)
  BY <1>2, <1>6, <1>7, GoOn DEF Active
<1>9. QED
  BY <1>1, <1>6, <1>8 DEF At

(* Reading the names of a source adds what the source name store holds     *)
(* under its ID to the report, and changes no other call.                  *)
LEMMA ReadNamesForm ==
    ASSUME Scans, NEW s \in Scanner, ReadSourceNames(s)
    PROVE  /\ At(s, "source_names") /\ UNCHANGED <<hashes, sources, reports>>
           /\ Scans' /\ OthersScan(s) /\ SameCall(s)
           /\ At(s, "report")'
           /\ scan'[s].files = scan[s].files
           /\ \E p \in scan[s].source : \E d :
                /\ d.file = p[1]
                /\ d.names = source_name_store[source_id_store[p[1]]]
                /\ scan'[s].described = scan[s].described \cup {d}
<1>1. At(s, "source_names") /\ UNCHANGED <<hashes, sources, reports>>
  BY DEF ReadSourceNames
<1>2. InCall(scan[s])
  BY <1>1, NotIdle DEF At
<1>3. PICK p \in scan[s].source :
         scan' = [scan EXCEPT
            ![s].pc = "report",
            ![s].described = @ \cup
               {[file |-> p[1], data |-> p[2],
                 names |-> source_name_store[source_id_store[p[1]]]]}]
  BY DEF ReadSourceNames
<1>4. PICK d : d = [file |-> p[1], data |-> p[2],
                    names |-> source_name_store[source_id_store[p[1]]]]
  OBVIOUS
<1>5. PICK new : new = [scan[s] EXCEPT !.pc = "report",
                           !.described = scan[s].described \cup {d}]
  OBVIOUS
<1>6. /\ Form(new) /\ new.pc = "report" /\ new.mode = scan[s].mode
      /\ new.hash = scan[s].hash /\ new.promised = scan[s].promised
      /\ new.described = scan[s].described \cup {d}
      /\ new.files = scan[s].files
  BY <1>2, <1>5 DEF InCall, Form
<1>7. scan' = [scan EXCEPT ![s] = new]
  BY <1>3, <1>4, <1>5 DEF Scans
<1>8. Scans' /\ scan'[s] = new /\ OthersScan(s) /\ SameCall(s)
  BY <1>2, <1>6, <1>7, GoOn DEF Active
<1>9. d.file = p[1] /\ d.names = source_name_store[source_id_store[p[1]]]
  BY <1>4
<1>10. QED
  BY <1>1, <1>6, <1>8, <1>9 DEF At

(* Every step of a scan keeps the frames well formed. *)
LEMMA StepScans ==
    ASSUME Scans, NEW s \in Scanner, ScanStep(s)
    PROVE  Scans' /\ OthersScan(s)
<1>1. CASE \E mode \in Modes, h \in Hash : find_hash_json(s, mode, h)
  BY <1>1, FindForm
<1>2. CASE FindHashStore(s)
  BY <1>2, HashStoreForm, ReplyForm, ToHashData
<1>3. CASE FindHashData(s)
  BY <1>3, HashDataForm, ReplyForm
<1>4. CASE FindSourceData(s)
  BY <1>4, SourceForm
<1>5. CASE ReportHash(s)
  BY <1>5, ReportHashForm, ReplyForm
<1>6. CASE ReportSource(s) \/ ReadSourceData(s) \/ ReadSourceNames(s)
  BY <1>6, ReportSourceForm, ReadDataForm, ReadNamesForm
<1>7. CASE ReturnReport(s)
  BY <1>7, ReplyForm DEF ReturnReport
<1>8. QED
  BY <1>1, <1>2, <1>3, <1>4, <1>5, <1>6, <1>7 DEF ScanStep

-----------------------------------------------------------------------------
(***************************************************************************)
(* The assertion of find_hash.                                             *)
(***************************************************************************)

(* The source IDs that a scan has read are IDs that were given out. *)
ReadIds ==
    \A s \in Scanner :
        /\ At(s, "sources") => scan[s].ids \subseteq UsedIds
        /\ At(s, "assert") => scan[s].source \subseteq UsedIds

(* The invariant of the stores, beside which the scans run. *)
StoresInv == IInv /\ PendingSourceData /\ Written

(* IDs are never taken back. *)
LEMMA IdsGrow == ASSUME IInv, Next PROVE UsedIds \subseteq UsedIds'
<1>1. Remembers
  BY StepRemembers
<1>2. QED
  BY <1>1 DEF Remembers, UsedIds

(* What one scan reads does not concern the others. *)
LEMMA OneReads ==
    ASSUME ReadIds, NEW s \in Scanner, OthersScan(s), UNCHANGED UsedIds,
           At(s, "sources")' => scan'[s].ids \subseteq UsedIds,
           At(s, "assert")' => scan'[s].source \subseteq UsedIds
    PROVE  ReadIds'
BY DEF ReadIds, OthersScan, At

(* Every step of a scan keeps ReadIds. *)
LEMMA StepReads ==
    ASSUME IInv, Scans, ReadIds, NEW s \in Scanner, ScanStep(s),
           UNCHANGED vars
    PROVE  ReadIds'
<1>0. UsedIds' = UsedIds /\ OthersScan(s)
  BY StepScans DEF UsedIds, vars, stores
<1>1. ASSUME scan'[s].pc \notin {"sources", "assert"} PROVE ReadIds'
  BY <1>0, <1>1, OneReads DEF At
<1>2. ASSUME NEW found, NEW full, Reply(s, found, full) PROVE ReadIds'
  BY <1>1, <1>2, ReplyForm DEF NoScan
<1>3. CASE \E mode \in Modes, h \in Hash : find_hash_json(s, mode, h)
  BY <1>1, <1>3, FindForm
<1>4. CASE FindHashStore(s)
  BY <1>1, <1>2, <1>4, HashStoreForm, ToHashData
<1>5. CASE FindHashData(s)
  <2>1. At(s, "hash_data") /\ scan[s].hash \in Hash
    BY <1>5, HashDataForm, NotIdle DEF At, InCall
  <2>2. Sources(hash_data_store[scan[s].hash]) \subseteq UsedIds
    BY <2>1 DEF IInv, SourceDataNamesFile
  <2>3. QED
    BY <1>0, <1>2, <1>5, <2>2, HashDataForm, OneReads DEF At
<1>6. CASE FindSourceData(s)
  <2>1. scan[s].ids \subseteq UsedIds
    BY <1>6, SourceForm DEF ReadIds
  <2>2. scan'[s].ids \subseteq UsedIds /\ scan'[s].source \subseteq UsedIds
    BY <1>6, <2>1, SourceForm
  <2>3. QED
    BY <1>0, <2>2, OneReads
<1>7. CASE ReportHash(s)
  BY <1>1, <1>2, <1>7, ReportHashForm DEF At
<1>8. CASE ReportSource(s) \/ ReadSourceData(s) \/ ReadSourceNames(s)
  BY <1>1, <1>8, ReportSourceForm, ReadDataForm, ReadNamesForm DEF At
<1>9. CASE ReturnReport(s)
  BY <1>2, <1>9 DEF ReturnReport
<1>10. QED
  BY <1>3, <1>4, <1>5, <1>6, <1>7, <1>8, <1>9 DEF ScanStep

(* Nothing is read before the first scan. *)
LEMMA InitScans == ScanInit => Scans /\ \A s \in Scanner : At(s, "idle")
BY DEF ScanInit, Scans, IsFrame, NoScan, At

(* The stores keep their invariant while scans run beside the imports. *)
LEMMA StoresStep ==
    ASSUME StoresInv, [ScanNext]_allVars
    PROVE  StoresInv'
<1>1. ASSUME UNCHANGED vars PROVE StoresInv'
  <2>1. UNCHANGED <<source_id_store, source_data_store, frame>>
    BY <1>1 DEF vars, stores
  <2>2. PendingSourceData'
    BY <2>1 DEF StoresInv, PendingSourceData, UsedIds, WillDescribe, pc
  <2>3. QED
    BY <1>1, <2>2, StutterIInv, StutterWritten DEF StoresInv
<1>2. ASSUME Next PROVE StoresInv'
  BY <1>2, StepIInv, StepPending, StepWritten DEF StoresInv
<1>3. QED
  BY <1>1, <1>2 DEF ScanNext, Scanning, Importing, allVars

(* What is proved of the import manager holds beside scanning threads,     *)
(* which only read the stores.                                             *)
LEMMA StoresInvariance == ScanSpec => []StoresInv
<1>1. Init => StoresInv
  <2>1. Init => PendingSourceData
    BY DEF Init, PendingSourceData, UsedIds
  <2>2. QED
    BY <2>1, InitIInv, InitWritten DEF StoresInv
<1>2. QED
  BY <1>1, StoresStep, PTL DEF ScanSpec

(* Beside the imports, scans keep to IDs that were given out. *)
LEMMA ReadsInvariance == ScanSpec => [](Scans /\ ReadIds)
<1>1. Init /\ ScanInit => Scans /\ ReadIds
  BY InitScans DEF ReadIds, At
<1>2. ASSUME StoresInv, Scans, ReadIds, [ScanNext]_allVars
      PROVE  Scans' /\ ReadIds'
  <2>1. CASE Scanning
    BY <1>2, <2>1, StepScans, StepReads DEF Scanning, StoresInv
  <2>2. ASSUME UNCHANGED scanVars, UsedIds \subseteq UsedIds'
        PROVE  Scans' /\ ReadIds'
    BY <1>2, <2>2 DEF Scans, ReadIds, At, scanVars
  <2>3. CASE Importing
    BY <1>2, <2>2, <2>3, IdsGrow DEF Importing, StoresInv
  <2>4. CASE UNCHANGED allVars
    BY <2>2, <2>4 DEF allVars, vars, stores, UsedIds
  <2>5. QED
    BY <1>2, <2>1, <2>3, <2>4 DEF ScanNext
<1>3. QED
  BY <1>1, <1>2, StoresInvariance, PTL DEF ScanSpec

(***************************************************************************)
(* find_hash ends the process only over a source that an import has        *)
(* numbered and not yet described: however many threads import and scan,   *)
(* the source that the assertion missed has a thread that will write it.   *)
(***************************************************************************)
THEOREM AbortsAreOnPending == ScanSpec => []AbortsOnlyOnPending
<1>1. StoresInv /\ Scans /\ ReadIds => AbortsOnlyOnPending
  <2> SUFFICES ASSUME StoresInv, ReadIds, NEW s \in Scanner,
                      scan[s].pc = "assert", NEW i \in scan[s].source,
                      source_data_store[i] = NoData
               PROVE  \E t \in Thread : WillDescribe(t, i)
    BY DEF AbortsOnlyOnPending
  <2>1. i \in UsedIds
    BY DEF ReadIds, At
  <2>2. QED
    BY <2>1 DEF StoresInv, PendingSourceData
<1>2. QED
  BY <1>1, StoresInvariance, ReadsInvariance, PTL

(* The look-up of every source succeeds when no import is under way, also  *)
(* with scans beside the imports.                                          *)
THEOREM LookupSucceedsBesideScans == ScanSpec => []ReverseLookup
<1>1. StoresInv => ReverseLookup
  BY PendingReverseLookup DEF StoresInv
<1>2. QED
  BY <1>1, StoresInvariance, PTL

-----------------------------------------------------------------------------
(***************************************************************************)
(* EXPANDED_OPTIMIZED: a hash in full once, a source described once.       *)
(***************************************************************************)

(* Who gives the whole of a hash in the set of reported hashes: one report *)
(* or one thread, and nobody before.                                       *)
OneFull ==
    \A h \in Hash :
        \/ h \notin hashes /\ FullReports(h) = {} /\ Reporting(h) = {}
        \/ /\ h \in hashes /\ Reporting(h) = {}
           /\ \E r \in reports : FullReports(h) = {r}
        \/ /\ h \in hashes /\ FullReports(h) = {}
           /\ \E s \in Scanner : Reporting(h) = {s}

(* The files that the call of s has described or is about to. *)
Claimed(s) ==
    IF At(s, "idle") \/ ~Optimizing(s) THEN {}
    ELSE {d.file : d \in scan[s].described}
         \cup (IF At(s, "source_data") THEN scan[s].source ELSE {})
         \cup (IF At(s, "source_names") THEN {d[1] : d \in scan[s].source}
               ELSE {})

(* The files that a report describes. *)
Reported(r) ==
    IF r.mode = "EXPANDED_OPTIMIZED" THEN {d.file : d \in r.described} ELSE {}

(* A described file is in the set of reported sources, and of one call. *)
OneOwner ==
    /\ \A s \in Scanner : Claimed(s) \subseteq sources
    /\ \A r \in reports : Reported(r) \subseteq sources
    /\ \A s, u \in Scanner : s # u => Claimed(s) \cap Claimed(u) = {}
    /\ \A s \in Scanner, r \in reports : Claimed(s) \cap Reported(r) = {}
    /\ \A q, r \in reports : q # r => Reported(q) \cap Reported(r) = {}

(* A step of s that makes no report and neither takes up nor drops the     *)
(* reporting of its hash.                                                  *)
LEMMA FullStays ==
    ASSUME OneFull, NEW s \in Scanner, OthersScan(s),
           UNCHANGED <<hashes, reports>>,
           \A h \in Hash : s \in Reporting(h)' <=> s \in Reporting(h)
    PROVE  OneFull'
<1>1. ASSUME NEW h \in Hash PROVE Reporting(h)' = Reporting(h)
  <2>1. ASSUME NEW u \in Scanner \ {s}
        PROVE  u \in Reporting(h)' <=> u \in Reporting(h)
    BY DEF OthersScan, Reporting, Optimizing
  <2>2. QED
    BY <2>1 DEF Reporting
<1>2. \A h \in Hash : FullReports(h)' = FullReports(h)
  BY DEF FullReports
<1>3. QED
  BY <1>1, <1>2 DEF OneFull

(* A reply that is not a full report. *)
LEMMA ShortReply ==
    ASSUME Scans, OneFull, NEW s \in Scanner, scan[s].pc \notin Reports,
           NEW found, Reply(s, found, FALSE), UNCHANGED hashes
    PROVE  OneFull'
<1>1. PICK r : /\ reports' = reports \cup {r} /\ IsReport(r, s)
               /\ r.found = found /\ r.full = FALSE
  <2>1. PICK full : full = FALSE
    OBVIOUS
  <2>2. Reply(s, found, full)
    BY <2>1
  <2>3. QED
    BY <2>1, <2>2, ReplyForm
<1>2. OthersScan(s) /\ scan'[s] = NoScan
  BY ReplyForm
<1>3. ASSUME NEW h \in Hash
      PROVE  Reporting(h)' = Reporting(h) /\ FullReports(h)' = FullReports(h)
  <2>1. s \notin Reporting(h) /\ s \notin Reporting(h)'
    BY <1>2 DEF Reporting, Reports, NoScan
  <2>2. ASSUME NEW u \in Scanner \ {s}
        PROVE  u \in Reporting(h)' <=> u \in Reporting(h)
    BY <1>2 DEF OthersScan, Reporting, Optimizing
  <2>3. Reporting(h)' = Reporting(h)
    BY <2>1, <2>2 DEF Reporting
  <2>4. FullReports(h)' = FullReports(h)
    BY <1>1 DEF FullReports
  <2>5. QED
    BY <2>3, <2>4
<1>4. QED
  BY <1>1, <1>3 DEF OneFull

(* The set of reported hashes lets one thread through. *)
LEMMA FirstReport ==
    ASSUME Scans, OneFull, NEW s \in Scanner, ReportHash(s)
    PROVE  OneFull'
<1>1. At(s, "sources") /\ scan[s].pc \notin Reports
  BY ReportHashForm DEF At, Reports
<1>2. CASE Reply(s, TRUE, FALSE) /\ UNCHANGED hashes
  BY <1>1, <1>2, ShortReply
<1>3. ASSUME ~(Optimizing(s) /\ scan[s].hash \in hashes),
             OthersScan(s), SameCall(s), At(s, "report")',
             hashes' = IF Optimizing(s) THEN hashes \cup {scan[s].hash}
                       ELSE hashes,
             UNCHANGED reports
      PROVE  OneFull'
  <2>1. Optimizing(s)' <=> Optimizing(s)
    BY <1>3 DEF SameCall, Optimizing
  <2>2. CASE ~Optimizing(s)
    <3>1. \A h \in Hash : s \in Reporting(h)' <=> s \in Reporting(h)
      BY <2>1, <2>2 DEF Reporting
    <3>2. QED
      BY <1>3, <2>2, <3>1, FullStays
  <2>3. CASE Optimizing(s)
    <3> DEFINE g == scan[s].hash
    <3>1. g \notin hashes /\ hashes' = hashes \cup {g}
      BY <1>3, <2>3
    <3>2. ASSUME NEW h \in Hash
          PROVE  /\ FullReports(h)' = FullReports(h)
                 /\ Reporting(h)' = Reporting(h)
                                    \cup (IF h = g THEN {s} ELSE {})
      <4>1. s \notin Reporting(h)
        BY <1>1 DEF Reporting, At
      <4>2. s \in Reporting(h)' <=> h = g
        BY <1>3, <2>1, <2>3 DEF Reporting, SameCall, At
      <4>3. ASSUME NEW u \in Scanner \ {s}
            PROVE  u \in Reporting(h)' <=> u \in Reporting(h)
        BY <1>3 DEF OthersScan, Reporting, Optimizing
      <4>4. Reporting(h) \subseteq Scanner /\ Reporting(h)' \subseteq Scanner
        BY DEF Reporting
      <4>5. FullReports(h)' = FullReports(h)
        BY <1>3 DEF FullReports
      <4>6. QED
        BY <4>1, <4>2, <4>3, <4>4, <4>5
    <3> HIDE DEF g
    <3>3. QED
      BY <1>3, <3>1, <3>2 DEF OneFull
  <2>4. QED
    BY <2>2, <2>3
<1>4. QED
  BY <1>2, <1>3, ReportHashForm

(* The thread that was let through returns the full report. *)
LEMMA LastReport ==
    ASSUME Scans, OneFull, NEW s \in Scanner, ReturnReport(s)
    PROVE  OneFull'
<1>1. At(s, "report") /\ Reply(s, TRUE, TRUE) /\ UNCHANGED hashes
  BY DEF ReturnReport
<1>2. PICK r : /\ reports' = reports \cup {r} /\ IsReport(r, s)
               /\ r.full = TRUE
  <2>1. PICK yes : yes = TRUE
    OBVIOUS
  <2>2. Reply(s, yes, yes)
    BY <1>1, <2>1
  <2>3. PICK r : /\ reports' = reports \cup {r} /\ IsReport(r, s)
                 /\ r.found = yes /\ r.full = yes
    BY <2>2, ReplyForm
  <2>4. QED
    BY <2>1, <2>3
<1>3. OthersScan(s) /\ scan'[s] = NoScan
  BY <1>1, ReplyForm
<1>4. ASSUME NEW h \in Hash
      PROVE  \/ /\ Reporting(h)' = Reporting(h)
                /\ FullReports(h)' = FullReports(h)
             \/ /\ s \in Reporting(h)
                /\ Reporting(h)' = Reporting(h) \ {s}
                /\ FullReports(h)' = FullReports(h) \cup {r}
  <2>1. s \notin Reporting(h)'
    BY <1>3 DEF Reporting, NoScan
  <2>2. ASSUME NEW u \in Scanner \ {s}
        PROVE  u \in Reporting(h)' <=> u \in Reporting(h)
    BY <1>3 DEF OthersScan, Reporting, Optimizing
  <2>3. Reporting(h) \subseteq Scanner /\ Reporting(h)' \subseteq Scanner
    BY DEF Reporting
  <2>4. Reporting(h)' = Reporting(h) \ {s}
    BY <2>1, <2>2, <2>3
  <2>5. s \in Reporting(h) <=> Optimizing(s) /\ scan[s].hash = h
    BY <1>1 DEF Reporting, At
  <2>6. CASE s \in Reporting(h)
    <3>1. FullReports(h)' = FullReports(h) \cup {r}
      BY <1>2, <2>5, <2>6 DEF FullReports, Optimizing, IsReport
    <3>2. QED
      BY <2>4, <2>6, <3>1
  <2>7. CASE s \notin Reporting(h)
    <3>1. FullReports(h)' = FullReports(h)
      BY <1>2, <2>5, <2>7 DEF FullReports, Optimizing, IsReport
    <3>2. QED
      BY <2>4, <2>7, <3>1
  <2>8. QED
    BY <2>6, <2>7
<1>5. QED
  BY <1>1, <1>2, <1>4 DEF OneFull

(* Every step of a scan keeps OneFull. *)
LEMMA StepFull ==
    ASSUME Scans, OneFull, NEW s \in Scanner, ScanStep(s)
    PROVE  OneFull'
<1>1. ASSUME scan[s].pc \notin Reports, scan'[s].pc \notin Reports,
             OthersScan(s), UNCHANGED <<hashes, reports>>
      PROVE  OneFull'
  <2>1. \A h \in Hash : s \notin Reporting(h)' /\ s \notin Reporting(h)
    BY <1>1 DEF Reporting, Reports
  <2>2. QED
    BY <1>1, <2>1, FullStays
<1>2. ASSUME scan[s].pc \in Reports, scan'[s].pc \in Reports,
             OthersScan(s), SameCall(s), UNCHANGED <<hashes, reports>>
      PROVE  OneFull'
  <2>1. \A h \in Hash : s \in Reporting(h)' <=> s \in Reporting(h)
    BY <1>2 DEF Reporting, Reports, SameCall, Optimizing
  <2>2. QED
    BY <1>2, <2>1, FullStays
<1>3. CASE \E mode \in Modes, h \in Hash : find_hash_json(s, mode, h)
  BY <1>1, <1>3, FindForm DEF At, Reports
<1>4. CASE FindHashStore(s)
  BY <1>1, <1>4, HashStoreForm, ShortReply, ToHashData DEF At, Reports
<1>5. CASE FindHashData(s)
  BY <1>1, <1>5, HashDataForm, ShortReply DEF At, Reports
<1>6. CASE FindSourceData(s)
  BY <1>1, <1>6, SourceForm DEF At, Reports
<1>7. CASE ReportHash(s)
  BY <1>7, FirstReport
<1>8. CASE ReportSource(s) \/ ReadSourceData(s) \/ ReadSourceNames(s)
  BY <1>2, <1>8, ReportSourceForm, ReadDataForm, ReadNamesForm
  DEF At, Reports
<1>9. CASE ReturnReport(s)
  BY <1>9, LastReport
<1>10. QED
  BY <1>3, <1>4, <1>5, <1>6, <1>7, <1>8, <1>9 DEF ScanStep

(* A step of s that makes no report and claims no file that is already in  *)
(* the set of reported sources.                                            *)
LEMMA OwnerStep ==
    ASSUME OneOwner, NEW s \in Scanner, OthersScan(s), UNCHANGED reports,
           sources \subseteq sources',
           \A f \in Claimed(s)' : \/ f \in Claimed(s)
                                  \/ f \notin sources /\ f \in sources'
    PROVE  OneOwner'
<1>1. \A u \in Scanner \ {s} : Claimed(u)' = Claimed(u)
  BY DEF OthersScan, Claimed, At, Optimizing
<1>2. \A r : Reported(r)' = Reported(r)
  BY DEF Reported
<1> DEFINE old(u) == Claimed(u)
<1>3. \A u \in Scanner \ {s} : old(u) \subseteq sources
                               /\ old(s) \cap old(u) = {}
  BY DEF OneOwner
<1>4. /\ old(s) \subseteq sources
      /\ \A r \in reports : /\ Reported(r) \subseteq sources
                            /\ old(s) \cap Reported(r) = {}
  BY DEF OneOwner
<1>5. \A u \in Scanner : Claimed(u)' \subseteq sources'
  <2>1. Claimed(s)' \subseteq sources'
    BY <1>4
  <2>2. QED
    BY <1>1, <1>3, <2>1
<1>6. \A u \in Scanner \ {s} : Claimed(s)' \cap Claimed(u)' = {}
  BY <1>1, <1>3
<1>7. \A u, v \in Scanner : u # v => Claimed(u)' \cap Claimed(v)' = {}
  <2>1. ASSUME NEW u \in Scanner \ {s}, NEW v \in Scanner \ {s}, u # v
        PROVE  Claimed(u)' \cap Claimed(v)' = {}
    BY <1>1, <2>1 DEF OneOwner
  <2>2. QED
    BY <1>6, <2>1
<1>8. \A u \in Scanner, r \in reports : Claimed(u)' \cap Reported(r) = {}
  <2>1. \A r \in reports : Claimed(s)' \cap Reported(r) = {}
    BY <1>4
  <2>2. QED
    BY <1>1, <2>1 DEF OneOwner
<1>9. \A r \in reports : Reported(r) \subseteq sources'
  BY <1>4
<1>10. QED
  BY <1>2, <1>5, <1>7, <1>8, <1>9 DEF OneOwner

(* A reply hands the claims of the call over to its report. *)
LEMMA OwnerReply ==
    ASSUME Scans, OneOwner, NEW s \in Scanner, scan[s].pc \in Active,
           NEW found, NEW full, Reply(s, found, full), UNCHANGED sources
    PROVE  OneOwner'
<1>1. PICK r : reports' = reports \cup {r} /\ IsReport(r, s)
  BY ReplyForm
<1>2. OthersScan(s) /\ scan'[s] = NoScan
  BY ReplyForm
<1>3. \A u \in Scanner \ {s} : Claimed(u)' = Claimed(u)
  BY <1>2 DEF OthersScan, Claimed, At, Optimizing
<1>4. Claimed(s)' = {}
  BY <1>2 DEF Claimed, At, NoScan
<1>5. \A q : Reported(q)' = Reported(q)
  BY DEF Reported
<1>6. Reported(r) \subseteq Claimed(s)
  BY <1>1 DEF Reported, Claimed, IsReport, Optimizing, At, Active
<1>7. \A q \in reports : Reported(q) \cap Reported(r) = {}
  BY <1>6 DEF OneOwner
<1>8. /\ Reported(r) \subseteq sources
      /\ \A u \in Scanner \ {s} : Claimed(u) \cap Reported(r) = {}
  BY <1>6 DEF OneOwner
<1>9. /\ \A u \in Scanner : Claimed(u)' \subseteq Claimed(u)
      /\ \A u \in Scanner : Claimed(u)' \cap Reported(r) = {}
  BY <1>3, <1>4, <1>8
<1>10. \A u, v \in Scanner : u # v => Claimed(u)' \cap Claimed(v)' = {}
  BY <1>9 DEF OneOwner
<1>11. \A u \in Scanner, q \in reports' : Claimed(u)' \cap Reported(q) = {}
  BY <1>1, <1>9 DEF OneOwner
<1>12. \A p, q \in reports' : p # q => Reported(p) \cap Reported(q) = {}
  BY <1>1, <1>7 DEF OneOwner
<1>13. /\ \A u \in Scanner : Claimed(u)' \subseteq sources
       /\ \A q \in reports' : Reported(q) \subseteq sources
  BY <1>1, <1>8, <1>9 DEF OneOwner
<1>14. QED
  BY <1>5, <1>10, <1>11, <1>12, <1>13 DEF OneOwner

(* Every step of a scan keeps OneOwner. *)
LEMMA StepOwner ==
    ASSUME Scans, OneOwner, NEW s \in Scanner, ScanStep(s)
    PROVE  OneOwner'
<1>1. ASSUME Claimed(s)' \subseteq Claimed(s), OthersScan(s),
             UNCHANGED <<sources, reports>>
      PROVE  OneOwner'
  BY <1>1, OwnerStep
<1>2. ASSUME scan'[s].described = scan[s].described, SameCall(s),
             scan[s].pc \in Active,
             scan'[s].pc \notin {"source_data", "source_names"}
      PROVE  Claimed(s)' \subseteq Claimed(s)
  BY <1>2 DEF Claimed, SameCall, Optimizing, At, Active
<1>3. CASE \E mode \in Modes, h \in Hash : find_hash_json(s, mode, h)
  <2>1. /\ OthersScan(s) /\ UNCHANGED <<sources, reports>>
        /\ scan'[s].described = {}
        /\ scan'[s].pc \in {"hash_data", "hash_store"}
    BY <1>3, FindForm
  <2>2. Claimed(s)' = {}
    BY <2>1 DEF Claimed, At
  <2>3. QED
    BY <1>1, <2>1, <2>2
<1>4. CASE FindHashStore(s)
  <2>1. At(s, "hash_store") /\ scan[s].pc \in Active /\ UNCHANGED sources
    BY <1>4, HashStoreForm DEF At, Active
  <2>2. CASE To(s, "hash_data") /\ UNCHANGED reports
    BY <1>1, <1>2, <2>1, <2>2, ToHashData DEF At
  <2>3. QED
    BY <1>4, <2>1, <2>2, HashStoreForm, OwnerReply
<1>5. CASE FindHashData(s)
  <2>1. At(s, "hash_data") /\ scan[s].pc \in Active /\ UNCHANGED sources
    BY <1>5, HashDataForm DEF At, Active
  <2>2. QED
    BY <1>1, <1>2, <1>5, <2>1, HashDataForm, OwnerReply DEF At
<1>6. CASE FindSourceData(s)
  BY <1>1, <1>2, <1>6, SourceForm DEF At, Active
<1>7. CASE ReportHash(s)
  <2>1. At(s, "sources") /\ scan[s].pc \in Active /\ UNCHANGED sources
    BY <1>7, ReportHashForm DEF At, Active
  <2>2. QED
    BY <1>1, <1>2, <1>7, <2>1, ReportHashForm, OwnerReply DEF At
<1>8. CASE ReportSource(s)
  <2>1. /\ At(s, "report") /\ UNCHANGED reports
        /\ OthersScan(s) /\ SameCall(s)
        /\ scan'[s].described = scan[s].described
    BY <1>8, ReportSourceForm
  <2>2. PICK f \in scan[s].todo :
           /\ scan'[s].source = {f}
           /\ sources' = IF Optimizing(s) THEN sources \cup {f} ELSE sources
           /\ \/ Optimizing(s) /\ f \in sources /\ At(s, "report")'
              \/ /\ ~(Optimizing(s) /\ f \in sources)
                 /\ At(s, "source_data")'
    BY <1>8, ReportSourceForm
  <2>3. \A g \in Claimed(s)' : \/ g \in Claimed(s)
                               \/ g \notin sources /\ g \in sources'
    BY <2>1, <2>2 DEF Claimed, SameCall, Optimizing, At
  <2>4. QED
    BY <2>1, <2>2, <2>3, OwnerStep
<1>9. CASE ReadSourceData(s)
  <2>1. /\ At(s, "source_data") /\ At(s, "source_names")'
        /\ OthersScan(s) /\ SameCall(s) /\ UNCHANGED <<sources, reports>>
        /\ scan'[s].described = scan[s].described
        /\ \E f \in scan[s].source : \E d : scan'[s].source = {<<f, d>>}
    BY <1>9, ReadDataForm
  <2>2. {d[1] : d \in scan'[s].source} \subseteq scan[s].source
    BY <2>1
  <2>3. Claimed(s)' \subseteq Claimed(s)
    BY <2>1, <2>2 DEF Claimed, SameCall, Optimizing, At
  <2>4. QED
    BY <1>1, <2>1, <2>3
<1>10. CASE ReadSourceNames(s)
  <2>1. /\ At(s, "source_names") /\ At(s, "report")'
        /\ OthersScan(s) /\ SameCall(s) /\ UNCHANGED <<sources, reports>>
    BY <1>10, ReadNamesForm
  <2>2. PICK p, d :
           /\ p \in scan[s].source /\ d.file = p[1]
           /\ d.names = source_name_store[source_id_store[p[1]]]
           /\ scan'[s].described = scan[s].described \cup {d}
    BY <1>10, ReadNamesForm
  <2>3. {x.file : x \in scan'[s].described}
        \subseteq {x.file : x \in scan[s].described}
                  \cup {x[1] : x \in scan[s].source}
    BY <2>2
  <2>4. Claimed(s)' \subseteq Claimed(s)
    BY <2>1, <2>3 DEF Claimed, SameCall, Optimizing, At
  <2>5. QED
    BY <1>1, <2>1, <2>4
<1>11. CASE ReturnReport(s)
  <2>1. scan[s].pc \in Active /\ Reply(s, TRUE, TRUE) /\ UNCHANGED sources
    BY <1>11 DEF ReturnReport, At, Active
  <2>2. QED
    BY <2>1, OwnerReply
<1>12. QED
  BY <1>3, <1>4, <1>5, <1>6, <1>7, <1>8, <1>9, <1>10, <1>11 DEF ScanStep

(* The optimized mode keeps its books, whatever the imports do. *)
LEMMA OptimizedInvariance == ScanSpec => [](Scans /\ OneFull /\ OneOwner)
<1>1. Init /\ ScanInit => Scans /\ OneFull /\ OneOwner
  <2> SUFFICES ASSUME ScanInit PROVE Scans /\ OneFull /\ OneOwner
    OBVIOUS
  <2>1. Scans /\ \A s \in Scanner : At(s, "idle")
    BY InitScans
  <2>2. \A h \in Hash : FullReports(h) = {} /\ Reporting(h) = {}
    BY <2>1 DEF ScanInit, FullReports, Reporting, At
  <2>3. \A s \in Scanner : Claimed(s) = {}
    BY <2>1 DEF Claimed
  <2>4. QED
    BY <2>1, <2>2, <2>3 DEF ScanInit, OneFull, OneOwner
<1>2. ASSUME Scans, OneFull, OneOwner, [ScanNext]_allVars
      PROVE  Scans' /\ OneFull' /\ OneOwner'
  <2>1. CASE Scanning
    BY <1>2, <2>1, StepScans, StepFull, StepOwner DEF Scanning
  <2>2. CASE UNCHANGED scanVars
    <3>1. UNCHANGED <<scan, hashes, sources, reports>>
      BY <2>2 DEF scanVars
    <3>2. Scans'
      BY <1>2, <3>1 DEF Scans
    <3>3. \A h : /\ FullReports(h)' = FullReports(h)
                 /\ Reporting(h)' = Reporting(h)
      BY <3>1 DEF FullReports, Reporting, Optimizing
    <3>4. OneFull'
      BY <1>2, <3>1, <3>3 DEF OneFull
    <3>5. /\ \A s : Claimed(s)' = Claimed(s)
          /\ \A r : Reported(r)' = Reported(r)
      BY <3>1 DEF Claimed, Reported, At, Optimizing
    <3>6. OneOwner'
      BY <1>2, <3>1, <3>5 DEF OneOwner
    <3>7. QED
      BY <3>2, <3>4, <3>6
  <2>3. QED
    BY <1>2, <2>1, <2>2 DEF ScanNext, Importing, allVars
<1>3. QED
  BY <1>1, <1>2, PTL DEF ScanSpec

(***************************************************************************)
(* However many threads scan at once, EXPANDED_OPTIMIZED gives the whole   *)
(* of a hash exactly once before it gives the name alone, and describes no *)
(* source twice: the two locked sets are enough, though what was put into  *)
(* them is reported only later.                                            *)
(***************************************************************************)
THEOREM ReportsOnce == ScanSpec => []OptimizedOnce
<1>1. ASSUME OneFull, OneOwner PROVE OptimizedOnce
  <2>1. ASSUME NEW h \in Hash
        PROVE  Cardinality(FullReports(h)) + Cardinality(Reporting(h))
                   = IF h \in hashes THEN 1 ELSE 0
    <3>1. \A x : Cardinality({x}) = 1
      BY FS_Singleton
    <3>2. Cardinality({}) = 0
      BY FS_EmptySet
    <3>3. \/ h \notin hashes /\ FullReports(h) = {} /\ Reporting(h) = {}
          \/ h \in hashes /\ \E r : FullReports(h) = {r} /\ Reporting(h) = {}
          \/ h \in hashes /\ \E s : FullReports(h) = {} /\ Reporting(h) = {s}
      BY <1>1, Zenon DEF OneFull
    <3> DEFINE F == Cardinality(FullReports(h))
               R == Cardinality(Reporting(h))
    <3>4. \/ h \notin hashes /\ F = 0 /\ R = 0
          \/ h \in hashes /\ F = 1 /\ R = 0
          \/ h \in hashes /\ F = 0 /\ R = 1
      BY <3>1, <3>2, <3>3
    <3> HIDE DEF F, R
    <3>5. F + R = IF h \in hashes THEN 1 ELSE 0
      BY <3>4
    <3>6. QED
      BY <3>5 DEF F, R
  <2>2. ASSUME NEW q \in reports, NEW r \in reports,
               NEW d \in q.described, NEW e \in r.described,
               q.mode = "EXPANDED_OPTIMIZED", r.mode = q.mode,
               d.file = e.file
        PROVE  q = r
    <3>1. d.file \in Reported(q) /\ d.file \in Reported(r)
      BY <2>2 DEF Reported
    <3>2. QED
      BY <1>1, <3>1 DEF OneOwner
  <2>3. QED
    BY <2>1, <2>2 DEF OptimizedOnce
<1>2. QED
  BY <1>1, OptimizedInvariance, PTL

-----------------------------------------------------------------------------
(***************************************************************************)
(* What was returned before a scan began is in its report.                 *)
(***************************************************************************)

(* A name that the stores hold for a file. *)
NameStored(p) ==
    /\ p[1] \in File /\ source_id_store[p[1]] # 0
    /\ p[2] \in source_name_store[source_id_store[p[1]]]

(* Where the call of s has the files that were promised to it: in the      *)
(* store until it reads the hash, then among the IDs it still has to look  *)
(* up or the files it found, and at last among the files.                  *)
FilesFollow(s) ==
    \A f \in scan[s].promised.files :
        /\ f \in File /\ source_id_store[f] # 0
        /\ scan[s].pc \in {"hash_store", "hash_data"} =>
              source_id_store[f] \in Sources(hash_data_store[scan[s].hash])
        /\ At(s, "sources") =>
              f \in scan[s].files \/ source_id_store[f] \in scan[s].ids
        /\ scan[s].pc \in Reports => f \in scan[s].files

(* The same for the names. *)
NamesFollow(s) ==
    /\ \A p \in scan[s].promised.names : NameStored(p)
    /\ \A d \in scan[s].described, p \in scan[s].promised.names :
          p[1] = d.file => p[2] \in d.names

Lists ==
    /\ \A s \in Scanner : ~At(s, "idle") => FilesFollow(s) /\ NamesFollow(s)
    /\ ReturnedIsListed

(* A step of an import takes nothing away that a scan counts on. *)
LEMMA ImportLists ==
    ASSUME IInv, Scans, Lists, Remembers, UNCHANGED scanVars
    PROVE  Lists'
<1>1. UNCHANGED <<scan, reports>>
  BY DEF scanVars
<1>2. ASSUME NEW p, NameStored(p) PROVE NameStored(p)'
  <2>1. source_id_store[p[1]] \in SourceId
    BY <1>2 DEF NameStored, IInv, Types
  <2>2. QED
    BY <1>2, <2>1 DEF NameStored, Remembers
<1>3. ASSUME NEW s \in Scanner, ~At(s, "idle")
      PROVE  FilesFollow(s)' /\ NamesFollow(s)'
  <2>1. FilesFollow(s) /\ NamesFollow(s) /\ scan[s].hash \in Hash
    BY <1>3, NotIdle DEF Lists, At, InCall
  <2>2. \A f \in scan[s].promised.files :
           source_id_store'[f] = source_id_store[f]
    BY <2>1 DEF FilesFollow, Remembers
  <2>3. FilesFollow(s)'
    BY <1>1, <2>1, <2>2 DEF FilesFollow, Remembers, At
  <2>4. NamesFollow(s)'
    BY <1>1, <1>2, <2>1 DEF NamesFollow
  <2>5. QED
    BY <2>3, <2>4
<1>4. ReturnedIsListed'
  BY <1>1 DEF Lists, ReturnedIsListed
<1>5. QED
  BY <1>1, <1>3, <1>4 DEF Lists, At

(* A step of s that makes no report. *)
LEMMA OneLists ==
    ASSUME Lists, NEW s \in Scanner, OthersScan(s),
           UNCHANGED <<reports, vars>>,
           FilesFollow(s)', NamesFollow(s)'
    PROVE  Lists'
<1>0. UNCHANGED <<source_id_store, source_name_store, hash_data_store>>
  BY DEF vars, stores
<1>1. ASSUME NEW u \in Scanner \ {s}, ~At(u, "idle")'
      PROVE  FilesFollow(u)' /\ NamesFollow(u)'
  <2>1. scan'[u] = scan[u] /\ ~At(u, "idle")
    BY <1>1 DEF OthersScan, At
  <2>2. FilesFollow(u) /\ NamesFollow(u)
    BY <2>1 DEF Lists
  <2>3. FilesFollow(u)'
    BY <1>0, <2>1, <2>2 DEF FilesFollow, At
  <2>4. NamesFollow(u)'
    BY <1>0, <2>1, <2>2 DEF NamesFollow, NameStored
  <2>5. QED
    BY <2>3, <2>4
<1>2. ReturnedIsListed'
  BY DEF Lists, ReturnedIsListed
<1>3. QED
  BY <1>1, <1>2 DEF Lists

(* A reply: full only after every ID has been looked up. *)
LEMMA ReplyLists ==
    ASSUME Scans, Lists, NEW s \in Scanner, ~At(s, "idle"), UNCHANGED vars,
           NEW found, NEW full, Reply(s, found, full),
           full => scan[s].pc \in Reports
    PROVE  Lists'
<1>0. UNCHANGED <<source_id_store, source_name_store, hash_data_store>>
  BY DEF vars, stores
<1>1. OthersScan(s) /\ scan'[s] = NoScan
  BY ReplyForm
<1>2. PICK r : /\ reports' = reports \cup {r} /\ IsReport(r, s)
               /\ r.found = found /\ r.full = full
  BY ReplyForm
<1>3. FilesFollow(s) /\ NamesFollow(s)
  BY DEF Lists
<1>4. /\ r.full => r.promised.files \subseteq r.files
      /\ \A d \in r.described, p \in r.promised.names :
            p[1] = d.file => p[2] \in d.names
  BY <1>2, <1>3 DEF IsReport, FilesFollow, NamesFollow
<1>5. ReturnedIsListed'
  BY <1>2, <1>4 DEF Lists, ReturnedIsListed
<1>6. ASSUME NEW u \in Scanner, ~At(u, "idle")'
      PROVE  FilesFollow(u)' /\ NamesFollow(u)'
  <2>1. u # s
    BY <1>1, <1>6 DEF At, NoScan
  <2>2. scan'[u] = scan[u] /\ ~At(u, "idle")
    BY <1>1, <1>6, <2>1 DEF OthersScan, At
  <2>3. FilesFollow(u) /\ NamesFollow(u)
    BY <2>2 DEF Lists
  <2>4. FilesFollow(u)'
    BY <1>0, <2>2, <2>3 DEF FilesFollow, At
  <2>5. NamesFollow(u)'
    BY <1>0, <2>2, <2>3 DEF NamesFollow, NameStored
  <2>6. QED
    BY <2>4, <2>5
<1>7. QED
  BY <1>5, <1>6 DEF Lists

(* What is promised to a call that begins is in the stores. *)
LEMMA FindLists ==
    ASSUME IInv, Written, Scans, Lists, NEW s \in Scanner, UNCHANGED vars,
           NEW mode \in Modes, NEW h \in Hash, find_hash_json(s, mode, h)
    PROVE  Lists'
<1>0. UNCHANGED <<source_id_store, source_name_store, hash_data_store>>
  BY DEF vars, stores
<1>1. /\ OthersScan(s) /\ UNCHANGED reports
      /\ scan'[s].pc \in {"hash_data", "hash_store"}
      /\ scan'[s].hash = h /\ scan'[s].described = {}
      /\ scan'[s].promised = [files |-> ReturnedFiles(h),
                              names |-> ReturnedNames]
  BY FindForm
<1>2. /\ scan'[s].promised.files = ReturnedFiles(h)
      /\ scan'[s].promised.names = ReturnedNames
  BY <1>1
<1>3. \A f \in ReturnedFiles(h) :
         /\ f \in File /\ source_id_store[f] # 0
         /\ source_id_store[f] \in Sources(hash_data_store[h])
  BY DEF ReturnedFiles, Written, Stored
<1>4. \A p \in ReturnedNames : NameStored(p)
  BY DEF ReturnedNames, Written, Stored, NameStored
<1>5. FilesFollow(s)'
  BY <1>0, <1>1, <1>2, <1>3 DEF FilesFollow, At, Reports
<1>6. NamesFollow(s)'
  BY <1>0, <1>1, <1>2, <1>4 DEF NamesFollow, NameStored
<1>7. QED
  BY <1>1, <1>5, <1>6, OneLists

(* The names that a call was promised while it describes nothing more. *)
LEMMA SameNames ==
    ASSUME Lists, NEW s \in Scanner, ~At(s, "idle"), SameCall(s),
           UNCHANGED vars, scan'[s].described = scan[s].described
    PROVE  NamesFollow(s)'
<1>1. UNCHANGED <<source_id_store, source_name_store>>
  BY DEF vars, stores
<1>2. NamesFollow(s)
  BY DEF Lists
<1>3. QED
  BY <1>1, <1>2 DEF NamesFollow, NameStored, SameCall

(* The files likewise, while the call writes its report. *)
LEMMA SameFiles ==
    ASSUME Lists, NEW s \in Scanner, scan[s].pc \in Reports, SameCall(s),
           UNCHANGED vars, scan'[s].pc \in Reports,
           scan'[s].files = scan[s].files
    PROVE  FilesFollow(s)'
<1>1. UNCHANGED <<source_id_store, hash_data_store>>
  BY DEF vars, stores
<1>2. FilesFollow(s)
  BY DEF Lists, At, Reports
<1>3. QED
  BY <1>1, <1>2 DEF FilesFollow, SameCall, At, Reports

(* Every step of a scan keeps Lists. *)
LEMMA StepLists ==
    ASSUME IInv, Written, Scans, Lists, NEW s \in Scanner, ScanStep(s),
           UNCHANGED vars
    PROVE  Lists'
<1>0. UNCHANGED <<source_id_store, source_name_store, source_data_store,
                  hash_data_store>>
  BY DEF vars, stores
<1>1. CASE \E mode \in Modes, h \in Hash : find_hash_json(s, mode, h)
  BY <1>1, FindLists
<1>2. CASE FindHashStore(s)
  <2>1. At(s, "hash_store") /\ ~At(s, "idle") /\ FilesFollow(s)
    BY <1>2, HashStoreForm DEF At, Lists
  <2>2. CASE To(s, "hash_data") /\ UNCHANGED reports
    <3>1. /\ OthersScan(s) /\ SameCall(s) /\ scan'[s].pc = "hash_data"
          /\ scan'[s].described = scan[s].described
      BY <2>1, <2>2, ToHashData
    <3>2. FilesFollow(s)'
      BY <1>0, <2>1, <3>1 DEF FilesFollow, SameCall, At, Reports
    <3>3. QED
      BY <2>1, <2>2, <3>1, <3>2, SameNames, OneLists
  <2>3. CASE \E found : Reply(s, found, FALSE)
    BY <2>1, <2>3, ReplyLists
  <2>4. QED
    BY <1>2, <2>2, <2>3, HashStoreForm
<1>3. CASE FindHashData(s)
  <2>1. At(s, "hash_data") /\ ~At(s, "idle") /\ FilesFollow(s)
    BY <1>3, HashDataForm DEF At, Lists
  <2>2. ASSUME OthersScan(s), SameCall(s), At(s, "sources")',
               scan'[s].ids = Sources(hash_data_store[scan[s].hash]),
               scan'[s].described = scan[s].described,
               UNCHANGED reports
        PROVE  Lists'
    <3>1. FilesFollow(s)'
      BY <1>0, <2>1, <2>2 DEF FilesFollow, SameCall, At, Reports
    <3>2. QED
      BY <2>1, <2>2, <3>1, SameNames, OneLists
  <2>3. CASE \E found : Reply(s, found, FALSE)
    BY <2>1, <2>3, ReplyLists
  <2>4. QED
    BY <1>3, <2>2, <2>3, HashDataForm
<1>4. CASE FindSourceData(s)
  <2>1. /\ At(s, "sources") /\ UNCHANGED reports /\ ~At(s, "idle")
        /\ OthersScan(s) /\ SameCall(s)
        /\ scan'[s].described = scan[s].described
    BY <1>4, SourceForm DEF At
  <2>2. PICK i \in scan[s].ids :
           /\ scan'[s].ids = scan[s].ids \ {i}
           /\ \/ At(s, "assert")'
              \/ /\ At(s, "sources")' /\ source_data_store[i] # NoData
                 /\ scan'[s].files = scan[s].files
                                     \cup {source_data_store[i].file}
    BY <1>4, SourceForm
  <2>3. FilesFollow(s)
    BY <2>1 DEF Lists
  <2>4. ASSUME NEW f \in scan[s].promised.files, source_id_store[f] = i,
               source_data_store[i] # NoData
        PROVE  f = source_data_store[i].file
    BY <2>3, <2>4 DEF FilesFollow, IInv, SourceDataNamesFile
  <2>5. FilesFollow(s)'
    BY <1>0, <2>1, <2>2, <2>3, <2>4 DEF FilesFollow, SameCall, At, Reports
  <2>6. QED
    BY <2>1, <2>5, SameNames, OneLists
<1>5. CASE ReportHash(s)
  <2>1. /\ At(s, "sources") /\ scan[s].ids = {} /\ ~At(s, "idle")
        /\ FilesFollow(s)
    BY <1>5, ReportHashForm DEF At, Lists
  <2>2. ASSUME OthersScan(s), SameCall(s), At(s, "report")',
               scan'[s].files = scan[s].files,
               scan'[s].described = scan[s].described,
               UNCHANGED reports
        PROVE  Lists'
    <3>1. FilesFollow(s)'
      BY <1>0, <2>1, <2>2 DEF FilesFollow, SameCall, At
    <3>2. QED
      BY <2>1, <2>2, <3>1, SameNames, OneLists
  <2>3. CASE Reply(s, TRUE, FALSE)
    BY <2>1, <2>3, ReplyLists
  <2>4. QED
    BY <1>5, <2>2, <2>3, ReportHashForm
<1>6. CASE ReportSource(s) \/ ReadSourceData(s)
  <2>1. /\ scan[s].pc \in Reports /\ ~At(s, "idle") /\ scan'[s].pc \in Reports
        /\ OthersScan(s) /\ SameCall(s) /\ UNCHANGED reports
        /\ scan'[s].files = scan[s].files
        /\ scan'[s].described = scan[s].described
    BY <1>6, ReportSourceForm, ReadDataForm DEF At, Reports
  <2>2. QED
    BY <2>1, SameFiles, SameNames, OneLists
<1>7. CASE ReadSourceNames(s)
  <2>1. /\ scan[s].pc \in Reports /\ ~At(s, "idle") /\ scan'[s].pc \in Reports
        /\ OthersScan(s) /\ SameCall(s) /\ UNCHANGED reports
        /\ scan'[s].files = scan[s].files
    BY <1>7, ReadNamesForm DEF At, Reports
  <2>2. PICK q, d :
           /\ q \in scan[s].source /\ d.file = q[1]
           /\ d.names = source_name_store[source_id_store[q[1]]]
           /\ scan'[s].described = scan[s].described \cup {d}
    BY <1>7, ReadNamesForm
  <2>3. NamesFollow(s)
    BY <2>1 DEF Lists
  <2>4. \A p \in scan[s].promised.names : p[1] = d.file => p[2] \in d.names
    BY <2>2, <2>3 DEF NamesFollow, NameStored
  <2>5. NamesFollow(s)'
    BY <1>0, <2>1, <2>2, <2>3, <2>4 DEF NamesFollow, NameStored, SameCall
  <2>6. QED
    BY <2>1, <2>5, SameFiles, OneLists
<1>8. CASE ReturnReport(s)
  <2>1. Reply(s, TRUE, TRUE) /\ ~At(s, "idle") /\ scan[s].pc \in Reports
    BY <1>8 DEF ReturnReport, At, Reports
  <2>2. QED
    BY <2>1, ReplyLists
<1>9. QED
  BY <1>1, <1>2, <1>3, <1>4, <1>5, <1>6, <1>7, <1>8 DEF ScanStep

(* The files and names that were promised to a scan stay in its reach.     *)
LEMMA ListsInvariance == ScanSpec => [](Scans /\ Lists)
<1>1. Init /\ ScanInit => Scans /\ Lists
  BY InitScans DEF ScanInit, Lists, ReturnedIsListed
<1>2. ASSUME StoresInv, Scans, Lists, [ScanNext]_allVars
      PROVE  Scans' /\ Lists'
  <2>1. CASE Scanning
    BY <1>2, <2>1, StepScans, StepLists DEF Scanning, StoresInv
  <2>2. CASE Importing
    <3>1. Scans'
      BY <1>2, <2>2 DEF Scans, Importing, scanVars
    <3>2. QED
      BY <1>2, <2>2, <3>1, StepRemembers, ImportLists
      DEF Importing, StoresInv
  <2>3. CASE UNCHANGED allVars
    <3>1. UNCHANGED scanVars /\ Remembers
      BY <2>3 DEF allVars, vars, stores, Remembers
    <3>2. Scans'
      BY <1>2, <3>1 DEF Scans, scanVars
    <3>3. QED
      BY <1>2, <3>1, <3>2, ImportLists DEF StoresInv
  <2>4. QED
    BY <1>2, <2>1, <2>2, <2>3 DEF ScanNext
<1>3. QED
  BY <1>1, <1>2, StoresInvariance, PTL DEF ScanSpec

(***************************************************************************)
(* A scan reads the stores in many transactions with imports in between,   *)
(* and still gives every file that insert_hash or merge_hash had returned  *)
(* for before it began, and every such name of what it describes.          *)
(***************************************************************************)
THEOREM ReturnedWorkIsListed == ScanSpec => []ReturnedIsListed
<1>1. Lists => ReturnedIsListed
  BY DEF Lists
<1>2. QED
  BY <1>1, ListsInvariance, PTL

-----------------------------------------------------------------------------
(***************************************************************************)
(* The one-byte count of the hash store.                                   *)
(***************************************************************************)
(* A set of numbers that is not empty has a least element.                 *)
LEMMA LeastElement ==
    ASSUME NEW B \in SUBSET Nat, B # {}
    PROVE  \E k \in B : \A j \in B : k <= j
<1>1. PICK k \in B : \A j \in B : ~ (<<j, k>> \in OpToRel(<, Nat))
  BY NatLessThanWellFounded, WFMin
<1>2. \A j \in B : ~ (j < k)
  BY <1>1 DEF OpToRel
<1>3. QED
  BY <1>2

(* f holds the powers of 5 up to the n-th. *)
PowersUpTo(f, n) ==
    /\ f \in [0 .. n -> Nat \ {0}]
    /\ \A x \in 0 .. n : f[x] = IF x = 0 THEN 1 ELSE 5 * f[x - 1]

(* There are such functions. *)
LEMMA PowersExist == \A n \in Nat : \E f : PowersUpTo(f, n)
<1> DEFINE Bad == {n \in Nat : ~ \E f : PowersUpTo(f, n)}
<1> SUFFICES ASSUME Bad # {} PROVE FALSE
  OBVIOUS
<1>1. PICK k \in Bad : \A j \in Bad : k <= j
  BY LeastElement
<1>2. k \in Nat
  OBVIOUS
<1>3. CASE k = 0
  <2> DEFINE f == [x \in 0 .. 0 |-> 1]
  <2>1. f \in [0 .. 0 -> Nat \ {0}] /\ \A x \in 0 .. 0 : x = 0 /\ f[x] = 1
    OBVIOUS
  <2>2. PowersUpTo(f, 0)
    BY <2>1 DEF PowersUpTo
  <2>3. QED
    BY <1>3, <2>2
<1>4. CASE k # 0
  <2>1. k - 1 \in Nat /\ k - 1 \notin Bad
    <3> HIDE DEF Bad
    <3>1. k - 1 \in Nat /\ ~(k <= k - 1)
      BY <1>2, <1>4
    <3>2. QED
      BY <1>1, <3>1
  <2>2. PICK f : PowersUpTo(f, k - 1)
    BY <2>1
  <2> DEFINE g == [x \in 0 .. k |-> IF x = k THEN 5 * f[k - 1] ELSE f[x]]
  <2>3. f[k - 1] \in Nat \ {0} /\ \A x \in 0 .. k - 1 : f[x] \in Nat \ {0}
    BY <2>1, <2>2 DEF PowersUpTo
  <2>4. 5 * f[k - 1] \in Nat \ {0}
    BY <2>3
  <2>5. g \in [0 .. k -> Nat \ {0}]
    BY <1>2, <2>3, <2>4
  <2>6. \A x \in 0 .. k : g[x] = IF x = 0 THEN 1 ELSE 5 * g[x - 1]
    <3> SUFFICES ASSUME NEW x \in 0 .. k
                 PROVE  g[x] = IF x = 0 THEN 1 ELSE 5 * g[x - 1]
      OBVIOUS
    <3>1. CASE x = k
      <4>1. x - 1 \in 0 .. k /\ x - 1 # k /\ x # 0
        BY <1>2, <1>4, <3>1
      <4>2. g[x - 1] = f[k - 1]
        BY <3>1, <4>1
      <4>3. QED
        BY <3>1, <4>1, <4>2
    <3>2. CASE x # k
      <4>1. x \in 0 .. k - 1 /\ (x # 0 => x - 1 \in 0 .. k /\ x - 1 # k)
        BY <1>2, <3>2
      <4>2. g[x] = f[x] /\ (x # 0 => g[x - 1] = f[x - 1])
        BY <3>2, <4>1
      <4>3. f[x] = IF x = 0 THEN 1 ELSE 5 * f[x - 1]
        BY <2>2, <4>1 DEF PowersUpTo
      <4>4. QED
        BY <4>2, <4>3
    <3>3. QED
      BY <3>1, <3>2
  <2>7. PowersUpTo(g, k)
    BY <2>5, <2>6 DEF PowersUpTo
  <2>8. QED
    BY <2>7
<1>5. QED
  BY <1>3, <1>4

(* Power5 holds the powers of 5. *)
LEMMA PowerForm ==
    /\ Power5[0] = 1
    /\ \A x \in 0 .. MaxShift :
          /\ Power5[x] \in Nat /\ Power5[x] >= 1
          /\ x # 0 => Power5[x] = 5 * Power5[x - 1]
<1> DEFINE Body(f) == [x \in 0 .. MaxShift |->
                          IF x = 0 THEN 1 ELSE 5 * f[x - 1]]
<1>1. PICK f : PowersUpTo(f, MaxShift)
  BY PowersExist, ApproximateAssumption
<1>2. f = Body(f)
  BY <1>1 DEF PowersUpTo
<1>3. Power5 = CHOOSE g : g = Body(g)
  BY DEF Power5
<1>4. Power5 = Body(Power5)
  BY <1>2, <1>3
<1>5. \A x \in 0 .. MaxShift :
         Power5[x] = IF x = 0 THEN 1 ELSE 5 * Power5[x - 1]
  BY <1>4
<1> HIDE DEF Body
<1> DEFINE Bad == {x \in 0 .. MaxShift : Power5[x] \notin Nat \ {0}}
<1>6. Bad = {}
  <2> SUFFICES ASSUME Bad # {} PROVE FALSE
    OBVIOUS
  <2>0. Bad \in SUBSET Nat
    BY ApproximateAssumption
  <2> HIDE DEF Bad
  <2>1. PICK k \in Bad : \A j \in Bad : k <= j
    BY <2>0, LeastElement
  <2> USE DEF Bad
  <2>2. k \in 0 .. MaxShift /\ Power5[k] \notin Nat \ {0}
    OBVIOUS
  <2>3. k # 0
    BY <1>5, <2>2
  <2>4. k - 1 \in 0 .. MaxShift /\ ~(k <= k - 1)
    BY <2>2, <2>3, ApproximateAssumption
  <2>5. Power5[k - 1] \in Nat \ {0}
    BY <2>1, <2>4
  <2>6. Power5[k] = 5 * Power5[k - 1]
    BY <1>5, <2>2, <2>3
  <2>7. QED
    BY <2>2, <2>5, <2>6
<1>7. \A x \in 0 .. MaxShift : Power5[x] \in Nat \ {0}
  BY <1>6
<1>8. 0 \in 0 .. MaxShift
  BY ApproximateAssumption
<1>9. QED
  BY <1>5, <1>7, <1>8

(* Division, as far as it is needed.                                       *)
LEMMA DivForm ==
    ASSUME NEW a \in Nat, NEW d \in Nat, d >= 1
    PROVE  /\ a \div d \in Nat
           /\ (a \div d) * d <= a
           /\ a < (a \div d + 1) * d
OBVIOUS

LEMMA DivLe ==
    ASSUME NEW a \in Nat, NEW d \in Nat, d >= 1, NEW n \in Nat, a < (n + 1) * d
    PROVE  a \div d <= n
OBVIOUS

(* The number of divisions in count_to_byte. *)
LEMMA ShiftForm ==
    ASSUME NEW m \in Nat, m < Size8
    PROVE  /\ Shift(m) \in 0 .. MaxShift
           /\ m \div Power5[Shift(m)] <= 19
           /\ Shift(m) # 0 => 4 <= m \div Power5[Shift(m)]
<1> DEFINE Fits(x) == m \div Power5[x] <= 19
           S == {x \in 0 .. MaxShift : Fits(x)}
<1>1. MaxShift \in S
  <2>1. /\ MaxShift \in 0 .. MaxShift /\ Power5[MaxShift] \in Nat
        /\ Power5[MaxShift] >= 1 /\ Size8 \in Nat
    BY ApproximateAssumption, PowerForm, WidthAssumption
  <2>2. PICK p : p = Power5[MaxShift]
    OBVIOUS
  <2>3. p \in Nat /\ p >= 1 /\ Size8 \in Nat /\ Size8 \div p <= 19
    BY <2>1, <2>2, ApproximateAssumption
  <2>4. Size8 < (Size8 \div p + 1) * p /\ Size8 \div p \in Nat
    BY <2>3, DivForm
  <2>5. (Size8 \div p + 1) * p <= (19 + 1) * p
    BY <2>3, <2>4
  <2>6. m < (19 + 1) * p
    BY <2>3, <2>4, <2>5
  <2>7. m \div p <= 19
    BY <2>3, <2>6, DivLe
  <2>8. QED
    BY <2>1, <2>2, <2>7
<1>2. S \in SUBSET Nat /\ S \subseteq 0 .. MaxShift
  BY ApproximateAssumption
<1>3. PICK k \in S : \A j \in S : k <= j
  <2> HIDE DEF S
  <2>1. QED
    BY <1>1, <1>2, LeastElement
<1>4. \A y \in 0 .. MaxShift : y < k => m \div Power5[y] > 19
  <2> SUFFICES ASSUME NEW y \in 0 .. MaxShift, y < k
               PROVE  m \div Power5[y] > 19
    OBVIOUS
  <2>1. y \notin S
    BY <1>2, <1>3
  <2>2. m \div Power5[y] \in Nat
    BY PowerForm, DivForm
  <2>3. QED
    BY <2>1, <2>2
<1>5. /\ Shift(m) \in 0 .. MaxShift
      /\ m \div Power5[Shift(m)] <= 19
      /\ \A y \in 0 .. MaxShift : y < Shift(m) => m \div Power5[y] > 19
  <2>1. k \in 0 .. MaxShift /\ m \div Power5[k] <= 19
    BY <1>3
  <2>2. QED
    BY <1>4, <2>1 DEF Shift
<1> HIDE DEF S, Fits
<1>6. ASSUME Shift(m) # 0 PROVE 4 <= m \div Power5[Shift(m)]
  <2>1. PICK x : x = Shift(m)
    OBVIOUS
  <2>2. /\ x \in 0 .. MaxShift /\ x - 1 \in 0 .. MaxShift /\ x - 1 < x
        /\ x # 0
    BY <1>5, <1>6, <2>1, ApproximateAssumption
  <2>3. PICK p, q : p = Power5[x - 1] /\ q = Power5[x]
    OBVIOUS
  <2>4. p \in Nat /\ p >= 1 /\ q = 5 * p /\ q \in Nat /\ q >= 1
    BY <2>2, <2>3, PowerForm
  <2>5. m \div p > 19
    BY <1>5, <2>1, <2>2, <2>3
  <2>6. (m \div p) * p <= m /\ m \div p \in Nat
    BY <2>4, DivForm
  <2>7. 20 * p <= (m \div p) * p
    BY <2>4, <2>5, <2>6
  <2>8. 4 * q <= m
    BY <2>4, <2>6, <2>7
  <2>9. m < (m \div q + 1) * q /\ m \div q \in Nat
    BY <2>4, DivForm
  <2>10. 4 <= m \div q
    <3> SUFFICES ASSUME m \div q <= 3 PROVE FALSE
      BY <2>9
    <3>1. (m \div q + 1) * q <= 4 * q
      BY <2>4, <2>9
    <3>2. QED
      BY <2>4, <2>8, <2>9, <3>1
  <2>11. QED
    BY <2>1, <2>3, <2>10
<1>7. QED
  BY <1>5, <1>6

(* Powers only grow. *)
LEMMA PowersGrow ==
    \A x \in 0 .. MaxShift : \A y \in 0 .. x : Power5[y] <= Power5[x]
<1> DEFINE Bad == {x \in 0 .. MaxShift :
                      \E y \in 0 .. x : ~(Power5[y] <= Power5[x])}
<1> SUFFICES ASSUME Bad # {} PROVE FALSE
  OBVIOUS
<1>1. Bad \in SUBSET Nat
  BY ApproximateAssumption
<1>2. PICK k \in Bad : \A j \in Bad : k <= j
  <2> HIDE DEF Bad
  <2>1. QED
    BY <1>1, LeastElement
<1>3. PICK y \in 0 .. k : ~(Power5[y] <= Power5[k])
  OBVIOUS
<1>4. k \in 0 .. MaxShift /\ k \in Nat /\ y \in Nat /\ MaxShift \in Nat
  BY ApproximateAssumption
<1>5. Power5[k] \in Nat
  BY <1>4, PowerForm
<1>6. y # k
  BY <1>3, <1>5
<1>7. k - 1 \in 0 .. MaxShift /\ y \in 0 .. k - 1 /\ ~(k <= k - 1) /\ k # 0
  BY <1>3, <1>4, <1>6
<1>8. k - 1 \notin Bad
  <2> HIDE DEF Bad
  <2>1. QED
    BY <1>2, <1>7
<1>9. Power5[y] <= Power5[k - 1]
  BY <1>7, <1>8
<1>10. y \in 0 .. MaxShift
  BY <1>4
<1>11. Power5[k] = 5 * Power5[k - 1] /\ Power5[k - 1] \in Nat
       /\ Power5[y] \in Nat
  BY <1>4, <1>7, <1>10, PowerForm
<1>12. QED
  BY <1>3, <1>9, <1>11

(***************************************************************************)
(* A count that is stored does not read back as 0, which find takes for    *)
(* "not present": it is at most rounded down, to 1 or more.                *)
(***************************************************************************)
LEMMA PresentReadsPresent ==
    ASSUME NEW n \in Nat, 1 <= n, n + 5 < Size8
    PROVE  /\ count_to_byte(n) # <<>>
           /\ byte_to_count(count_to_byte(n)) \in 1 .. n
<1>1. PICK m : m = n + 5
  OBVIOUS
<1>2. PICK x : x = Shift(m)
  OBVIOUS
<1>3. PICK p, q : p = Power5[x] /\ q = m \div p
  OBVIOUS
<1>4. PICK e : e = IF x > MaxExponent THEN MaxExponent ELSE x
  OBVIOUS
<1>5. PICK b : b = IF q > 4 THEN q - 4 ELSE 0
  OBVIOUS
<1>6. m \in Nat /\ m < Size8 /\ Size8 \in Nat /\ m >= 6
  BY <1>1, WidthAssumption
<1>7. Plus64(n, 5) = m
  BY <1>1, <1>6 DEF Plus64
<1>8. count_to_byte(n) = <<e, b>>
  BY <1>2, <1>3, <1>4, <1>5, <1>7, Zenon DEF count_to_byte
<1>9. /\ x \in 0 .. MaxShift /\ q <= 19 /\ (x # 0 => 4 <= q)
      /\ p \in Nat /\ p >= 1 /\ q \in Nat /\ q * p <= m
  <2>1. x \in 0 .. MaxShift /\ q <= 19 /\ (x # 0 => 4 <= q)
    BY <1>2, <1>3, <1>6, ShiftForm
  <2>2. p \in Nat /\ p >= 1
    BY <1>3, <2>1, PowerForm
  <2>3. QED
    BY <1>3, <1>6, <2>1, <2>2, DivForm
<1>10. PICK d : d = Power5[e]
  OBVIOUS
<1>11. /\ e \in 0 .. MaxShift /\ e \in 0 .. x /\ (x # 0 => e # 0)
       /\ (x = 0 => e = 0)
  BY <1>4, <1>9, ApproximateAssumption
<1>12. d \in Nat /\ d >= 1 /\ d <= p
       /\ (x = 0 => d = 1) /\ (x # 0 => d >= 5)
  <2>1. d \in Nat /\ d >= 1 /\ d <= p
    BY <1>3, <1>9, <1>10, <1>11, PowerForm, PowersGrow
  <2>2. x = 0 => d = 1
    BY <1>10, <1>11, PowerForm
  <2>3. ASSUME x # 0 PROVE d >= 5
    <3>1. e # 0 /\ e - 1 \in 0 .. MaxShift
      BY <1>11, <2>3, ApproximateAssumption
    <3>2. d = 5 * Power5[e - 1] /\ Power5[e - 1] \in Nat /\ Power5[e - 1] >= 1
      BY <1>10, <1>11, <3>1, PowerForm
    <3>3. QED
      BY <3>2
  <2>4. QED
    BY <2>1, <2>2, <2>3
<1>13. b + 4 = q /\ b \in Nat
  <2>1. q >= 4
    <3>1. CASE x = 0
      <4>1. p = 1
        BY <1>3, <3>1, PowerForm
      <4>2. m < (q + 1) * p
        BY <1>3, <1>6, <1>9, DivForm
      <4>3. QED
        BY <1>6, <1>9, <4>1, <4>2
    <3>2. CASE x # 0
      BY <1>9, <3>2
    <3>3. QED
      BY <3>1, <3>2
  <2>2. QED
    BY <1>5, <1>9, <2>1
<1>14. q * d <= m
  <2>1. q * d <= q * p
    BY <1>9, <1>12
  <2>2. QED
    BY <1>6, <1>9, <1>12, <2>1
<1>15. q * d >= 6
  <2>1. CASE x = 0
    <3>1. p = 1 /\ d = 1
      BY <1>3, <1>12, <2>1, PowerForm
    <3>2. m < (q + 1) * p
      BY <1>3, <1>6, <1>9, DivForm
    <3>3. QED
      BY <1>6, <1>9, <3>1, <3>2
  <2>2. CASE x # 0
    <3>1. 4 <= q /\ 5 <= d
      BY <1>9, <1>12, <2>2
    <3>2. 4 * 5 <= q * d
      BY <1>9, <1>12, <3>1
    <3>3. QED
      BY <1>9, <1>12, <3>2
  <2>3. QED
    BY <2>1, <2>2
<1>16. PICK v : v = q * d - 5
  OBVIOUS
<1>17. v \in 1 .. n
  BY <1>1, <1>9, <1>12, <1>14, <1>15, <1>16
<1>18. v % Size8 = v
  BY <1>1, <1>6, <1>17
<1>19. byte_to_count(<<e, b>>) = v
  <2>1. <<e, b>>[1] = e /\ <<e, b>>[2] = b
    OBVIOUS
  <2>2. byte_to_count(<<e, b>>) = ((b + 4) * Power5[e] - 5) % Size8
    BY <2>1, Zenon DEF byte_to_count
  <2>3. QED
    BY <1>10, <1>13, <1>16, <1>18, <2>2
<1>20. <<e, b>> # <<>>
  OBVIOUS
<1>21. QED
  BY <1>8, <1>17, <1>19, <1>20

(* What the byte of a count that is not too large stands for: its exponent *)
(* x, and q, which is its mantissa with the offset of 4.                   *)
Splits(n, x, q) ==
    /\ x \in 0 .. MaxExponent /\ q \in 4 .. 19
    /\ q * Power5[x] <= n + 5 /\ n + 5 < (q + 1) * Power5[x]

LEMMA ByteForm ==
    ASSUME NEW n \in Nat, n + 5 < Size8,
           n < 20 * Power5[MaxExponent] - 5
    PROVE  \E x, q : /\ Splits(n, x, q)
                     /\ x # 0 => 15 <= n
                     /\ count_to_byte(n) = <<x, q - 4>>
<1>1. PICK m : m = n + 5
  OBVIOUS
<1>2. PICK x : x = Shift(m)
  OBVIOUS
<1>3. PICK p, q : p = Power5[x] /\ q = m \div p
  OBVIOUS
<1>4. m \in Nat /\ m < Size8 /\ Size8 \in Nat /\ m >= 5
  BY <1>1, WidthAssumption
<1>5. /\ x \in 0 .. MaxShift /\ q <= 19 /\ (x # 0 => 4 <= q)
      /\ x \in Nat /\ MaxExponent \in 0 .. MaxShift /\ MaxExponent \in Nat
  BY <1>2, <1>3, <1>4, ShiftForm, ApproximateAssumption
<1>6. p \in Nat /\ p >= 1 /\ (x = 0 => p = 1)
  BY <1>3, <1>5, PowerForm
<1>7. q \in Nat /\ q * p <= m /\ m < (q + 1) * p
  BY <1>3, <1>4, <1>6, DivForm
<1>8. q \in 4 .. 19
  <2>1. CASE x = 0
    BY <1>4, <1>5, <1>6, <1>7, <2>1
  <2>2. CASE x # 0
    BY <1>5, <1>7, <2>2
  <2>3. QED
    BY <2>1, <2>2
<1>9. x <= MaxExponent
  <2> SUFFICES ASSUME MaxExponent < x PROVE FALSE
    BY <1>5
  <2>1. x - 1 \in 0 .. MaxShift /\ MaxExponent \in 0 .. x - 1 /\ x # 0
    BY <1>5, ApproximateAssumption
  <2>2. PICK r, u : r = Power5[x - 1] /\ u = Power5[MaxExponent]
    OBVIOUS
  <2>3. u \in Nat /\ r \in Nat /\ u <= r /\ p = 5 * r
    BY <1>3, <1>5, <2>1, <2>2, PowerForm, PowersGrow
  <2>4. m < 20 * u
    BY <1>1, <2>2, <2>3
  <2>5. 4 * p <= q * p
    BY <1>6, <1>8
  <2>6. QED
    BY <1>4, <1>6, <1>7, <2>3, <2>4, <2>5
<1>10. x # 0 => 15 <= n
  <2> SUFFICES ASSUME x # 0 PROVE 15 <= n
    OBVIOUS
  <2>0. x # 0
    OBVIOUS
  <2>1. p >= 5
    <3>1. x - 1 \in 0 .. MaxShift
      BY <1>5, <2>0, ApproximateAssumption
    <3>2. p = 5 * Power5[x - 1] /\ Power5[x - 1] \in Nat /\ Power5[x - 1] >= 1
      BY <1>3, <1>5, <3>1, PowerForm
    <3>3. QED
      BY <3>2
  <2>2. 4 * 5 <= q * p
    BY <1>6, <1>8, <2>1
  <2>3. QED
    BY <1>1, <1>4, <1>6, <1>7, <2>2
<1>11. Plus64(n, 5) = m
  BY <1>1, <1>4 DEF Plus64
<1>12. count_to_byte(n) = <<IF x > MaxExponent THEN MaxExponent ELSE x,
                            IF q > 4 THEN q - 4 ELSE 0>>
  BY <1>2, <1>3, <1>11, Zenon DEF count_to_byte
<1>13. /\ (IF x > MaxExponent THEN MaxExponent ELSE x) = x
       /\ (IF q > 4 THEN q - 4 ELSE 0) = q - 4
  BY <1>5, <1>8, <1>9
<1>14. count_to_byte(n) = <<x, q - 4>>
  BY <1>12, <1>13
<1>15. Splits(n, x, q)
  BY <1>1, <1>3, <1>5, <1>7, <1>8, <1>9 DEF Splits
<1>16. QED
  BY <1>10, <1>14, <1>15

(* Reading it. *)
LEMMA ReadForm ==
    ASSUME NEW n \in Nat, n + 5 < Size8, NEW x, NEW q, Splits(n, x, q)
    PROVE  /\ byte_to_count(<<x, q - 4>>) = q * Power5[x] - 5
           /\ q * Power5[x] - 5 \in 0 .. n
<1>1. PICK p : p = Power5[x]
  OBVIOUS
<1>2. /\ q \in 4 .. 19 /\ x \in 0 .. MaxShift /\ q * p <= n + 5
      /\ n + 5 < (q + 1) * p /\ Size8 \in Nat
  BY <1>1, ApproximateAssumption, WidthAssumption DEF Splits
<1>3. p \in Nat /\ p >= 1 /\ (x = 0 => p = 1)
  BY <1>1, <1>2, PowerForm
<1>4. q * p >= 5 /\ q * p \in Nat
  <2>1. CASE p = 1
    BY <1>2, <2>1
  <2>2. CASE p # 1
    <3>1. 4 * 2 <= q * p
      BY <1>2, <1>3, <2>2
    <3>2. QED
      BY <1>2, <1>3, <3>1
  <2>3. QED
    BY <2>1, <2>2
<1>5. PICK v : v = q * p - 5
  OBVIOUS
<1>6. v \in 0 .. n /\ v % Size8 = v
  BY <1>2, <1>4, <1>5
<1>7. PICK b : b = q - 4
  OBVIOUS
<1>8. byte_to_count(<<x, b>>) = ((b + 4) * Power5[x] - 5) % Size8
  <2>1. <<x, b>>[1] = x /\ <<x, b>>[2] = b
    OBVIOUS
  <2>2. QED
    BY <2>1, Zenon DEF byte_to_count
<1>9. b + 4 = q
  BY <1>2, <1>7
<1>10. QED
  BY <1>1, <1>5, <1>6, <1>7, <1>8, <1>9

(* The split of a larger count is not smaller. *)
LEMMA SplitsGrow ==
    ASSUME NEW k \in Nat, NEW n \in Nat, k <= n, NEW x, NEW q, NEW y, NEW r,
           Splits(k, x, q), Splits(n, y, r)
    PROVE  x <= y /\ q * Power5[x] <= r * Power5[y]
<1>1. PICK u, v : u = Power5[x] /\ v = Power5[y]
  OBVIOUS
<1>2. /\ x \in 0 .. MaxExponent /\ y \in 0 .. MaxExponent
      /\ q \in 4 .. 19 /\ r \in 4 .. 19
      /\ q * u <= k + 5 /\ k + 5 < (q + 1) * u
      /\ r * v <= n + 5 /\ n + 5 < (r + 1) * v
  BY <1>1 DEF Splits
<1>3. /\ x \in 0 .. MaxShift /\ y \in 0 .. MaxShift
      /\ u \in Nat /\ u >= 1 /\ v \in Nat /\ v >= 1
  BY <1>1, <1>2, PowerForm, ApproximateAssumption
<1>4. ASSUME NEW a \in 0 .. MaxShift, NEW b \in 0 .. MaxShift, a < b
      PROVE  5 * Power5[a] <= Power5[b]
  <2>1. b # 0 /\ b - 1 \in 0 .. MaxShift /\ a \in 0 .. b - 1
    BY <1>4, ApproximateAssumption
  <2>2. /\ Power5[b] = 5 * Power5[b - 1] /\ Power5[a] <= Power5[b - 1]
        /\ Power5[a] \in Nat /\ Power5[b - 1] \in Nat
    BY <2>1, PowerForm, PowersGrow
  <2>3. QED
    BY <2>2
<1>5. CASE x = y
  <2>1. u = v
    BY <1>1, <1>5
  <2>2. q <= r
    <3> SUFFICES ASSUME r + 1 <= q PROVE FALSE
      BY <1>2
    <3>1. (r + 1) * u <= q * u
      BY <1>2, <1>3
    <3>2. q * u \in Nat /\ (r + 1) * u \in Nat
      BY <1>2, <1>3
    <3>3. QED
      BY <1>2, <2>1, <3>1, <3>2
  <2>3. q * u <= r * u
    BY <1>2, <1>3, <2>2
  <2>4. QED
    BY <1>1, <1>2, <1>5, <2>1, <2>3
<1>6. CASE x < y
  <2>1. 5 * u <= v
    BY <1>1, <1>3, <1>4, <1>6
  <2>2. q * u <= 20 * u /\ 4 * v <= r * v
    BY <1>2, <1>3
  <2>3. q * u \in Nat /\ r * v \in Nat
    BY <1>2, <1>3
  <2>4. q * u <= r * v
    BY <1>3, <2>1, <2>2, <2>3
  <2>5. QED
    BY <1>1, <1>2, <1>6, <2>4
<1>7. CASE y < x
  <2>1. 5 * v <= u
    BY <1>1, <1>3, <1>4, <1>7
  <2>2. (r + 1) * v <= 20 * v /\ 4 * u <= q * u
    BY <1>2, <1>3
  <2>3. q * u \in Nat /\ (r + 1) * v \in Nat
    BY <1>2, <1>3
  <2>4. QED
    BY <1>2, <1>3, <2>1, <2>2, <2>3
<1>8. QED
  BY <1>2, <1>5, <1>6, <1>7

(***************************************************************************)
(* What the one byte of the hash store loses of a count below 20 times the *)
(* largest stored power, less 5: nothing up to 14, never more than a fifth *)
(* above that.  What is read is never above the count, grows with it, and  *)
(* is stored as the same byte again.                                       *)
(***************************************************************************)
THEOREM ApproximateCountsAreClose ==
    ASSUME NEW n \in Nat, n + 5 < Size8, n < 20 * Power5[MaxExponent] - 5
    PROVE  LET c == Approximate(n) IN
           /\ count_to_byte(n) \in Byte
           /\ c \in 0 .. n
           /\ n <= 14 => c = n
           /\ 5 * (n - c) <= n + 5
           /\ count_to_byte(c) = count_to_byte(n)
           /\ \A k \in 0 .. n : Approximate(k) <= c
<1> DEFINE c == Approximate(n)
<1>1. PICK x, q : /\ Splits(n, x, q) /\ (x # 0 => 15 <= n)
                  /\ count_to_byte(n) = <<x, q - 4>>
  BY ByteForm
<1>2. PICK p : p = Power5[x]
  OBVIOUS
<1>3. /\ x \in 0 .. MaxExponent /\ q \in 4 .. 19 /\ x \in 0 .. MaxShift
      /\ q * p <= n + 5 /\ n + 5 < (q + 1) * p
  BY <1>1, <1>2, ApproximateAssumption DEF Splits
<1>4. p \in Nat /\ p >= 1 /\ (x = 0 => p = 1) /\ q * p \in Nat
  <2>1. p \in Nat /\ p >= 1 /\ (x = 0 => p = 1)
    BY <1>2, <1>3, PowerForm
  <2>2. QED
    BY <1>3, <2>1
<1>5. c = q * p - 5 /\ c \in 0 .. n
  BY <1>1, <1>2, ReadForm DEF Approximate
<1> HIDE DEF c
<1>6. count_to_byte(n) \in Byte
  BY <1>1, <1>3 DEF Byte, Mantissa
<1>7. n <= 14 => c = n
  <2> SUFFICES ASSUME n <= 14 PROVE c = n
    OBVIOUS
  <2>1. p = 1
    BY <1>1, <1>4
  <2>2. QED
    BY <1>3, <1>5, <2>1
<1>8. 5 * (n - c) <= n + 5
  <2>1. 4 * p <= q * p
    BY <1>3, <1>4
  <2>2. (q + 1) * p = q * p + p
    BY <1>3, <1>4
  <2>3. QED
    BY <1>3, <1>4, <1>5, <2>1, <2>2
<1>9. count_to_byte(c) = count_to_byte(n)
  <2>1. c \in Nat /\ c + 5 < Size8 /\ c < 20 * Power5[MaxExponent] - 5
    <3>1. Power5[MaxExponent] \in Nat /\ Size8 \in Nat
      BY PowerForm, ApproximateAssumption, WidthAssumption
    <3>2. QED
      BY <1>5, <3>1
  <2>2. PICK y, r : Splits(c, y, r) /\ count_to_byte(c) = <<y, r - 4>>
    BY <2>1, ByteForm
  <2>3. Splits(c, x, q)
    <3>1. c + 5 = q * p /\ q * p < (q + 1) * p
      BY <1>3, <1>4, <1>5
    <3>2. QED
      BY <1>2, <1>3, <1>4, <3>1 DEF Splits
  <2>4. /\ x <= y /\ q * Power5[x] <= r * Power5[y]
        /\ y <= x /\ r * Power5[y] <= q * Power5[x]
    BY <2>1, <2>2, <2>3, SplitsGrow
  <2>5. x = y /\ r \in 4 .. 19
    BY <1>3, <2>2, <2>4 DEF Splits
  <2>6. q * p = r * p
    BY <1>2, <1>3, <1>4, <2>4, <2>5
  <2>7. q = r
    BY <1>3, <1>4, <2>5, <2>6
  <2>8. QED
    BY <1>1, <2>2, <2>5, <2>7
<1>10. ASSUME NEW k \in 0 .. n PROVE Approximate(k) <= c
  <2>1. /\ k \in Nat /\ k <= n /\ k + 5 < Size8
        /\ k < 20 * Power5[MaxExponent] - 5
    <3>1. Power5[MaxExponent] \in Nat /\ Size8 \in Nat
      BY PowerForm, ApproximateAssumption, WidthAssumption
    <3>2. QED
      BY <3>1
  <2>2. PICK y, r : Splits(k, y, r) /\ count_to_byte(k) = <<y, r - 4>>
    BY <2>1, ByteForm
  <2>3. Approximate(k) = r * Power5[y] - 5 /\ Approximate(k) \in 0 .. k
    BY <2>1, <2>2, ReadForm DEF Approximate
  <2>4. r * Power5[y] <= q * Power5[x]
    BY <1>1, <2>1, <2>2, SplitsGrow
  <2>5. r * Power5[y] \in Nat
    <3>1. r \in Nat /\ y \in 0 .. MaxShift
      BY <2>2, ApproximateAssumption DEF Splits
    <3>2. QED
      BY <3>1, PowerForm
  <2>6. QED
    BY <1>2, <1>4, <1>5, <2>3, <2>4, <2>5
<1>11. QED
  BY <1>5, <1>6, <1>7, <1>8, <1>9, <1>10 DEF c

-----------------------------------------------------------------------------
(***************************************************************************)
(* The hash store is asked first, and 0 means "not present": a stored hash *)
(* is found because no count of one is ever 0.  A sub_count of 0 or a      *)
(* count of 2^31, which get4 reads as a number close to 2^64, would make   *)
(* one.                                                                    *)
(***************************************************************************)
CountsSmall == \A h \in Hash : find_count(hash_data_store[h]) < Half4

(* A 4-byte count below 2^31 reads back as it was written. *)
LEMMA SmallCounts ==
    ASSUME NEW n \in 0 .. Max4, get4(n) < Half4
    PROVE  get4(n) = n /\ n < Half4
BY WidthAssumption DEF get4, Max4

(* Adding a positive number to a small count. *)
LEMMA SmallSums ==
    ASSUME NEW a \in 1 .. Half4 - 1, NEW n \in 1 .. Max4
    PROVE  /\ add2(a, n) \in 1 .. Max2
           /\ add4(a, n) \in 1 .. Max4
<1>1. /\ Max2 \in Nat /\ Max2 >= 1 /\ Half4 \in Nat /\ Size8 \in Nat
      /\ Max4 = 2 * Half4 - 1 /\ Max2 < Half4 /\ 4 * Half4 <= Size8
  BY WidthAssumption DEF Max4
<1>2. a + n \in Nat /\ 1 <= a + n /\ a + n < Size8
  BY <1>1
<1>3. Plus64(a, n) = a + n
  BY <1>1, <1>2 DEF Plus64
<1>4. QED
  BY <1>1, <1>2, <1>3 DEF add2, add4

(* What insert and merge return is the count that find_count reports, and  *)
(* it is not 0.                                                            *)
LEMMA InsertPresent ==
    ASSUME NEW rec \in Record, NEW s \in SourceId, NEW e, NEW l,
           rec.type # 0 => find_count(rec) \in 1 .. Half4 - 1,
           find_count(InsertRecord(rec, e, l, s)) < Half4
    PROVE  /\ InsertRecord(rec, e, l, s).type # 0
           /\ find_count(InsertRecord(rec, e, l, s)) = InsertCount(rec, s)
           /\ InsertCount(rec, s) \in 1 .. Half4 - 1
<1> DEFINE new == InsertRecord(rec, e, l, s)
           c == InsertCount(rec, s)
<1>0. /\ Max2 \in Nat /\ Max2 >= 1 /\ Half4 \in Nat /\ Max2 < Half4
      /\ Max4 \in Nat /\ Max4 >= 1 /\ Half4 >= 2
  BY WidthAssumption DEF Max4
<1>1. CASE rec.type = 0
  <2>1. new = new_type1(e, l, s, 1) /\ c = 1
    BY <1>1 DEF InsertRecord, InsertCount
  <2>2. new.type = 1 /\ find_count(new) = put2(1)
    BY <2>1 DEF new_type1, find_count
  <2>3. QED
    BY <1>0, <2>1, <2>2 DEF put2
<1>2. CASE rec.type = 1 /\ rec.source_id = s
  <2>1. rec.sub_count \in 1 .. Half4 - 1 /\ rec \in Type1
    BY <1>2, RecordForms DEF find_count
  <2>2. c = add2(rec.sub_count, 1) /\ c \in 1 .. Max2
    BY <1>0, <1>2, <2>1, SmallSums DEF InsertCount
  <2>3. new = replace_type1(rec, c)
    BY <1>2 DEF InsertRecord
  <2> HIDE DEF c, new
  <2>4. new.type = 1 /\ new.sub_count = put2(c)
    BY <1>2, <2>1, <2>3 DEF replace_type1, Type1
  <2>5. find_count(new) = c
    BY <1>0, <2>2, <2>4 DEF put2, find_count
  <2>6. QED
    BY <1>0, <2>2, <2>4, <2>5 DEF c, new
<1>3. ASSUME new.type = 2, new.count = put4(c), c \in 1 .. Max4
      PROVE  find_count(new) = c /\ c \in 1 .. Half4 - 1
  <2> HIDE DEF c, new
  <2>1. put4(c) = c
    BY <1>0, <1>3 DEF put4
  <2>2. find_count(new) = get4(c)
    BY <1>3, <2>1 DEF find_count
  <2>3. get4(c) < Half4
    BY <2>2 DEF new
  <2>4. c \in 0 .. Max4
    BY <1>0, <1>3
  <2>5. QED
    BY <1>0, <1>3, <2>2, <2>3, <2>4, SmallCounts
<1>4. CASE rec.type = 1 /\ rec.source_id # s
  <2>1. rec.sub_count \in 1 .. Half4 - 1 /\ rec \in Type1
    BY <1>4, RecordForms DEF find_count
  <2>2. c = add4(rec.sub_count, 1) /\ c \in 1 .. Max4
    BY <1>0, <1>4, <2>1, SmallSums DEF InsertCount
  <2>3. new = split_type1(rec, c, s, 1)
    BY <1>4 DEF InsertRecord
  <2>4. new.type = 2 /\ new.count = put4(c)
    BY <2>3 DEF split_type1
  <2>5. QED
    BY <1>3, <2>2, <2>4
<1>5. CASE rec.type = 2
  <2>1. get4(rec.count) \in 1 .. Half4 - 1 /\ rec \in Type2
    BY <1>5, RecordForms DEF find_count
  <2>2. c = add4(get4(rec.count), 1) /\ c \in 1 .. Max4
    BY <1>0, <1>5, <2>1, SmallSums DEF InsertCount
  <2>3. \E n : new = update_type2(rec, c, s, n)
    BY <1>5 DEF InsertRecord
  <2> HIDE DEF c, new
  <2>4. new.type = 2 /\ new.count = put4(c)
    BY <1>5, <2>1, <2>3 DEF update_type2, Type2
  <2>5. QED
    BY <1>3, <2>2, <2>4 DEF c, new
<1>6. QED
  BY <1>1, <1>2, <1>4, <1>5, RecordForms

LEMMA MergePresent ==
    ASSUME NEW rec \in Record, NEW s \in SourceId, NEW e, NEW l,
           NEW k \in 1 .. Max4,
           rec.type # 0 => find_count(rec) \in 1 .. Half4 - 1,
           find_count(MergeRecord(rec, e, l, s, k)) < Half4
    PROVE  /\ MergeRecord(rec, e, l, s, k).type # 0
           /\ find_count(MergeRecord(rec, e, l, s, k)) = MergeCount(rec, s, k)
           /\ MergeCount(rec, s, k) \in 1 .. Half4 - 1
<1> DEFINE new == MergeRecord(rec, e, l, s, k)
           c == MergeCount(rec, s, k)
<1>0. /\ Max2 \in Nat /\ Max2 >= 1 /\ Half4 \in Nat /\ Max2 < Half4
      /\ Max4 \in Nat /\ Max4 >= 1 /\ Half4 >= 2
  BY WidthAssumption DEF Max4
<1>1. CASE rec.type = 0
  <2>1. new = new_type1(e, l, s, k) /\ c = add2(k, 0)
    BY <1>1 DEF MergeRecord, MergeCount
  <2>2. new.type = 1 /\ find_count(new) = put2(k)
    BY <2>1 DEF new_type1, find_count
  <2>3. Plus64(k, 0) = k
    BY <1>0, WidthAssumption DEF Plus64, Max4
  <2>4. add2(k, 0) = put2(k) /\ put2(k) \in 1 .. Max2
    BY <1>0, <2>3 DEF add2, put2
  <2>5. QED
    BY <1>0, <2>1, <2>2, <2>4
<1>2. CASE rec.type # 0 /\ s \in Sources(rec)
  <2>1. new = rec /\ c = find_count(rec)
    BY <1>2 DEF MergeRecord, MergeCount
  <2>2. QED
    BY <1>2, <2>1
<1>3. ASSUME new.type = 2, new.count = put4(c), c \in 1 .. Max4
      PROVE  find_count(new) = c /\ c \in 1 .. Half4 - 1
  <2> HIDE DEF c, new
  <2>1. put4(c) = c
    BY <1>0, <1>3 DEF put4
  <2>2. find_count(new) = get4(c)
    BY <1>3, <2>1 DEF find_count
  <2>3. get4(c) < Half4
    BY <2>2 DEF new
  <2>4. c \in 0 .. Max4
    BY <1>0, <1>3
  <2>5. QED
    BY <1>0, <1>3, <2>2, <2>3, <2>4, SmallCounts
<1>4. CASE rec.type = 1 /\ s \notin Sources(rec)
  <2>1. rec.sub_count \in 1 .. Half4 - 1 /\ rec \in Type1
    BY <1>4, RecordForms DEF find_count
  <2>2. c = add4(rec.sub_count, k) /\ c \in 1 .. Max4
    BY <1>0, <1>4, <2>1, SmallSums DEF MergeCount
  <2>3. new = split_type1(rec, c, s, k)
    BY <1>4 DEF MergeRecord
  <2>4. new.type = 2 /\ new.count = put4(c)
    BY <2>3 DEF split_type1
  <2>5. QED
    BY <1>3, <2>2, <2>4
<1>5. CASE rec.type = 2 /\ s \notin Sources(rec)
  <2>1. get4(rec.count) \in 1 .. Half4 - 1 /\ rec \in Type2
    BY <1>5, RecordForms DEF find_count
  <2>2. c = add4(get4(rec.count), k) /\ c \in 1 .. Max4
    BY <1>0, <1>5, <2>1, SmallSums DEF MergeCount
  <2>3. new = update_type2(rec, c, s, k)
    BY <1>5 DEF MergeRecord
  <2> HIDE DEF c, new
  <2>4. new.type = 2 /\ new.count = put4(c)
    BY <1>5, <2>1, <2>3 DEF update_type2, Type2
  <2>5. QED
    BY <1>3, <2>2, <2>4 DEF c, new
<1>6. QED
  BY <1>1, <1>2, <1>4, <1>5, RecordForms

(* The hash store has a byte for the hash of call c. *)
HasByte(c) ==
    c.op \in {"insert_hash", "merge_hash"} =>
        c.hash \in Hash /\ hash_store[prefix[c.hash]] # NoByte

(* No stored hash reads as absent, in the one store or in the other, and   *)
(* the hash store knows the hashes of the calls that have returned and of  *)
(* those with nothing left to write but source data.                       *)
CountsPresent ==
    \A h \in Hash : hash_data_store[h].type # 0
                        => find_count(hash_data_store[h]) \in 1 .. Half4 - 1

BytesPresent ==
    /\ hash_store = [p \in Prefix |-> hash_store[p]]
    /\ \A p \in Prefix : hash_store[p] # NoByte
                            => byte_to_count(hash_store[p]) # 0

Present ==
    /\ CountsPresent
    /\ BytesPresent
    /\ \A t \in Thread : pc(t) = "hash_store"
                            => frame[t].count \in 1 .. Half4 - 1
    /\ \A c \in returned : HasByte(c)
    /\ \A t \in Thread : pc(t) = "source_data" => HasByte(frame[t].call)

(* No byte is taken back. *)
BytesStay ==
    \A p \in Prefix : hash_store[p] # NoByte => hash_store'[p] # NoByte

LEMMA HasByteStays ==
    ASSUME BytesStay, NEW c, HasByte(c) PROVE HasByte(c)'
BY ImportAssumption DEF HasByte, BytesStay

(* A step of thread t whose call has its byte when it returns or goes on   *)
(* to the source data.                                                     *)
LEMMA PresentMoves ==
    ASSUME Present, BytesStay, NEW t \in Thread,
           CountsPresent', BytesPresent',
           NEW call, call = frame[t].call,
           \A u \in Thread \ {t} : frame'[u] = frame[u],
           frame'[t].pc = "hash_store" => frame'[t].count \in 1 .. Half4 - 1,
           frame'[t].pc = "source_data" => frame'[t].call = call,
           returned' \subseteq returned \cup {call},
           \/ HasByte(call)'
           \/ returned' = returned /\ frame'[t].pc # "source_data"
    PROVE  Present'
<1>1. \A c \in returned : HasByte(c)'
  BY HasByteStays DEF Present
<1>2. \A c \in returned' : HasByte(c)'
  BY <1>1
<1>3. ASSUME NEW u \in Thread, frame'[u].pc = "source_data",
             NEW c, c = frame'[u].call
      PROVE  HasByte(c)'
  <2>1. CASE u = t
    BY <1>3, <2>1
  <2>2. CASE u # t
    <3>1. frame'[u] = frame[u] /\ pc(u) = "source_data"
      BY <1>3, <2>2 DEF pc
    <3>2. HasByte(c)
      BY <1>3, <3>1 DEF Present
    <3>3. QED
      BY <3>2, HasByteStays
  <2>3. QED
    BY <2>1, <2>2
<1>4. \A u \in Thread : frame'[u].pc = "source_data" => HasByte(frame[u].call)'
  BY <1>3
<1>5. ASSUME NEW u \in Thread, frame'[u].pc = "hash_store"
      PROVE  frame'[u].count \in 1 .. Half4 - 1
  <2>1. CASE u = t
    BY <1>5, <2>1
  <2>2. CASE u # t
    BY <1>5, <2>2 DEF Present, pc
  <2>3. QED
    BY <2>1, <2>2
<1>6. QED
  BY <1>2, <1>4, <1>5 DEF Present, pc

(* What InsertHashData and MergeHashData write and return. *)
LEMMA HashDataCounts ==
    ASSUME IInv, Present, CountsSmall', SubCounts \subseteq 1 .. Max4,
           NEW t \in Thread, InsertHashData(t) \/ MergeHashData(t)
    PROVE  /\ CountsPresent'
           /\ frame'[t].pc = "hash_store"
           /\ frame'[t].count \in 1 .. Half4 - 1
<1> DEFINE call == frame[t].call
           i == frame[t].source_id
           rec == hash_data_store[call.hash]
           l == truncate_block_label(call.label)
<1>1. pc(t) = "hash_data"
  BY DEF InsertHashData, MergeHashData
<1>2. call.hash \in Hash /\ i \in SourceId /\ rec \in Record
  BY <1>1, HashCallFacts
<1>3. rec.type # 0 => find_count(rec) \in 1 .. Half4 - 1
  BY <1>2 DEF Present, CountsPresent
<1> HIDE DEF i, rec, l, call
<1>4. ASSUME NEW new, NEW n,
             hash_data_store' = [hash_data_store EXCEPT ![call.hash] = new],
             frame' = [frame EXCEPT ![t] =
                          [frame[t] EXCEPT !.pc = "hash_store", !.count = n]],
             find_count(new) < Half4 =>
                /\ find_count(new) = n /\ n \in 1 .. Half4 - 1
      PROVE  /\ CountsPresent'
             /\ frame'[t].pc = "hash_store"
             /\ frame'[t].count \in 1 .. Half4 - 1
  <2>1. PICK h : h = call.hash
    OBVIOUS
  <2>2. /\ h \in Hash /\ hash_data_store'[h] = new
        /\ \A g \in Hash \ {h} : hash_data_store'[g] = hash_data_store[g]
    BY <1>2, <1>4, <2>1 DEF IInv, Types
  <2>3. find_count(new) < Half4
    BY <2>2 DEF CountsSmall
  <2>4. find_count(new) = n /\ n \in 1 .. Half4 - 1
    BY <1>4, <2>3
  <2>5. CountsPresent'
    BY <2>2, <2>4 DEF Present, CountsPresent
  <2>6. /\ frame \in [Thread -> Frame]
        /\ frame[t] \in [pc : {"hash_data", "hash_store"},
              call : InsertCall \cup MergeCall,
              source_id : SourceId, is_new_id : BOOLEAN, count : uint64_t]
    BY <1>1, FrameForms DEF IInv, Types
  <2>7. PICK f : f = [frame[t] EXCEPT !.pc = "hash_store", !.count = n]
    OBVIOUS
  <2>8. f.pc = "hash_store" /\ f.count = n
    BY <2>6, <2>7
  <2>9. frame'[t] = f
    BY <1>4, <2>6, <2>7
  <2>10. QED
    BY <2>4, <2>5, <2>8, <2>9
<1>5. CASE InsertHashData(t)
  <2> DEFINE new == InsertRecord(rec, call.k_entropy, l, i)
             n == InsertCount(rec, i)
  <2>1. /\ hash_data_store' = [hash_data_store EXCEPT ![call.hash] = new]
        /\ frame' = [frame EXCEPT ![t] =
                        [frame[t] EXCEPT !.pc = "hash_store", !.count = n]]
    BY <1>5, Zenon DEF InsertHashData, call, rec, i, l
  <2>2. find_count(new) < Half4 =>
           find_count(new) = n /\ n \in 1 .. Half4 - 1
    BY <1>2, <1>3, InsertPresent
  <2> HIDE DEF new, n
  <2>3. QED
    BY <1>4, <2>1, <2>2, Zenon
<1>6. CASE MergeHashData(t)
  <2> DEFINE k == call.sub_count
             new == MergeRecord(rec, call.k_entropy, l, i, k)
             n == MergeCount(rec, i, k)
  <2>1. /\ hash_data_store' = [hash_data_store EXCEPT ![call.hash] = new]
        /\ frame' = [frame EXCEPT ![t] =
                        [frame[t] EXCEPT !.pc = "hash_store", !.count = n]]
        /\ call.op = "merge_hash"
    BY <1>6, Zenon DEF MergeHashData, call, rec, i, l
  <2>2. k \in 1 .. Max4
    <3>1. call \in InsertCall \cup MergeCall
      BY <1>1, FrameForms DEF IInv, call
    <3>2. k \in SubCounts
      BY <2>1, <3>1 DEF InsertCall, MergeCall
    <3>3. QED
      BY <3>2
  <2> HIDE DEF k
  <2>3. find_count(new) < Half4 =>
           find_count(new) = n /\ n \in 1 .. Half4 - 1
    BY <1>2, <1>3, <2>2, MergePresent
  <2> HIDE DEF new, n
  <2>4. QED
    BY <1>4, <2>1, <2>3, Zenon
<1>7. QED
  BY <1>5, <1>6

(* Every step keeps the invariant, as long as the counts are small.        *)
LEMMA StepPresent ==
    ASSUME IInv, Present, CountsSmall', SubCounts \subseteq 1 .. Max4, Next
    PROVE  Present'
<1>1. ASSUME NEW t \in Thread, NEW call \in Call, Enter(t, call)
      PROVE  Present'
  <2>1. /\ frame'[t].pc = "source_id" /\ returned' = returned
        /\ \A u \in Thread \ {t} : frame'[u] = frame[u]
        /\ UNCHANGED <<hash_data_store, hash_store>>
    BY <1>1 DEF Enter, IInv, Types, stores
  <2>2. CountsPresent' /\ BytesPresent' /\ BytesStay
    BY <2>1 DEF Present, CountsPresent, BytesPresent, BytesStay
  <2>3. QED
    BY <2>1, <2>2, PresentMoves
<1>2. ASSUME NEW t \in Thread, InsertSourceId(t)
      PROVE  Present'
  <2>0. PICK call : call = frame[t].call
    OBVIOUS
  <2>1. /\ call \in Call /\ frame'[t].call = call
        /\ \A u \in Thread \ {t} : frame'[u] = frame[u]
    BY <1>2, <2>0, IdFrame
  <2>2. returned' = returned /\ UNCHANGED <<hash_data_store, hash_store>>
    BY <1>2 DEF InsertSourceId
  <2>3. CountsPresent' /\ BytesPresent' /\ BytesStay
    BY <2>2 DEF Present, CountsPresent, BytesPresent, BytesStay
  <2> DEFINE next == [insert_source_name |-> "source_name",
                      insert_source_data |-> "source_data",
                      insert_hash |-> "hash_data",
                      merge_hash |-> "hash_data"]
  <2>4. frame'[t].pc = next[call.op]
    BY <1>2, <2>0, Zenon DEF InsertSourceId, IInv, Types
  <2>5. /\ call.op \in {"insert_source_name", "insert_source_data",
                        "insert_hash", "merge_hash"}
    BY <2>1, CallFile
  <2>6. /\ frame'[t].pc # "hash_store"
        /\ frame'[t].pc = "source_data" => call.op = "insert_source_data"
    BY <2>4, <2>5
  <2>7. CASE call.op = "insert_source_data"
    <3>1. HasByte(call)'
      BY <2>7 DEF HasByte
    <3>2. QED
      BY <2>0, <2>1, <2>2, <2>3, <2>6, <3>1, PresentMoves
  <2>8. CASE call.op # "insert_source_data"
    BY <2>0, <2>1, <2>2, <2>3, <2>6, <2>8, PresentMoves
  <2>9. QED
    BY <2>7, <2>8
<1>3. ASSUME NEW t \in Thread, pc(t) \in HasId, FinishWithBlank(t),
             CountsPresent', BytesPresent', BytesStay,
             NEW call, call = frame[t].call, HasByte(call)'
      PROVE  Present'
  <2>1. /\ Moves(t)
        /\ \/ frame[t].is_new_id /\ frame'[t].pc = "source_data"
           \/ ~frame[t].is_new_id /\ frame'[t] = Idle
    BY <1>3, FinishMoves DEF IInv
  <2>2. returned' \subseteq returned \cup {call}
    BY <1>3 DEF FinishWithBlank, Return
  <2>3. /\ frame'[t].pc = "source_data" => frame'[t].call = call
        /\ frame'[t].pc # "hash_store"
    BY <1>3, <2>1 DEF Moves, Idle
  <2>4. QED
    BY <1>3, <2>1, <2>2, <2>3, PresentMoves DEF Moves
<1>4. ASSUME NEW t \in Thread, InsertSourceName(t)
      PROVE  Present'
  <2>0. PICK call : call = frame[t].call
    OBVIOUS
  <2>1. /\ pc(t) = "source_name" /\ pc(t) \in HasId /\ FinishWithBlank(t)
        /\ UNCHANGED <<hash_data_store, hash_store>>
    BY <1>4 DEF InsertSourceName, HasId
  <2>2. call \in NameCall
    BY <2>0, <2>1, FrameForms DEF IInv
  <2>3. HasByte(call)'
    BY <2>2 DEF NameCall, HasByte
  <2>4. CountsPresent' /\ BytesPresent' /\ BytesStay
    BY <2>1 DEF Present, CountsPresent, BytesPresent, BytesStay
  <2>5. QED
    BY <1>3, <2>0, <2>1, <2>3, <2>4
<1>5. ASSUME NEW t \in Thread, InsertHashData(t) \/ MergeHashData(t)
      PROVE  Present'
  <2>1. UNCHANGED <<hash_store, returned>>
    BY <1>5 DEF InsertHashData, MergeHashData
  <2>2. BytesPresent' /\ BytesStay
    BY <2>1 DEF Present, BytesPresent, BytesStay
  <2>3. /\ CountsPresent' /\ frame'[t].pc = "hash_store"
        /\ frame'[t].count \in 1 .. Half4 - 1
    BY <1>5, HashDataCounts
  <2>4. Moves(t)
    BY <1>5, InsertHashDataStep, MergeHashDataStep, Zenon
  <2>5. QED
    BY <2>1, <2>2, <2>3, <2>4, PresentMoves DEF Moves
<1>6. ASSUME NEW t \in Thread, InsertHashStore(t)
      PROVE  Present'
  <2>0. PICK call, n, p : /\ call = frame[t].call /\ n = frame[t].count
                          /\ p = prefix[call.hash]
    OBVIOUS
  <2>1. /\ pc(t) = "hash_store" /\ pc(t) \in HasId /\ FinishWithBlank(t)
        /\ hash_store' = [hash_store EXCEPT ![p] = count_to_byte(n)]
        /\ UNCHANGED hash_data_store
    BY <1>6, <2>0 DEF InsertHashStore, HasId
  <2>2. call \in InsertCall \cup MergeCall
    BY <2>0, <2>1, FrameForms DEF IInv
  <2>3. call.hash \in Hash /\ p \in Prefix
    BY <2>0, <2>2, ImportAssumption DEF InsertCall, MergeCall
  <2>4. n \in 1 .. Half4 - 1
    BY <2>0, <2>1 DEF Present
  <2>5. PICK b : b = count_to_byte(n)
    OBVIOUS
  <2>6. b # NoByte /\ byte_to_count(b) # 0
    <3>1. n \in Nat /\ 1 <= n /\ n + 5 < Size8
      BY <2>4, WidthAssumption
    <3>2. b # <<>> /\ byte_to_count(b) \in 1 .. n
      BY <2>5, <3>1, PresentReadsPresent
    <3>3. QED
      BY <3>1, <3>2 DEF NoByte
  <2>7. /\ hash_store = [q \in Prefix |-> hash_store[q]]
        /\ \A q \in Prefix : hash_store[q] # NoByte
                                => byte_to_count(hash_store[q]) # 0
    BY DEF Present, BytesPresent
  <2>8. /\ hash_store'[p] = b
        /\ \A q \in Prefix \ {p} : hash_store'[q] = hash_store[q]
        /\ hash_store' = [q \in Prefix |-> hash_store'[q]]
    BY <2>1, <2>3, <2>5, <2>7
  <2>9. BytesPresent' /\ BytesStay
    BY <2>6, <2>7, <2>8 DEF BytesPresent, BytesStay
  <2>10. HasByte(call)'
    BY <2>0, <2>3, <2>6, <2>8 DEF HasByte
  <2>11. CountsPresent'
    BY <2>1 DEF Present, CountsPresent
  <2>12. QED
    BY <1>3, <2>0, <2>1, <2>9, <2>10, <2>11
<1>7. ASSUME NEW t \in Thread, InsertSourceData(t)
      PROVE  Present'
  <2>0. PICK call : call = frame[t].call
    OBVIOUS
  <2>1. /\ pc(t) = "source_data" /\ Return(t)
        /\ UNCHANGED <<hash_data_store, hash_store>>
    BY <1>7, Zenon DEF InsertSourceData
  <2>2. CountsPresent' /\ BytesPresent' /\ BytesStay
    BY <2>1 DEF Present, CountsPresent, BytesPresent, BytesStay
  <2>3. HasByte(call)'
    <3>1. HasByte(call)
      BY <2>0, <2>1 DEF Present
    <3>2. QED
      BY <2>2, <3>1, HasByteStays
  <2>4. /\ Moves(t) /\ frame'[t] = Idle
        /\ returned' = returned \cup {call}
    BY <2>0, <2>1, ReturnMoves DEF IInv, Return
  <2>5. frame'[t].pc = "idle"
    BY <2>4 DEF Idle
  <2>6. QED
    BY <2>0, <2>2, <2>3, <2>4, <2>5, PresentMoves DEF Moves
<1>8. QED
  BY <1>1, <1>2, <1>4, <1>5, <1>6, <1>7 DEF Next, Step

LEMMA InitPresent == Init => Present
BY DEF Init, Present, CountsPresent, BytesPresent, pc, Idle, None

LEMMA StutterPresent == ASSUME Present, UNCHANGED vars PROVE Present'
BY DEF Present, CountsPresent, BytesPresent, HasByte, vars, stores, pc

-----------------------------------------------------------------------------
(* A scan that was promised its hash finds the byte of it, and every such  *)
(* report so far found the hash.                                           *)
Finds ==
    /\ \A s \in Scanner :
          At(s, "hash_store") /\ scan[s].promised.files # {}
              => hash_store[prefix[scan[s].hash]] # NoByte
    /\ \A r \in reports : r.promised.files # {} => r.found

(* A step of s that makes no report. *)
LEMMA OneFinds ==
    ASSUME Finds, NEW s \in Scanner, OthersScan(s),
           UNCHANGED <<reports, vars>>,
           At(s, "hash_store")' /\ scan'[s].promised.files # {}
               => hash_store[prefix[scan'[s].hash]] # NoByte
    PROVE  Finds'
BY DEF Finds, OthersScan, At, vars, stores

(* A reply that finds the hash if it was promised. *)
LEMMA ReplyFinds ==
    ASSUME Scans, Finds, NEW s \in Scanner, UNCHANGED vars,
           NEW found, NEW full, Reply(s, found, full),
           scan[s].promised.files # {} => found
    PROVE  Finds'
<1>1. OthersScan(s) /\ scan'[s] = NoScan
  BY ReplyForm
<1>2. PICK r : /\ reports' = reports \cup {r} /\ IsReport(r, s)
               /\ r.found = found /\ r.full = full
  BY ReplyForm
<1>3. r.promised.files # {} => r.found
  BY <1>2 DEF IsReport
<1>4. \A q \in reports' : q.promised.files # {} => q.found
  BY <1>2, <1>3 DEF Finds
<1>5. UNCHANGED hash_store /\ ~At(s, "hash_store")'
  BY <1>1 DEF vars, stores, At, NoScan
<1>6. QED
  BY <1>1, <1>4, <1>5 DEF Finds, OthersScan, At

(* Every step of a scan keeps Finds. *)
LEMMA StepFinds ==
    ASSUME IInv, Present, Written, Scans, Lists, Finds,
           NEW s \in Scanner, ScanStep(s), UNCHANGED vars
    PROVE  Finds'
<1>0. UNCHANGED <<hash_store, hash_data_store>>
  BY DEF vars, stores
<1>1. ASSUME NEW mode \in Modes, NEW h \in Hash, find_hash_json(s, mode, h)
      PROVE  Finds'
  <2>1. /\ OthersScan(s) /\ UNCHANGED reports /\ scan'[s].hash = h
        /\ scan'[s].promised = [files |-> ReturnedFiles(h),
                                names |-> ReturnedNames]
    BY <1>1, FindForm
  <2>2. scan'[s].promised.files = ReturnedFiles(h)
    BY <2>1
  <2>3. ReturnedFiles(h) # {} => hash_store[prefix[h]] # NoByte
    BY DEF ReturnedFiles, Present, HasByte
  <2>4. QED
    BY <2>1, <2>2, <2>3, OneFinds
<1>2. ASSUME OthersScan(s), UNCHANGED reports, ~At(s, "hash_store")'
      PROVE  Finds'
  BY <1>2, OneFinds
<1>3. CASE FindHashStore(s)
  <2>1. At(s, "hash_store") /\ ~At(s, "idle") /\ scan[s].hash \in Hash
    BY <1>3, HashStoreForm, NotIdle DEF At, InCall
  <2>2. PICK count : count = ApproximateHashCount(scan[s].hash)
    OBVIOUS
  <2>3. scan[s].promised.files # {} => count # 0
    <3> SUFFICES ASSUME scan[s].promised.files # {} PROVE count # 0
      OBVIOUS
    <3>1. PICK b, p : p = prefix[scan[s].hash] /\ b = hash_store[p]
      OBVIOUS
    <3>2. p \in Prefix /\ b # NoByte
      BY <2>1, <3>1, ImportAssumption DEF Finds
    <3>3. byte_to_count(b) # 0
      BY <3>1, <3>2 DEF Present, BytesPresent
    <3>4. QED
      BY <2>2, <3>1, <3>2, <3>3 DEF ApproximateHashCount
  <2>4. \/ Reply(s, count # 0, FALSE)
        \/ To(s, "hash_data") /\ UNCHANGED reports
    BY <1>3, <2>2 DEF FindHashStore
  <2>5. CASE Reply(s, count # 0, FALSE)
    BY <2>3, <2>5, ReplyFinds
  <2>6. CASE To(s, "hash_data") /\ UNCHANGED reports
    BY <1>2, <2>1, <2>6, ToHashData DEF At
  <2>7. QED
    BY <2>4, <2>5, <2>6
<1>4. CASE FindHashData(s)
  <2>1. At(s, "hash_data") /\ ~At(s, "idle") /\ scan[s].hash \in Hash
    BY <1>4, HashDataForm, NotIdle DEF At, InCall
  <2>2. PICK rec : rec = hash_data_store[scan[s].hash]
    OBVIOUS
  <2>3. scan[s].promised.files # {} => rec # None /\ find_count(rec) # 0
    <3> SUFFICES ASSUME scan[s].promised.files # {}
                 PROVE  rec # None /\ find_count(rec) # 0
      OBVIOUS
    <3>1. PICK f \in scan[s].promised.files :
             source_id_store[f] \in Sources(rec)
      BY <2>1, <2>2 DEF Lists, FilesFollow, At
    <3>2. rec.type # 0
      BY <3>1 DEF Sources
    <3>3. find_count(rec) \in 1 .. Half4 - 1
      BY <2>1, <2>2, <3>2 DEF Present, CountsPresent
    <3>4. QED
      BY <3>2, <3>3, WidthAssumption DEF None
  <2>4. \/ Reply(s, find_count(rec) # 0, FALSE)
        \/ rec = None /\ Reply(s, FALSE, FALSE)
        \/ OthersScan(s) /\ At(s, "sources")' /\ UNCHANGED reports
    <3>1. CASE \E found : Reply(s, found, FALSE)
      <4>1. \/ Reply(s, find_count(rec) # 0, FALSE)
            \/ rec = None /\ Reply(s, FALSE, FALSE)
            \/ scan' = [scan EXCEPT ![s].pc = "sources",
                                    ![s].ids = Sources(rec)]
        BY <1>4, <2>2, Zenon DEF FindHashData
      <4>2. scan'[s] = NoScan
        BY <3>1, ReplyForm
      <4>3. scan' # [scan EXCEPT ![s].pc = "sources", ![s].ids = Sources(rec)]
        BY <4>2, <2>1, NotIdle DEF Scans, NoScan, InCall, Form, At
      <4>4. QED
        BY <4>1, <4>3
    <3>2. QED
      BY <1>4, <3>1, HashDataForm
  <2>5. CASE Reply(s, find_count(rec) # 0, FALSE)
    BY <2>3, <2>5, ReplyFinds
  <2>6. CASE rec = None /\ Reply(s, FALSE, FALSE)
    BY <2>3, <2>6, ReplyFinds
  <2>7. CASE OthersScan(s) /\ At(s, "sources")' /\ UNCHANGED reports
    BY <1>2, <2>7 DEF At
  <2>8. QED
    BY <2>4, <2>5, <2>6, <2>7
<1>5. CASE FindSourceData(s)
  BY <1>2, <1>5, SourceForm DEF At
<1>6. CASE ReportHash(s)
  BY <1>2, <1>6, ReportHashForm, ReplyFinds DEF At
<1>7. CASE ReportSource(s) \/ ReadSourceData(s) \/ ReadSourceNames(s)
  BY <1>2, <1>7, ReportSourceForm, ReadDataForm, ReadNamesForm DEF At
<1>8. CASE ReturnReport(s)
  BY <1>8, ReplyFinds DEF ReturnReport
<1>9. QED
  BY <1>1, <1>3, <1>4, <1>5, <1>6, <1>7, <1>8 DEF ScanStep

(* A step of an import, or none. *)
LEMMA ImportFinds ==
    ASSUME Scans, Finds, BytesStay, UNCHANGED scanVars
    PROVE  Finds'
<1>1. UNCHANGED <<scan, reports>>
  BY DEF scanVars
<1>2. ASSUME NEW s \in Scanner, At(s, "hash_store")
      PROVE  prefix[scan[s].hash] \in Prefix
  BY <1>2, NotIdle, ImportAssumption DEF At, InCall
<1>3. QED
  BY <1>1, <1>2 DEF Finds, BytesStay, At

(* Nothing is taken from the hash store. *)
LEMMA StepBytes ==
    ASSUME IInv, Present, Next PROVE BytesStay
<1>1. CASE UNCHANGED hash_store
  BY <1>1 DEF BytesStay
<1>2. ASSUME NEW t \in Thread, InsertHashStore(t) PROVE BytesStay
  <2>1. PICK p, b : /\ p = prefix[frame[t].call.hash]
                    /\ b = count_to_byte(frame[t].count)
    OBVIOUS
  <2>2. hash_store' = [hash_store EXCEPT ![p] = b]
    BY <1>2, <2>1 DEF InsertHashStore
  <2>3. b # NoByte
    BY <2>1 DEF count_to_byte, NoByte
  <2>4. \A q \in Prefix : hash_store'[q] = hash_store[q] \/ hash_store'[q] = b
    BY <2>2 DEF Present, BytesPresent
  <2>5. QED
    BY <2>3, <2>4 DEF BytesStay
<1>3. ASSUME NEW t \in Thread, Step(t), ~InsertHashStore(t)
      PROVE  UNCHANGED hash_store
  BY <1>3 DEF Step, Enter, InsertSourceId, InsertSourceName, InsertHashData,
              MergeHashData, InsertSourceData, stores
<1>4. QED
  BY <1>1, <1>2, <1>3 DEF Next

(***************************************************************************)
(* A scan in any mode finds a hash for which insert_hash or merge_hash had *)
(* returned before the scan began, whatever is written meanwhile and       *)
(* whatever hashes share a prefix, and its report is complete.  It holds   *)
(* as long as no sub_count that is merged is 0 or wider than its 4 bytes   *)
(* and no count reaches 2^31: beyond that the code does hide hashes.       *)
(***************************************************************************)
THEOREM ReturnedWorkIsReported ==
    ASSUME SubCounts \subseteq 1 .. Max4
    PROVE  ScanSpec /\ []CountsSmall => []ReturnedIsReported
<1>1. Init /\ ScanInit => Present /\ Finds
  BY InitScans, InitPresent DEF ScanInit, Finds, At
<1>2. ASSUME StoresInv, Scans, Lists, Present, Finds, CountsSmall',
             [ScanNext]_allVars
      PROVE  Present' /\ Finds'
  <2>1. CASE Scanning
    BY <1>2, <2>1, StutterPresent, StepFinds DEF Scanning, StoresInv
  <2>2. CASE Importing
    <3>1. BytesStay /\ Present'
      BY <1>2, <2>2, StepBytes, StepPresent DEF Importing, StoresInv
    <3>2. QED
      BY <1>2, <2>2, <3>1, ImportFinds DEF Importing
  <2>3. CASE UNCHANGED allVars
    <3>1. UNCHANGED scanVars /\ UNCHANGED vars /\ BytesStay
      BY <2>3 DEF allVars, vars, stores, BytesStay
    <3>2. QED
      BY <1>2, <3>1, StutterPresent, ImportFinds
  <2>4. QED
    BY <1>2, <2>1, <2>2, <2>3 DEF ScanNext
<1>3. Lists /\ Finds => ReturnedIsReported
  BY DEF Lists, Finds, ReturnedIsReported
<1>4. QED
  BY <1>1, <1>2, <1>3, StoresInvariance, ListsInvariance, PTL DEF ScanSpec
=============================================================================
