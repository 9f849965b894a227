------------------------------ MODULE Transfer ------------------------------
(***************************************************************************)
(* Databases written and read as a whole by one process: JSON export and   *)
(* import, tab import, scan_list, and the statistics commands, over the    *)
(* records of the hash data store.                                         *)
(*                                                                         *)
(* A database is its stores between two calls: the record of every hash,   *)
(* the file hashes in the order of their source IDs, and the data and the  *)
(* names of every source (NoData: the source has no source data).  A block *)
(* hash or file hash that is not valid hexadecimal is BadHash, the empty   *)
(* string.                                                                 *)
(***************************************************************************)
EXTENDS HashRecords, SequencesExt, FiniteSetsExt

CONSTANTS
    Hash,      \* block hashes, numbers in the order of the keys
    File,      \* file hashes, numbers in their order
    BadHash,   \* what hex_to_bin makes of an invalid string
    NoData, Blank

EmptyDatabase ==
    [record |-> [h \in Hash |-> None], ids |-> <<>>,
     data |-> [f \in File |-> NoData], names |-> [f \in File |-> {}]]

HasId(db, f) == \E id \in DOMAIN db.ids : db.ids[id] = f

IdOf(db, f) == CHOOSE id \in DOMAIN db.ids : db.ids[id] = f

(* lmdb_source_id_manager_t::insert *)
WithId(db, f) == IF HasId(db, f) THEN db ELSE [db EXCEPT !.ids = Append(@, f)]

(* The blank source data record of a source whose ID is new, written last. *)
WithBlank(new, db, f) == IF new THEN [db EXCEPT !.data[f] = Blank] ELSE db

-----------------------------------------------------------------------------
(* The import manager.                                                     *)

insert_source_name(db, f, name) ==
    IF f = BadHash THEN db
    ELSE WithBlank(~HasId(db, f),
                   [WithId(db, f) EXCEPT !.names[f] = @ \cup {name}], f)

insert_source_data(db, f, data) ==
    IF f = BadHash THEN db ELSE [WithId(db, f) EXCEPT !.data[f] = data]

insert_hash(db, h, k_entropy, label, f) ==
    IF BadHash \in {h, f} THEN db
    ELSE LET with == WithId(db, f)
         IN WithBlank(~HasId(db, f),
                      [with EXCEPT !.record[h] =
                          InsertRecord(@, k_entropy,
                                       truncate_block_label(label),
                                       IdOf(with, f))],
                      f)

merge_hash(db, h, k_entropy, label, f, sub_count) ==
    IF BadHash \in {h, f} THEN db
    ELSE LET with == WithId(db, f)
         IN WithBlank(~HasId(db, f),
                      [with EXCEPT !.record[h] =
                          MergeRecord(@, k_entropy,
                                      truncate_block_label(label),
                                      IdOf(with, f), sub_count)],
                      f)

-----------------------------------------------------------------------------
(* The scan manager.                                                       *)

(* A hash whose count is 0 has approximate count 0 in the hash store, which *)
(* find_hash takes for "not present".                                      *)
find_hash(db, h) == find_count(db.record[h]) # 0

(* The (file hash, sub_count) pairs, in the order of the file hashes. *)
source_sub_counts(db, h) ==
    LET files == {db.ids[id] : id \in Sources(db.record[h])}
        order == SetToSortSeq(files, <)
    IN [i \in DOMAIN order |->
            <<order[i], SubCount(db.record[h], IdOf(db, order[i]))>>]

(* The keys of the hash data store, in order: first_hash, next_hash. *)
HashesOf(db) == SetToSortSeq({h \in Hash : db.record[h] # None}, <)

(* first_source, next_source *)
SourcesOf(db) == SetToSortSeq({db.ids[id] : id \in DOMAIN db.ids}, <)

-----------------------------------------------------------------------------
(* JSON documents: what the text of a line says.  A document has the       *)
(* fields that the object has.  Wrong stands for a value of another type   *)
(* than the field wants, and Half for a value that an array holds alone    *)
(* after its pairs.                                                        *)

Wrong == -1

WrongLabel == <<"wrong", "type">>

Half == -2

Ok(db) == [db |-> db, error |-> FALSE, aborts |-> FALSE]

Error(db) == [db |-> db, error |-> TRUE, aborts |-> FALSE]

Aborts(db) == [db |-> db, error |-> TRUE, aborts |-> TRUE]

export_hash_json(db, h) ==
    [block_hash |-> h, k_entropy |-> db.record[h].k_entropy,
     block_label |-> db.record[h].block_label,
     source_sub_counts |-> source_sub_counts(db, h)]

(* Source data that is not there reads as blank. *)
export_source_json(db, f) ==
    [file_hash |-> f,
     source_data |-> IF db.data[f] = NoData THEN Blank ELSE db.data[f],
     name_pairs |-> SetToSortSeq(db.names[f], <)]

(* An optional field that is there must have the type it wants. *)
Optional(doc, field, default) ==
    IF field \in DOMAIN doc THEN doc[field] ELSE default

(* A faulty variant of the next definition. *)
import_pair_Inserts(doc, label, state, pair) ==
    IF state.error \/ pair = <<Half>> THEN state
    ELSE IF Wrong \in {pair[1], pair[2]} THEN Error(state.db)
    ELSE Ok(insert_hash(state.db, doc.block_hash,
                        Optional(doc, "k_entropy", 0), label, pair[1]))

(* One pair of source_sub_counts: the pairs before an invalid one are      *)
(* merged, and a single last value is not looked at.                       *)
import_pair(doc, label, state, pair) ==
    IF state.error \/ pair = <<Half>> THEN state
    ELSE IF Wrong \in {pair[1], pair[2]} THEN Error(state.db)
    ELSE Ok(merge_hash(state.db, doc.block_hash,
                       Optional(doc, "k_entropy", 0), label, pair[1],
                       pair[2]))

import_hash_json(db, doc) ==
    LET label == Optional(doc, "block_label", <<>>)
    IN IF \/ doc.block_hash = Wrong
          \/ Optional(doc, "k_entropy", 0) = Wrong
          \/ "source_sub_counts" \notin DOMAIN doc
          \/ label = WrongLabel
       THEN Error(db)
       ELSE FoldLeft(LAMBDA state, pair :
                         import_pair(doc, label, state, pair),
                     Ok(db), doc.source_sub_counts)

(* Nothing is inserted before every field is read.  A file name that is    *)
(* missing at the end of name_pairs is read beyond the array, which the    *)
(* JSON library asserts against.                                           *)
import_source_json(db, doc) ==
    IF \/ doc.file_hash = Wrong
       \/ Optional(doc, "source_data", Wrong) = Wrong
       \/ "name_pairs" \notin DOMAIN doc
    THEN Error(db)
    ELSE IF Wrong \in ToSet(doc.name_pairs) THEN Error(db)
    ELSE IF Half \in ToSet(doc.name_pairs) THEN Aborts(db)
    ELSE Ok(FoldLeft(LAMBDA d, name :
                         insert_source_name(d, doc.file_hash, name),
                     insert_source_data(db, doc.file_hash, doc.source_data),
                     SetToSortSeq(ToSet(doc.name_pairs), <)))

import_json(db, doc) ==
    IF "block_hash" \in DOMAIN doc THEN import_hash_json(db, doc)
    ELSE IF "file_hash" \in DOMAIN doc THEN import_source_json(db, doc)
    ELSE Error(db)

(* The command: the lines of the file in turn, the invalid ones reported   *)
(* on the way.  imported counts the lines that are not.                    *)
ImportLines(db, lines) ==
    FoldLeft(LAMBDA state, doc :
                 LET got == import_json(state.db, doc)
                 IN IF state.aborts THEN state
                    ELSE [db |-> got.db, aborts |-> got.aborts,
                          imported |-> IF got.error THEN state.imported
                                       ELSE state.imported + 1],
             [db |-> db, aborts |-> FALSE, imported |-> 0], lines)

(* export_json_hashes asserts that every hash of the hash data store is    *)
(* found.                                                                  *)
ExportAborts(db) == \E h \in ToSet(HashesOf(db)) : ~find_hash(db, h)

export_json_sources(db) ==
    [i \in DOMAIN SourcesOf(db) |-> export_source_json(db, SourcesOf(db)[i])]

export_json(db) ==
    [i \in DOMAIN HashesOf(db) |-> export_hash_json(db, HashesOf(db)[i])]
        \o export_json_sources(db)

(* The hashes from begin to end and the sources they cite.  The loop keeps *)
(* the sub_counts of a hash that is out of range only for its progress.    *)
(* A faulty variant of the next definition. *)
export_json_range_AllSources(db, begin, end) ==
    LET hashes == SelectSeq(HashesOf(db), LAMBDA h : h >= begin /\ h <= end)
    IN [i \in DOMAIN hashes |-> export_hash_json(db, hashes[i])]
           \o export_json_sources(db)

export_json_range(db, begin, end) ==
    LET hashes == SelectSeq(HashesOf(db), LAMBDA h : h >= begin /\ h <= end)
        cited  == {db.ids[id] : id \in
                      UNION {Sources(db.record[h]) : h \in ToSet(hashes)}}
        files  == SetToSortSeq(cited, <)
    IN [i \in DOMAIN hashes |-> export_hash_json(db, hashes[i])]
           \o [i \in DOMAIN files |-> export_source_json(db, files[i])]

-----------------------------------------------------------------------------
(* Tab files: lines of a file hash and a block hash.  Lines without two    *)
(* tabs, comments and empty lines are skipped before anything is looked    *)
(* up; a source that the database had before the file is skipped too.      *)

NoTabs == <<>>

(* A faulty variant of the next definition. *)
import_tab_line_Rejects(name, whitelist, state, line) ==
    IF line = NoTabs \/ line[1] = BadHash \/ HasId(state.db, line[1])
    THEN state
    ELSE [db |-> insert_hash(
                     insert_source_name(
                         insert_source_data(state.db, line[1], Blank),
                         line[1], name),
                     line[2], 0, <<>>, line[1]),
          importable |-> state.importable \cup {line[1]}]

import_tab_line(name, whitelist, state, line) ==
    IF \/ line = NoTabs
       \/ line[1] = BadHash
       \/ line[1] \notin state.importable /\ HasId(state.db, line[1])
    THEN state
    ELSE LET importable == state.importable \cup {line[1]}
         IN IF line[2] = BadHash
            THEN [state EXCEPT !.importable = importable]
            ELSE [db |-> insert_hash(
                             insert_source_name(
                                 insert_source_data(state.db, line[1], Blank),
                                 line[1], name),
                             line[2], 0,
                             IF line[2] \in whitelist THEN <<"w">> ELSE <<>>,
                             line[1]),
                  importable |-> importable]

import_tab(db, name, whitelist, lines) ==
    FoldLeft(LAMBDA state, line :
                 import_tab_line(name, whitelist, state, line),
             [db |-> db, importable |-> {}], lines).db

-----------------------------------------------------------------------------
(* Reading commands.                                                       *)

(* scan_list: the lines that match, with the label of each. *)
scan_list(db, lines) ==
    SelectSeq(lines, LAMBDA line :
        line # NoTabs /\ line[2] # BadHash /\ find_hash(db, line[2]))

(* histogram, one step per hash: the totals and how many hashes have each  *)
(* count.  The keys of the histogram are of 4 bytes.                       *)
(* A faulty variant of the next definition. *)
histogram_step_Restarts(h, count) ==
    [total_hashes |-> h.total_hashes + count,
     total_distinct_hashes |->
         h.total_distinct_hashes + (IF count = 1 THEN 1 ELSE 0),
     hash_histogram |-> [c \in DOMAIN h.hash_histogram \cup {count} |->
         IF c = count THEN 1 ELSE h.hash_histogram[c]]]

histogram_step(h, count) ==
    LET key == count % (2 * Half4)
    IN [total_hashes |-> Plus64(h.total_hashes, count),
        total_distinct_hashes |->
            h.total_distinct_hashes + (IF count = 1 THEN 1 ELSE 0),
        hash_histogram |-> [c \in DOMAIN h.hash_histogram \cup {key} |->
            IF c \notin DOMAIN h.hash_histogram THEN 1
            ELSE IF c = key THEN h.hash_histogram[c] + 1
            ELSE h.hash_histogram[c]]]

histogram(db) ==
    FoldLeft(LAMBDA state, h : histogram_step(state, find_count(db.record[h])),
             [total_hashes |-> 0, total_distinct_hashes |-> 0,
              hash_histogram |-> [c \in {} |-> 0]], HashesOf(db))

(* The hashes that duplicates lists for a count. *)
duplicates(db, number) ==
    SelectSeq(HashesOf(db), LAMBDA h : find_count(db.record[h]) = number)

(* The hashes that hash_table lists for a source. *)
hash_table(db, f) ==
    SelectSeq(HashesOf(db), LAMBDA h :
        /\ db.data[f] # NoData
        /\ find_hash(db, h)
        /\ \E pair \in ToSet(source_sub_counts(db, h)) : pair[1] = f)
=============================================================================
