---------------------------- MODULE MCAlgorithms ----------------------------
(***************************************************************************)
(* The computations of hashdb that have no steps of their own, each on     *)
(* every input of a small set: a state is one input, and after one step    *)
(* what is computed from it.                                               *)
(***************************************************************************)
EXTENDS Media, FileList, BlockFacts, Midl, Transfer, ApproximateCount

CONSTANTS
    Pieces,    \* what media are put together from: sequences of cells
    MaxPieces, MaxEntries, MaxWords, MaxIds, MaxOps, MaxLines, MaxCount

VARIABLES
    input,     \* the input, and in its field about what it is for
    result     \* what is computed from it

NotYet == [done |-> FALSE]

(***************************************************************************)
(* Streams: a zip with a gzip in it; a zip that declares less than it has, *)
(* with a gzip in it; one that is too small to be uncompressed; one that   *)
(* declares nothing; a gzip; a gzip that is longer than read_media reads;  *)
(* and a gzip of itself.                                                   *)
(***************************************************************************)
ZipStream(compr, uncompr, real, body) ==
    [kind |-> "zip", compr |-> compr, uncompr |-> uncompr, name |-> 1,
     real |-> real, body |-> body]

GzipStream(real, body) ==
    [kind |-> "gzip", compr |-> 0, uncompr |-> 0, name |-> 0,
     real |-> real, body |-> body]

MCStreams ==
    10 :> ZipStream(1, 5, 1, <<1, 20, 1, 0, 2>>)
    @@ 11 :> ZipStream(9, 3, 2, <<20, 1, 3, 4, 5>>)
    @@ 12 :> ZipStream(1, 1, 1, <<7>>)
    @@ 13 :> ZipStream(0, 0, 3, <<0, 0, 0, 3, 0, 4>>)
    @@ 20 :> GzipStream(1, <<0, 3, 0>>)
    @@ 21 :> GzipStream(4, <<4, 5, 0, 6>>)
    @@ 22 :> GzipStream(1, <<22, 1>>)

MCPieces ==
    {<<0, 0, 0>>, <<5, 6>>, <<10, 8, 8>>, <<11, 8, 8, 8>>, <<12, 8, 8>>,
     <<13, 8, 8, 8, 8>>, <<20, 9>>, <<21, 9, 9, 9, 9>>, <<22, 9>>}

MCLabel == {<<>>, <<"a">>, <<"b", "b", "b">>, <<"w">>}

(***************************************************************************)
(* Media: pieces in any order, a last cell that may be cut off, files and  *)
(* devices, and a read that may fail.  A device has sectors: one of a      *)
(* single byte, which would read as empty, is left out.                    *)
(***************************************************************************)
MediaInput ==
    \E pieces \in BoundedSeq(Pieces, MaxPieces) :
    \E cut \in 0 .. 1, device \in BOOLEAN, step \in {1, 2, 3, 4},
       good_reads \in {1, 100} :
        LET cells == FlattenSeq(pieces)
            kept  == Cells(cells, 0, Len(cells) - cut)
        IN /\ cut <= Len(cells)
           /\ device => Len(kept) > 1
           /\ input = [about |-> "media", device |-> device, step |-> step,
                       cells |-> kept, good_reads |-> good_reads]

ScanMedia ==
    /\ input.about = "media" /\ result = NotYet
    /\ \E size \in {get_filesize(input)} :
       \E jobs \in {scan_file(input, size, input.good_reads)} :
           result' = [done |-> TRUE, size |-> size, jobs |-> jobs,
                      visits |-> scan_media(jobs, input.step, TRUE)]

(***************************************************************************)
(* Trees: a directory with a subdirectory, node 1, links to nodes and back *)
(* to the top, and the parts of an image, in any order.                    *)
(***************************************************************************)
Name(ext, part) == <<"x", ext, part>>

Entry(name, node) == [name |-> name, node |-> node]

Links ==
    {<<>>, <<Entry(Name("b", 1), 2)>>,
     <<Entry(Name("b", 1), 0), Entry(Name("E", 2), 4)>>,
     <<Entry(Name("E", 1), 4), Entry(Name("E", 2), 3)>>}

TreeInput ==
    \E ext \in {"E", "e"}, third \in {"file", "special", "broken"},
       sub \in {"dir", "locked", "vanishing"}, links \in Links,
       root \in {"dir", "file"} :
    \E names \in BoundedSeq({Name(ext, 1), Name(ext, 2), Name(ext, 3),
                             Name("a", 1)}, MaxEntries) :
    \E nodes \in [DOMAIN names -> 1 .. 4] :
        /\ IsInjective(names)
        /\ sub # "dir" => links = <<>>
        /\ root = "file" => names = <<>>
        /\ input =
               [about |-> "tree",
                kind |-> [n \in 0 .. 4 |-> IF n = 0 THEN root
                                           ELSE IF n = 1 THEN sub
                                           ELSE IF n = 3 THEN third
                                           ELSE "file"],
                entries |-> [n \in 0 .. 4 |->
                    IF n = 0 THEN [k \in DOMAIN names |->
                                      Entry(names[k], nodes[k])]
                    ELSE IF n = 1 THEN links ELSE <<>>]]

ListFiles ==
    /\ input.about = "tree" /\ result = NotYet
    /\ \E list \in {filename_list(input)} :
           result' = [done |-> TRUE, error |-> list.error,
                      files |-> list.files]

(***************************************************************************)
(* Blocks: a ramp of words, then a word repeated, cut off at the end of a  *)
(* buffer.  MCEntropyTable is -p * log2(p) for p = 1/16, ..., 16/16.       *)
(***************************************************************************)
MCEntropyTable ==
    <<250000, 375000, 452820, 500000, 524397, 530639, 521782, 500000,
      466917, 423795, 371641, 311278, 243393, 168564, 87290, 0>>

BlockInput ==
    \E first \in {0, 9, 32}, step \in -1 .. 1, n \in 0 .. MaxWords,
       second \in {0, 9, 32}, upper \in {0, 32}, cut \in {0, 1, 4, 9, 31} :
        LET word(k) == IF k < n THEN (first + k * step) % 256 ELSE second
            bytes   == [b \in 1 .. BlockBytes |->
                           IF b % 4 = 1 THEN word(b \div 4) ELSE upper]
        IN input = [about |-> "block",
                    bytes |-> SubSeq(bytes, 1, BlockBytes - cut)]

DescribeBlock ==
    /\ input.about = "block" /\ result = NotYet
    /\ result' = [done |-> TRUE, k_entropy |-> calculate(input.bytes),
                  label |-> calculate_block_label(input.bytes)]

(* ID lists: two lists of any order, one of them without repetition. *)
IdInput ==
    \E ids \in BoundedSeq(1 .. 3, MaxIds), more \in SUBSET (1 .. 4) :
        input = [about |-> "ids", ids |-> ids,
                 more |-> SetToSortSeq(more, >)]

SortIds ==
    /\ input.about = "ids" /\ result = NotYet
    /\ \E sorted \in {mdb_midl_sort(input.ids)} :
           result' = [done |-> TRUE, sorted |-> sorted,
                      merged |-> mdb_midl_xmerge(sorted, input.more)]

(***************************************************************************)
(* Databases: what a few calls of the import manager make of an empty one. *)
(***************************************************************************)
Call(db, op) ==
    CASE op[1] = "insert" -> insert_hash(db, op[2], 0, <<"a">>, op[3])
      [] op[1] = "merge"  -> merge_hash(db, op[2], 1, <<"b", "b", "b">>,
                                        op[3], op[4])
      [] op[1] = "data"   -> insert_source_data(db, op[2], op[3])
      [] op[1] = "name"   -> insert_source_name(db, op[2], op[3])

Calls ==
    {<<"insert", h, f>> : h \in Hash, f \in File}
    \cup {<<"merge", h, f, n>> : h \in Hash, f \in File, n \in {0, 2, 5}}
    \cup {<<"data", f, 7>> : f \in File}
    \cup {<<"name", f, n>> : f \in File, n \in {1, 2}}

DatabaseInput ==
    \E calls \in BoundedSeq(Calls, MaxOps) :
        input = [about |-> "database", calls |-> calls]

Transfers ==
    /\ input.about = "database" /\ result = NotYet
    /\ \E db \in {FoldLeft(Call, EmptyDatabase, input.calls)} :
           result' =
               [done |-> TRUE, db |-> db,
                copy |-> ImportLines(EmptyDatabase, export_json(db)),
                again |-> ImportLines(db, export_json(db)),
                range |-> ImportLines(EmptyDatabase,
                                      export_json_range(db, 2, 2))]

(* Documents, valid and not, in a JSON file. *)
Documents ==
    {[block_hash |-> 1, source_sub_counts |-> pairs] :
        pairs \in {<<>>, <<<<1, 2>>, <<2, 1>>>>, <<<<1, 2>>, <<2, Wrong>>>>,
                   <<<<1, 2>>, <<Half>>>>, <<<<BadHash, 2>>, <<2, 2>>>>}}
    \cup {[block_hash |-> h, k_entropy |-> e,
            source_sub_counts |-> <<<<1, 2>>>>] :
              h \in {Wrong, BadHash, 2}, e \in {Wrong, 5}}
    \cup {[block_hash |-> 1, block_label |-> label,
            source_sub_counts |-> <<<<1, 2>>>>] :
              label \in {WrongLabel, <<"a">>}}
    \cup {[block_hash |-> 1], [k_entropy |-> 5],
          [file_hash |-> 1, name_pairs |-> <<1>>]}
    \cup {[file_hash |-> f, source_data |-> 7, name_pairs |-> names] :
            f \in {Wrong, BadHash, 1, 2},
            names \in {<<>>, <<2, 1>>, <<1, Wrong>>, <<1, Half>>}}

DocumentInput ==
    \E lines \in BoundedSeq(Documents, MaxLines) :
        input = [about |-> "documents", lines |-> lines]

ImportDocuments ==
    /\ input.about = "documents" /\ result = NotYet
    /\ \E got \in {ImportLines(EmptyDatabase, input.lines)} :
           result' = [done |-> TRUE, db |-> got.db, got |-> got]

(* Tab files, into a database that has source 1. *)
TabInput ==
    \E lines \in BoundedSeq((0 .. 2) \X {BadHash, 1, 2} \cup {NoTabs},
                            MaxLines + 1) :
    \E known \in BOOLEAN :
        input = [about |-> "tab", lines |-> lines,
                 before |-> IF known
                            THEN insert_hash(EmptyDatabase, 1, 0, <<>>, 1)
                            ELSE EmptyDatabase]

ImportTab ==
    /\ input.about = "tab" /\ result = NotYet
    /\ \E db \in {import_tab(input.before, 1, {2}, input.lines)} :
           result' = [done |-> TRUE, db |-> db,
                      again |-> import_tab(db, 1, {2}, input.lines)]

(* Counts of the hash store. *)
CountInput ==
    \E count \in 0 .. MaxCount : input = [about |-> "count", count |-> count]

Count ==
    /\ input.about = "count" /\ result = NotYet
    /\ result' = [done |-> TRUE, byte |-> count_to_byte(input.count),
                  next |-> Approximate(input.count + 1),
                  count |-> Approximate(input.count)]

Init ==
    /\ result = NotYet
    /\ \/ MediaInput
       \/ TreeInput
       \/ BlockInput
       \/ IdInput
       \/ DatabaseInput
       \/ DocumentInput
       \/ TabInput
       \/ CountInput

Next ==
    /\ UNCHANGED input
    /\ \/ ScanMedia
       \/ ListFiles
       \/ DescribeBlock
       \/ SortIds
       \/ Transfers
       \/ ImportDocuments
       \/ ImportTab
       \/ Count

Spec == Init /\ [][Next]_<<input, result>>

Computed(about) == input.about = about /\ result.done

-----------------------------------------------------------------------------
(* Media.                                                                  *)

Percents(jobs, order) ==
    TrackJobs(Len(input.cells), jobs, order, Len(jobs)).percents

Top(visits) == SelectSeq(visits, LAMBDA v : Len(v.path) = 1)

(* Where the block after the one at offset o is looked for: a step further *)
(* or, if that comes first, at the start of the data of the next buffer.   *)
NextOffset(o) ==
    Least(o + input.step, (o \div DataSize + 1) * DataSize)

(* The blocks are in order, with none left out before offset end.          *)
EveryBlock(visits, end) ==
    /\ visits = <<>> <=> end = 0
    /\ \A k \in DOMAIN visits :
          LET o == visits[k].path[1]
          IN /\ k = 1 => o = 0
             /\ o < end
             /\ IF k = Len(visits) THEN NextOffset(o) >= end
                ELSE visits[k + 1].path[1] = NextOffset(o)
             /\ visits[k].block = Block(input.cells, o)

(***************************************************************************)
(* A scan looks at every block of the medium once, whole, and in order     *)
(* (scan_media.cpp:77), although blocks lie across the ends of the buffers *)
(* and a device does not tell its size (file_reader_helper.cpp:119); with  *)
(* a step that does not divide BUFFER_DATA_SIZE the steps begin anew at    *)
(* each buffer (process_job.cpp:126).  A read that fails loses only what   *)
(* comes after it.  Whatever is found in compressed data has a path of its *)
(* own.                                                                    *)
(*                                                                         *)
(* Every block of zeros is left out, and no block is in which a byte after *)
(* the first differs from zero.  The property takes no side on a block     *)
(* whose first byte alone differs from zero.  The code leaves it out,      *)
(* because all_zero begins at the second byte (process_job.cpp:67), while  *)
(* its comments say "detect if block is all zero" (:60) and "skip if all   *)
(* the bytes are the same" (:128, :195), and the manual says that the      *)
(* blocks "consisting completely of the 0 byte" are skipped                *)
(* (hashdb_um.tex:445).                                                    *)
(*                                                                         *)
(* In whatever order the buffers are done, the percentages grow and the    *)
(* last is 100 (scan_tracker.hpp:96).  The file hash that ingest names a   *)
(* source by is of every byte of the file in order (ingest.cpp:112), and   *)
(* no buffer keeps what was in it because its read is taken for a          *)
(* repetition of the read before (file_reader.hpp:173).                    *)
(***************************************************************************)
ScanCoversMedia ==
    Computed("media") =>
        LET size  == Len(input.cells)
            fine  == NumBuffers(size) <= input.good_reads
            end   == IF fine THEN size ELSE input.good_reads * DataSize
            reads == HashReads(size) \o JobReads(size)
        IN /\ result.size = size
           /\ EveryBlock(Top(result.visits), end)
           /\ \A j, k \in DOMAIN result.visits :
                  result.visits[j].path = result.visits[k].path => j = k
           /\ \A v \in ToSet(result.visits) :
                  /\ (\A k \in 1 .. BlockSize : v.block[k] = 0) => v.zero
                  /\ v.zero => \A k \in 2 .. BlockSize : v.block[k] = 0
           /\ fine /\ size > 0 =>
                  \A order \in Permutations(DOMAIN result.jobs) :
                      \E percents \in {Percents(result.jobs, order)} :
                          /\ Last(percents) = 100
                          /\ \A j, k \in DOMAIN percents :
                                 j <= k => percents[j] <= percents[k]
           /\ HashedCells(input, size) = input.cells
           /\ \A n \in DOMAIN reads : ~ServedFromCache(reads, n)

(* The compressed data of the stream that a path starts with are within    *)
(* what read_media reads of the medium.                                    *)
WithinRead(v) ==
    \/ Len(v.path) = 1
    \/ LET stream == Streams[Cell(input.cells, v.path[1])]
       IN IF stream.kind = "gzip"
          THEN GzipHeader + stream.real <= RawSize
          ELSE ZipHeader + stream.name + stream.real <= RawSize

(***************************************************************************)
(* What read_media reads at a path that a scan prints (read_media.cpp:70)  *)
(* is the block that was hashed, up to the zeros that fill it at the end   *)
(* of its buffer; when the compressed data are longer than read_media      *)
(* reads (read_media.cpp:100), it is the first part of the block.          *)
(***************************************************************************)
ReadBack ==
    Computed("media") =>
        \A v \in ToSet(result.visits) :
            \E got \in {read_media(input, v.path, BlockSize)} :
                /\ WithinRead(v) => got.ok
                /\ Len(got.out) <= BlockSize
                /\ \A k \in 1 .. BlockSize :
                       IF k <= Len(got.out) THEN got.out[k] = v.block[k]
                       ELSE WithinRead(v) => v.block[k] = 0

-----------------------------------------------------------------------------
(* Files.                                                                  *)

Reached(tree) ==
    FoldLeft(LAMBDA S, i :
                 S \cup {entry.node : entry \in
                            UNION {ToSet(tree.entries[n]) : n \in S}},
             {0}, <<1, 2, 3, 4, 5>>)

Wanted(tree) ==
    {n \in Reached(tree) : tree.kind[n] \in {"file", "locked"}}

(***************************************************************************)
(* Whatever hard and symbolic links there are, and in whatever order       *)
(* directories are read, every file below a directory is listed, and no    *)
(* file twice (filename_list.cpp:339); the parts of an image are read with *)
(* its first part and not on their own (filename_list.cpp:71).  The parts  *)
(* after a first named x.e01 are struck from the list as well, but the     *)
(* reader does not read them (file_reader.hpp:77).  An error is returned   *)
(* only when a directory could not be opened again.                        *)
(***************************************************************************)
FilesAreListedOnce ==
    Computed("tree") =>
        LET files == result.files
            firsts == {f \in files : f # <<>> /\ is_multipart(Last(f))}
        IN IF result.error
           THEN \E n \in Reached(input) : input.kind[n] = "vanishing"
           ELSE IF input.kind[0] = "file"
           THEN files = {<<>>}
           ELSE /\ \A f, g \in files :
                       NodeOf(input, f) = NodeOf(input, g) => f = g
                /\ {NodeOf(input, f) : f \in files} \subseteq Wanted(input)
                /\ \A n \in Wanted(input) :
                       \E f \in files :
                           \/ n \in ReadNodes(input, f)
                           \/ /\ f \in firsts /\ Last(f)[2] = "e"
                              /\ n \in ewf_nodes(input, f)
                /\ \A f \in firsts : Part(f, 2) \notin files

-----------------------------------------------------------------------------
(* Blocks.                                                                 *)

(***************************************************************************)
(* The label of a block that is cut off at the end of a file is the label  *)
(* of the zero-extended block that is hashed (calculate_block_label.cpp:   *)
(* 146), and a block of one repeated element, and no other, has entropy    *)
(* zero and is labelled as such.                                           *)
(***************************************************************************)
BlocksAreDescribed ==
    Computed("block") =>
        LET block == Padded(input.bytes)
            same  == \A i \in 1 .. Slots : Element(block, i) =
                                             Element(block, 1)
        IN /\ result.label = calculate_block_label_private(block)
           /\ result.k_entropy = 0 <=> same
           /\ same => {"H", "M"} \subseteq result.label

(***************************************************************************)
(* Blocks with the same bytes after zero-extension, which have the same    *)
(* block hash, have the same entropy (entropy_calculator.hpp:88: "Returns  *)
(* entropy * 1,000 as an int for 3 decimal precision.").  A block that is  *)
(* cut off is scaled twice (entropy_calculator.hpp:107).                   *)
(***************************************************************************)
EqualBlocksAgree ==
    Computed("block") =>
        result.k_entropy = calculate_private(Padded(input.bytes))

-----------------------------------------------------------------------------
(* ID lists.                                                               *)

Fits(list) == Len(list.ids) <= list.room

InOrder(S) == SetToSortSeq(S, <)

(***************************************************************************)
(* The ID lists of liblmdb: sorting gives the IDs in descending order for  *)
(* every list that is longer and shorter than the sort's limits            *)
(* (midl.c:220); merging keeps that order and every ID (midl.c:200); a     *)
(* search finds an ID or its place (midl.c:33); no list grows beyond the   *)
(* room it has (midl.c:142); and the dirty list has its IDs in ascending    *)
(* order, once, and refuses more than it holds (midl.c:331).               *)
(***************************************************************************)
IdListsWork ==
    Computed("ids") =>
        LET ids == input.ids
        IN /\ result.sorted = SortSeq(ids, >)
           /\ result.merged = SortSeq(ids \o input.more, >)
           /\ \A id \in 0 .. 5 :
                  \E x \in {mdb_midl_search(result.sorted, id)} :
                      IF id \in ToSet(ids) THEN result.sorted[x] = id
                      ELSE x = Len(SelectSeq(ids, LAMBDA y : y > id)) + 1
           /\ \A id \in 0 .. 5 :
                  LET more == ToSet(input.more)
                      list == mdb_mid2l_insert(InOrder(more), id)
                  IN IF id \in more \/ Cardinality(more) >= UmMax
                     THEN list = <<Refused>>
                     ELSE list = InOrder(more \cup {id})
           /\ \A room \in Len(ids) .. Len(ids) + 2 :
                  LET list == Idl(ids, room)
                  IN /\ Fits(mdb_midl_append(list, 1))
                     /\ Fits(mdb_midl_append_list(list, input.more))
                     /\ Fits(mdb_midl_append_range(list, 1, 2))
                     /\ Fits(mdb_midl_append(
                                 mdb_midl_shrink(Idl(<<>>, room)), 1))
                     /\ mdb_midl_need(list, 3).room >= Len(ids) + 3

-----------------------------------------------------------------------------
(* Databases.                                                              *)

(* What db says of a hash, whatever the IDs are. *)
About(db, h) ==
    [about |-> AboutOf(db.record[h]), pairs |-> source_sub_counts(db, h)]

SourceAbout(db, f) ==
    [known |-> HasId(db, f), data |-> db.data[f], names |-> db.names[f]]

Clipped(db, h) ==
    \E pair \in ToSet(source_sub_counts(db, h)) : pair[2] = Max2

SameHash(copy, db, h) ==
    /\ About(copy, h) = About(db, h)
    /\ find_count(copy.record[h]) <= find_count(db.record[h])
    /\ ~Clipped(db, h) =>
          find_count(copy.record[h]) = find_count(db.record[h])

(* The sub_count of a source under a hash, if it is there. *)
CountsOf(db, h, f) ==
    {pair[2] : pair \in {p \in ToSet(source_sub_counts(db, h)) : p[1] = f}}

EverySourceHasData(db) == \A f \in File : HasId(db, f) => db.data[f] # NoData

(***************************************************************************)
(* A database that is exported and imported (export_json.cpp:67,           *)
(* import_json.cpp:45) says the same of every hash and every source; a     *)
(* count differs only when a sub_count in it is clipped.  Importing it     *)
(* again where it came from changes nothing (libhashdb.cpp:343).  A range  *)
(* of hashes comes with exactly the sources that they have                 *)
(* (export_json.cpp:102).  After any documents, invalid ones between them,  *)
(* every source has source data, and no pair of a document that was        *)
(* accepted is missing (libhashdb.cpp:394).  A tab file                    *)
(* counts each of its lines once for a source that is new and never for    *)
(* one that was there, so that a second import of it changes nothing       *)
(* (import_tab.cpp:101).                                                   *)
(***************************************************************************)
ImportsAreFaithful ==
    /\ Computed("database") /\ ~ExportAborts(result.db) =>
          LET db    == result.db
              range == result.range.db
          IN /\ ~result.copy.aborts
             /\ result.copy.imported = Len(export_json(db))
             /\ \A h \in Hash : SameHash(result.copy.db, db, h)
             /\ \A f \in File :
                    SourceAbout(result.copy.db, f) = SourceAbout(db, f)
             /\ result.again.db = db
             /\ \A h \in Hash : IF h = 2 THEN SameHash(range, db, h)
                                ELSE range.record[h] = None
             /\ ToSet(range.ids) =
                    {pair[1] : pair \in ToSet(source_sub_counts(db, 2))}
             /\ \A f \in ToSet(range.ids) :
                     SourceAbout(range, f) = SourceAbout(db, f)
    /\ Computed("documents") =>
          /\ EverySourceHasData(result.db)
          /\ result.got.imported = Len(input.lines) =>
                \A doc \in ToSet(input.lines) :
                    "block_hash" \in DOMAIN doc /\ doc.block_hash # BadHash =>
                        \A pair \in ToSet(doc.source_sub_counts) \ {<<Half>>} :
                            pair[1] # BadHash =>
                                CountsOf(result.db, doc.block_hash,
                                         pair[1]) # {}
    /\ Computed("tab") =>
          /\ result.again = result.db
          /\ EverySourceHasData(result.db)
          /\ \A f \in File, h \in Hash :
                LET lines == SelectSeq(input.lines, LAMBDA l : l = <<f, h>>)
                IN CountsOf(result.db, h, f) =
                       IF HasId(input.before, f)
                       THEN CountsOf(input.before, h, f)
                       ELSE IF lines = <<>> THEN {}
                       ELSE {put2(Len(lines))}

(***************************************************************************)
(* The reports are of the same database: the histogram has as many hashes  *)
(* of a count as duplicates lists for it (commands.hpp:750, :838), its     *)
(* total_hashes is the sum of the counts of the hashes and of the totals   *)
(* of its lines, hash_table lists the hashes of a source                   *)
(* (commands.hpp:900), and scan_list the lines whose hash is stored        *)
(* (scan_list.cpp:44), unless its count is zero.  total_distinct_hashes is *)
(* what test_py/statistics.py:66 expects of it, the number of hashes that  *)
(* occur once (commands.hpp:794).  The comments "total number of distinct  *)
(* hashes" (:768) and "update total distinct hashes" (:793) say otherwise: *)
(* the different hashes are the sum of the distinct_hashes of the lines    *)
(* (hashdb_um.tex:1415), which is larger whenever some hash occurs more    *)
(* often than once.                                                        *)
(***************************************************************************)
ReportsAgree ==
    Computed("database") =>
        LET db    == result.db
            h     == histogram(db)
            found == {x \in Hash : find_count(db.record[x]) > 0}
            lines == SetToSeq({1} \X Hash)
        IN /\ \A c \in 0 .. 20 :
                 Len(duplicates(db, c)) = IF c \in DOMAIN h.hash_histogram
                                          THEN h.hash_histogram[c] ELSE 0
           /\ h.total_hashes =
                  MapThenSumSet(LAMBDA x : find_count(db.record[x]), Hash)
           /\ h.total_hashes =
                  MapThenSumSet(LAMBDA c : c * h.hash_histogram[c],
                                DOMAIN h.hash_histogram)
           /\ h.total_distinct_hashes = Len(duplicates(db, 1))
           /\ \A f \in File :
                 hash_table(db, f) =
                     InOrder({x \in found :
                                \E id \in Sources(db.record[x]) :
                                    db.ids[id] = f})
           /\ ToSet(scan_list(db, lines)) = {1} \X found

-----------------------------------------------------------------------------
(* Counts.                                                                 *)

(* The first count that is beyond the largest stored exponent. *)
Limit == 20 * Power5[MaxExponent] - 5

(***************************************************************************)
(* What the one byte of the hash store loses of a count                    *)
(* (lmdb_hash_manager.hpp:101): nothing up to 14, never more than a fifth   *)
(* above that; the result is never above the count, grows with it, and is  *)
(* stored as the same byte again.  In particular a hash that occurs never  *)
(* reads back as absent (find_hash takes 0 to mean "not present").         *)
(***************************************************************************)
ApproximateIsClose ==
    Computed("count") =>
        LET count == input.count
        IN /\ result.byte \in Byte
           /\ count <= 14 => result.count = count
           /\ count > 0 => result.count > 0
           /\ count < Limit =>
                 /\ result.count <= count
                 /\ 5 * (count - result.count) <= count + 5
                 /\ count_to_byte(result.count) = result.byte
           /\ count + 1 < Limit => result.count <= result.next
=============================================================================
