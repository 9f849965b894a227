------------------------------- MODULE Media -------------------------------
(***************************************************************************)
(* How media are read, cut into blocks and searched for compressed data    *)
(* (scan_media, ingest_file, process_job, process_recursive), and how      *)
(* read_media finds the bytes of a block again by the path that a scan     *)
(* prints for it.                                                          *)
(*                                                                         *)
(* Media are sequences of cells.  A cell is a byte (0 is the zero byte) or *)
(* the start of a compressed stream, which DOMAIN Streams names.  Offsets  *)
(* count from 0, as in the code.  A path is <<offset, kind, offset, ...>>. *)
(***************************************************************************)
EXTENDS Integers, SequencesExt

CONSTANTS
    DataSize,    \* BUFFER_DATA_SIZE, 2^24
    BufferSize,  \* BUFFER_SIZE, 2^24 + 2^20
    RawSize,     \* from_size of read_media, 2^20
    BlockSize,   \* block_size of the settings
    MaxDepth,    \* the most levels of recursion, 7
    Increment,   \* bytes between two progress reports, 2^27
    ZipHeader,   \* 30
    GzipHeader,  \* 18
    ZipMin,      \* uncompressed_size_min, 6
    ZipMax,      \* uncompressed_size_max, 2^24
    GzipMax,     \* max_out_size, 2^28
    MaxBits,     \* the most bits of the size of a device, 60
    Streams      \* what starts at a cell: kind, the declared sizes compr and
                 \* uncompr, the cells of name, the real compressed size and
                 \* the body that these compressed cells stand for

(* read_media reads no more than the overlap of two buffers: 2^20.         *)
ASSUME MediaAssumption ==
    /\ {DataSize, RawSize, BlockSize, Increment} \subseteq Nat \ {0}
    /\ BufferSize = DataSize + RawSize
    /\ BlockSize <= RawSize

Least(a, b) == IF a <= b THEN a ELSE b

Cell(buffer, i) == buffer[i + 1]

(* The cells of buffer from offset, at most count of them. *)
Cells(buffer, offset, count) ==
    SubSeq(buffer, offset + 1, Least(offset + count, Len(buffer)))

-----------------------------------------------------------------------------
(* File readers.  A medium is its cells and whether it is a device, whose  *)
(* size fstat does not tell.                                               *)

(* Phase 1 of get_filesize: the first power of 2 that is not readable. *)
SeekBits(size) ==
    CHOOSE b \in 0 .. MaxBits :
        2^b >= size /\ \A c \in 0 .. b - 1 : 2^c < size

(* Phase 2: from the highest bit down, a bit stays if the byte is there. *)
RECURSIVE BlankBits(_, _, _)
BlankBits(size, raw, bit) ==
    IF bit < 0 THEN raw
    ELSE LET test == IF (raw \div 2^bit) % 2 = 1 THEN raw ELSE raw + 2^bit
         IN BlankBits(size, IF test < size THEN test ELSE test - 2^bit,
                      bit - 1)

(* A faulty variant of the next definition. *)
get_filesize_LastOffset(medium) ==
    LET size == Len(medium.cells)
        bits == SeekBits(size)
    IN IF ~medium.device /\ size > 0 THEN size
       ELSE BlankBits(size, 2^bits, bits)

get_filesize(medium) ==
    LET size == Len(medium.cells)
        bits == SeekBits(size)
        raw  == BlankBits(size, 2^bits, bits)
    IN IF ~medium.device /\ size > 0 THEN size
       ELSE IF raw > 0 THEN raw + 1 ELSE raw

pread(medium, offset, size) == Cells(medium.cells, offset, size)

-----------------------------------------------------------------------------
(* Uncompression.  The result is the cells, or Failed.                     *)

Failed == [ok |-> FALSE, out |-> <<>>]

Uncompressed(out) == [ok |-> TRUE, out |-> out]

(* What zlib makes of the first n compressed cells of a stream. *)
Inflate(stream, n) ==
    Cells(stream.body, 0,
          (Len(stream.body) * Least(n, stream.real)) \div stream.real)

IsStream(buffer, i, kind, header) ==
    /\ i + header <= Len(buffer)
    /\ Cell(buffer, i) \in DOMAIN Streams
    /\ Streams[Cell(buffer, i)].kind = kind

zip_signature(buffer, i) == IsStream(buffer, i, "zip", ZipHeader)

gzip_signature(buffer, i) == IsStream(buffer, i, "gzip", GzipHeader)

(* The zip stream at offset i, whose compressed data start at first. *)
InflateZip(stream, buffer, first) ==
    LET compressed == IF \/ stream.compr = 0
                         \/ first + stream.compr > Len(buffer)
                      THEN Len(buffer) - first
                      ELSE stream.compr
        potential == IF stream.compr = 0 \/ stream.compr > ZipMax
                     THEN ZipMax ELSE stream.uncompr
    IN IF first >= Len(buffer) \/ stream.name = 0 \/ potential < ZipMin
       THEN Failed
       ELSE Uncompressed(Cells(Inflate(stream, compressed), 0, potential))

new_from_zip(buffer, i) ==
    IF Len(buffer) < i + ZipHeader
    THEN Failed
    ELSE LET stream == Streams[Cell(buffer, i)]
         IN InflateZip(stream, buffer, i + ZipHeader + stream.name)

new_from_gzip(buffer, i) ==
    IF Len(buffer) < i + GzipHeader
    THEN Failed
    ELSE Uncompressed(Cells(Inflate(Streams[Cell(buffer, i)],
                                    Len(buffer) - i - GzipHeader),
                            0, GzipMax))

Uncompress(kind, buffer, i) ==
    IF kind = "zip" THEN new_from_zip(buffer, i) ELSE new_from_gzip(buffer, i)

-----------------------------------------------------------------------------
(* Jobs.                                                                   *)

(* The bytes that are hashed: beyond the buffer they are zero. *)
Block(buffer, i) ==
    [k \in 1 .. BlockSize |->
        IF i + k <= Len(buffer) THEN buffer[i + k] ELSE 0]

(* A faulty variant of the next definition. *)
all_zero_NotTheLast(buffer, i) ==
    \A k \in i + 1 .. Least(i + BlockSize, Len(buffer)) - 2 :
        Cell(buffer, k) = 0

(* The test starts at the second byte of the block. *)
all_zero(buffer, i) ==
    \A k \in i + 1 .. Least(i + BlockSize, Len(buffer)) - 1 :
        Cell(buffer, k) = 0

(* The block at offset i of the buffer of a job: its path, what is hashed, *)
(* and whether it is counted as zero instead of looked up.                 *)
Visit(job, i) ==
    [path  |-> job.recursion \o <<job.file_offset + i>>,
     block |-> Block(job.buffer, i),
     zero  |-> all_zero(job.buffer, i)]

(* The loop over the blocks of a buffer. *)
Visits(job, step) ==
    [k \in 1 .. (job.data_size + step - 1) \div step |->
        Visit(job, (k - 1) * step)]

(* A faulty variant of the next definition. *)
append_recursion_path_NoFileOffset(job, i, kind) ==
    job.recursion \o <<i, kind>>

(* The path of a stream at offset i: from the start of the medium at the   *)
(* top, from the start of the uncompressed buffer below.                   *)
append_recursion_path(job, i, kind) ==
    job.recursion \o <<IF job.depth = 0 THEN job.file_offset + i ELSE i, kind>>

RecursedJob(job, i, kind, out) ==
    [file_offset |-> 0, buffer |-> out, data_size |-> Len(out),
     depth |-> job.depth + 1,
     recursion |-> append_recursion_path(job, i, kind)]

(* All that a job and the jobs it recurses into look at. *)
RECURSIVE process_job(_, _, _)

recurse(job, i, kind, step) ==
    LET got == Uncompress(kind, job.buffer, i)
    IN IF ~got.ok \/ got.out = <<>> \/ job.depth >= MaxDepth
       THEN <<>>
       ELSE process_job(RecursedJob(job, i, kind, got.out), step, TRUE)

process_recursive(job, step) ==
    FlattenSeq([k \in 1 .. job.data_size |->
        IF job.depth >= MaxDepth THEN <<>>
        ELSE IF zip_signature(job.buffer, k - 1)
        THEN recurse(job, k - 1, "zip", step)
        ELSE IF gzip_signature(job.buffer, k - 1)
        THEN recurse(job, k - 1, "gzip", step)
        ELSE <<>>])

process_job(job, step, recursive) ==
    Visits(job, step)
        \o (IF recursive THEN process_recursive(job, step) ELSE <<>>)

-----------------------------------------------------------------------------
(* The commands.                                                           *)

(* The reads of scan_file, and of ingest_file after the file is hashed:    *)
(* one buffer for every DataSize cells, and one for an empty medium.       *)
NumBuffers(filesize) ==
    IF filesize = 0 THEN 1 ELSE (filesize + DataSize - 1) \div DataSize

(* A faulty variant of the next definition. *)
FileJob_NoOverlap(medium, filesize, n) ==
    LET buffer == pread(medium, n * DataSize, DataSize)
    IN [file_offset |-> n * DataSize, buffer |-> buffer,
        data_size |-> Len(buffer), depth |-> 0, recursion |-> <<>>]

FileJob(medium, filesize, n) ==
    LET size   == IF n = 0 THEN Least(filesize, BufferSize) ELSE BufferSize
        buffer == pread(medium, n * DataSize, size)
    IN [file_offset |-> n * DataSize, buffer |-> buffer,
        data_size |-> Least(Len(buffer), DataSize),
        depth |-> 0, recursion |-> <<>>]

(* The jobs up to the read that fails, if one does. *)
scan_file(medium, filesize, good_reads) ==
    [n \in 1 .. Least(NumBuffers(filesize), good_reads) |->
        FileJob(medium, filesize, n - 1)]

scan_media(jobs, step, recursive) ==
    FlattenSeq([n \in DOMAIN jobs |-> process_job(jobs[n], step, recursive)])

(* scan_tracker: the percentages that are printed as the buffers are done. *)
(* Undefined stands for the division by the size of an empty medium.       *)
Undefined == -1

track_bytes(total, tracker, count) ==
    LET done == tracker.done + count
    IN IF done = total \/ done > tracker.reported + Increment
       THEN [done |-> done, reported |-> tracker.reported + Increment,
             percents |-> Append(tracker.percents,
                 IF total = 0 THEN Undefined ELSE (done * 100) \div total)]
       ELSE [tracker EXCEPT !.done = done]

RECURSIVE TrackJobs(_, _, _, _)
TrackJobs(total, jobs, order, n) ==
    IF n = 0 THEN [done |-> 0, reported |-> 0, percents |-> <<>>]
    ELSE track_bytes(total, TrackJobs(total, jobs, order, n - 1),
                     jobs[order[n]].data_size)

(* read_media: the range of the buffer that the path leads to. *)
ReadRange(buffer, offset, count) ==
    IF offset > Len(buffer) THEN <<>> ELSE Cells(buffer, offset, count)

RECURSIVE Descend(_, _, _, _, _)
Descend(path, k, buffer, offset, count) ==
    IF k > Len(path)
    THEN Uncompressed(ReadRange(buffer, offset, count))
    ELSE LET got == IF path[k] \in {"zip", "gzip"}
                    THEN Uncompress(path[k], buffer, offset) ELSE Failed
         IN IF ~got.ok \/ k = Len(path) THEN Failed
            ELSE Descend(path, k + 2, got.out, path[k + 1], count)

read_media(medium, path, count) ==
    Descend(path, 2, pread(medium, path[1], RawSize), 0, count)

-----------------------------------------------------------------------------
(* The file hash of ingest_file, and the cache of file_reader_t.           *)

(* A faulty variant of the next definition. *)
HashReads_ByData(filesize) ==
    [n \in 1 .. (filesize + DataSize - 1) \div DataSize |->
        [offset |-> (n - 1) * DataSize, size |-> BufferSize]]

(* The reads that hash the file. *)
HashReads(filesize) ==
    [n \in 1 .. (filesize + BufferSize - 1) \div BufferSize |->
        [offset |-> (n - 1) * BufferSize,
         size   |-> IF n = 1 THEN Least(filesize, BufferSize)
                    ELSE BufferSize]]

(* The reads that make the jobs; the first job takes the first buffer. *)
JobReads(filesize) ==
    [n \in 1 .. NumBuffers(filesize) - 1 |->
        [offset |-> n * DataSize, size |-> BufferSize]]

(* What the file hash is calculated from. *)
HashedCells(medium, filesize) ==
    FlattenSeq([n \in DOMAIN HashReads(filesize) |->
        pread(medium, HashReads(filesize)[n].offset,
              HashReads(filesize)[n].size)])

(* file_reader_t::read answers a read from its cache, without filling the  *)
(* buffer, when the offset, the size and the address of the buffer are     *)
(* those of the read before.  The address of a new buffer may be that of   *)
(* one that was freed.                                                     *)
ServedFromCache(reads, n) ==
    n > 1 /\ reads[n - 1].offset = reads[n].offset
          /\ reads[n - 1].size = reads[n].size
=============================================================================
