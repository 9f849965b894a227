# A TLA+ development for hashdb

hashdb keeps a database of block hashes: for each hash of a fixed-size block of
data, the source files the block was seen in and how often.  Files are ingested
into the database, databases are combined, and media are scanned against it.
The database is five LMDB stores; liblmdb is part of the repository.
This directory holds TLA+ modules translated from the C and C++ sources, TLC
configurations that check them on small instances, and proofs checked by TLAPS.
`PROJECT.json` maps each definition to the source lines it stands for, and
lists the hazards of the code with the properties that watch over them.

## 1. The system

| Part | State it keeps | Operations | Used by |
|---|---|---|---|
| hash data store (`lmdb_hash_data_manager.hpp`, `lmdb_hash_data_support.cpp`) | per hash: one Type 1 record, or one Type 2 and several Type 3 records | `insert`, `merge`, `find`, `find_count`, iteration | import and scan manager |
| hash store (`lmdb_hash_manager.hpp`) | per 7-byte hash prefix: a one-byte approximate count | `insert`, `find` | import and scan manager |
| source ID store (`lmdb_source_id_manager.hpp`) | file hash -> source ID | `insert`, `find`, iteration | import and scan manager, ingest tracker |
| source data store (`lmdb_source_data_manager.hpp`) | source ID -> file hash, size, type, counts | `insert`, `find` | same |
| source name store (`lmdb_source_name_manager.hpp`) | source ID -> set of names | `insert`, `find` | same |
| import manager (`libhashdb.cpp`) | the five stores, change counters | `insert_source_name`, `insert_source_data`, `insert_hash`, `merge_hash`, `import_json` | ingest, adder, importers, library users |
| scan manager (`libhashdb.cpp`) | read-only stores, two sets of what was reported | `find_hash` and its variants | scans, export, adder |
| job queue, thread pool (`hasher/job_queue.hpp`, `hasher/threadpool.hpp`) | a bounded queue, a flag | `push`, `pop`, `done_adding`, `is_done`, `run` | ingest, media scan |
| ingest (`hasher/ingest.cpp`, `ingest_tracker.hpp`, `process_job.cpp`, `process_recursive.cpp`) | the tracker's source map | the `ingest` command, its jobs | command line, library |
| media scan (`hasher/scan_media.cpp`, `read_media.cpp`, `scan_tracker.hpp`) | byte and zero counts | `scan_media`, `read_media` | command line, library |
| file readers, block facts (`hasher/file_reader*.hpp`, `filename_list.cpp`, `entropy_calculator.hpp`, `calculate_block_label.cpp`) | the last read | list, open, read; entropy, label | ingest, media scan |
| scan stream (`scan_stream/`) | two queues, two counters, a flag | `put`, `get`, `empty`, scan threads | library users |
| copiers (`src/src/adder*.hpp`, `commands.hpp`) | a set of processed sources per producer | `add`, `add_multiple`, `intersect`, `subtract`, ... | command line |
| importers, exporters, statistics (`src/src/`) | nothing | JSON and tab import, export, histogram, ... | command line |
| environment (`lmdb_helper.cpp`, `lmdb_context.hpp`) | an LMDB environment, a transaction, a cursor | `open_env`, `maybe_grow`, `sync_if_needed` | the stores |
| liblmdb (`liblmdb/mdb.c`, `midl.c`) | map of pages, two meta pages, lock file | transactions, cursors, the B+tree, ID lists | the environment |

Components interact by calls.  What is shared is the five stores (between
threads and between processes), the two kinds of queue, and, below them, the
map and the lock file of each store.  Each store has its own mutex and each
store call is one LMDB write transaction, but **an API call goes through
several stores and holds nothing between them**.  Four kinds of trouble follow,
and they are what the project is about:

* threads and processes that interleave between store calls (`insert_hash` of
  two threads, the tracker and its workers, scans beside an import), and
  between the steps of liblmdb (readers beside two writers);
* a process that dies between two steps: the stores are opened with
  `MDB_NOSYNC`, there is no log over several stores and no repair on opening;
* numbers at their limits: 2- and 4-byte counts that are clipped, records that
  are rewritten in place, a one-byte approximate count, buffers that overlap;
* structures that change under someone who holds a place in them: B+tree pages
  under a cursor, sets of copied sources under a second producer.

What makes each part correct:

* *hash data*: no sequence of inserts and merges loses, adds or changes a source
  of a hash; the count is what was counted; a record always fits in place.
* *hash store*: a hash that is stored is never reported absent.
* *source stores*: IDs are never shared; the look-up from ID back to the file
  succeeds and gives the file that owns the ID.
* *scan manager*: what an import call that has returned has written is found,
  whatever is written meanwhile.
* *ingest*: each block of each source is counted once; source data is written
  once, when the source is complete; every command ends.
* *media scan*: every block is looked at once, and can be read back.
* *scan stream*: `empty()` tells the truth; every result arrives once.
* *copying*: the result is the set operation that the command names, also when
  the command is killed and given again.
* *liblmdb*: a reader sees one committed state; a commit is there as a whole or
  not at all and is never lost; no page is lost or used twice; the tree is a
  sorted map.

## 2. Modules

| Module | Models | Extends / instantiates |
|---|---|---|
| `FixedWidth` | `add2`, `add4`, `put2`, `put4`, `get4`: the store's number fields, with widths as parameters | |
| `HashRecords` | Type 1, 2 and 3 records and what `insert`, `merge`, `find_count` compute from them, including record sizes and padding | `FixedWidth` |
| `HashSources` | **abstract**: a map from hash and source to a clipped sub_count | |
| `HashData` | the hash data store: `insert`, `merge`, change counters | `HashRecords`; implements `HashSources` |
| `ApproximateCount` | `count_to_byte`, `byte_to_count` | `FixedWidth` |
| `ImportManager` | the import manager over the five stores, with threads and crashes | `HashRecords`, `ApproximateCount`; implements `HashSources` with files in place of IDs |
| `ScanManager` | scanning threads beside the import: `find_hash_json` in all modes | `ImportManager` |
| `JobQueue` | the queue and the workers' loop | |
| `Ingest` | the ingest command over the queue: adder, workers, tracker, embedded content, read errors, later commands, crashes | `JobQueue` |
| `ScanStream` | the scan stream and its caller | |
| `CopyDatabases` | all copying commands, killed and given again | |
| `Transfer` | JSON export and import, tab import, `scan_list`, statistics | `HashRecords` |
| `Media` | buffers, jobs, blocks, recursion, tracker, `read_media`, device size, file hash | |
| `FileList` | which files a path stands for and how each is opened | |
| `BlockFacts` | entropy and labels | |
| `LmdbEnv` | creating a database and opening a store: lock file, file lock, meta pages | |
| `LmdbTxn` | transactions, readers, the free list, crashes, growing maps | |
| `LmdbTree` | the B+tree and its cursors | |
| `SortedMap` | **abstract**: what `lmdb.h` promises of a database and a cursor | implemented by `LmdbTree` |
| `Midl` | ID lists | |
| `HashRecordsProofs`, `HashDataProofs`, `ManagerProofs`, `IngestProofs`, `ScanStreamProofs`, `CopyDatabasesProofs`, `LmdbEnvProofs`, `LmdbTxnProofs` | theorems and proofs; `ManagerProofs` is about the import manager and the scan manager, and builds on `HashRecordsProofs`, as `HashDataProofs` does | the modules they name, `TLAPS` |
| `MC...` | instances for TLC; `MCAlgorithms` enumerates the inputs of the computations that have no steps of their own | |

How state and actions correspond to the code:

* **HashData.**  `store[h]` is the list of LMDB records under key `h`: nothing,
  one Type 1, or a Type 2 with the function `subs` from source ID to the Type 3
  sub_count.  `insert` and `merge` hold the mutex throughout, so each is one
  step, with the truncation of the label, the mismatch counters and all record
  writes.  `total[h]` is a history variable: the number of occurrences without
  any limit.  `get4` joins four bytes as a signed `int`; the model says what the
  conversion to `uint64_t` gives.
* **ImportManager.**  `frame[t]` is the API call a thread is in and its local
  variables (`source_id`, `is_new_id`, `count`); `pc` names the store call it
  makes next.  There is one action per store call: `InsertSourceId`,
  `InsertSourceName`, `InsertHashData`, `MergeHashData`, `InsertHashStore`,
  `InsertSourceData`.  `Crash` empties the frames and keeps the stores.
* **ScanManager.**  Every read of a store is a step: the hash store, the hash
  data, then source data and names of each source.  `hashes` and `sources` are
  the two `locked_member_t`; `reports` is what has been returned.
* **JobQueue** and **Ingest.**  One step per critical section.  `adder` is the
  thread that runs `ingest`; `worker[w].stack` is the stack of nested
  `process_ingest_job` calls.  `insert_source_name` is two steps: the source ID
  is inserted by `HashFile` or `RecurseName`, and if it was new the blank source
  data record by `BlankFile` or `BlankRecursed`, after whatever other threads do
  in between.  `source_data` is what the records say; `overtaken` is a history
  variable, the files that another thread added to the tracker while such a
  record was owed.  `NewCommand` starts another command on the same database:
  the tracker's `preexisting` set is what the source ID store holds.
* **ScanStream.**  One step per queue operation; the caller puts arrays, gets
  results, asks `empty()` and closes the stream once it was true.
* **CopyDatabases.**  One step per call of the destination's import manager.
  `adder` holds each producer's set of processed sources, `producers` the
  multimap that merges the inputs of `add_multiple`; `Interrupt` kills the
  command and starts it again on what is there.
* **LmdbTxn.**  The map is a function from page numbers to pages, shared by all
  processes; a meta page is written field by field.  The main database is a
  root page over one leaf per key, the free database one page of records.
  `hist` keeps the data of every commit.
* **LmdbTree.**  A page holds a number of units; nodes take more or fewer
  by key and data.  Splitting, borrowing and merging are functions from trees
  and cursors to trees and cursors; one action per `mdb_put`, `mdb_del` and
  cursor operation.  `Items` and `Pos` are the refinement mapping to
  `SortedMap`, in `MCLmdbTree` kept as variables beside the tree.
* **LmdbEnv.**  One step per system call that another process can see.
  `flock` is the `fcntl` lock; the kernel drops it when its owner dies.
* **Media**, **FileList**, **BlockFacts**, **Midl**, **Transfer**.  Functions
  named after the code's.  `MCAlgorithms` picks an input, computes, and compares
  the result with a definition that does not follow the code.

Definitions that begin with "A faulty variant" are deliberate mistakes.  Each
property is checked to fail when the definition after them is replaced by such
a variant; no specification uses them otherwise.

## 3. Runs

| Run | Checks | Bounds |
|---|---|---|
| `hash_data` | `TypeOK`, `CountFaithful`, `RecordsFit`, `ImplementsHashSources` | one hash, source IDs of 1, 2 and 3 encoded bytes, labels that differ only past the limit, widths 3 / 8 / 64 in place of 2^16-1 / 2^31 / 2^64, sub_counts on both sides of each limit, five calls |
| `import_crash` | `IdsDense`, `SourceDataNamesFile`, `NothingForgotten`, `ImplementsHashSources` | two threads, two files, two hashes that share a prefix, three calls, one crash |
| `scan` | `ReverseLookup`, `ReturnedIsReported`, `AbortsOnlyOnPending`, `OptimizedOnce` | two importing and two scanning threads, two files, two hashes that share a prefix, two calls, two scans, four modes |
| `scan_aborts` (violation) | `ScanNeverAborts` | as `scan` |
| `ingest` | `AssertsHold`, `IngestedOnce`, `DescribedIsComplete`, `IngestCompletes`, `CommandEnds` | two workers, a queue of two, filenames a and b: a holds b twice, b has two parts and holds c; a read may fail anywhere; two commands, the first may die anywhere |
| `scan_stream` | `EmptyMeansDone`, `ReceivedOnce`, `Delivered` | three scan threads, three arrays, one without a match |
| `copy` | `CopiedExactly`, `SourcesDescribed`, `ProgressReachesTotal`, `PreexistingUntouched` | nine commands, two hashes, two sources (one may lack data or names), two names, every pair of databases a and b with sub_counts up to 2, an empty and a used destination, two starts |
| `lmdb_txn` | `NewestIsIntact`, `SnapshotIntact`, `BuildsOnLastCommit` | two writers and a reader on a store in which two transactions have left free pages; txnid up to 4, one put each, three opens, a map of 11 pages that may grow |
| `lmdb_tree` | `TreeIsSound`, `ImplementsMap` | six keys, five units to a page (two or three nodes), 12 pages, depth up to 4, with and without duplicates, one cursor that stays open |
| `lmdb_env` | `NothingLost`, `OpensFail`, `OpenEnds` | three processes, two may create the database, one may read or write; four opens, two commits, a kill at any step |
| `algorithms` | `ScanCoversMedia`, `ReadBack`, `FilesAreListedOnce`, `BlocksAreDescribed`, `IdListsWork`, `ImportsAreFaithful`, `ReportsAgree`, `ApproximateIsClose` | media of up to three pieces in buffers of 4+3 cells, blocks of 2, steps of 1 to 4 (3 does not divide a buffer), two levels of recursion; directories of three entries and links; blocks of 8 words; lists of 6 IDs; databases of three calls; documents of two lines; tab files of three; counts to 3000 with exponents to 3, so that the cap on the exponent is passed |
| `equal_blocks` (violation) | `EqualBlocksAgree` | the blocks of `algorithms` |

Why the bounds are enough:

* Five calls reach every record type and every branch of `insert` and `merge`
  for a known and a new source, with counts on both sides of both limits.
* A source ID is described by the call that creates it, so two threads and two
  files give every order of create, overtake and describe; two scans beside
  them read in every gap.
* In ingest the same content comes by name, and embedded twice in another file,
  which workers process while the adder adds it. For the tracker a second
  filename is the same case as a second place in a file.  So each of the adder
  and a worker can be overtaken between the ID and the blank record.
* A copying command treats hashes one by one and sources one by one: two of
  each give the first and the later occurrence of each, in both inputs.
* In `lmdb_txn` the store starts with two commits and pages in the free
  database, so the next transactions reuse pages under the old reader, fill the
  map, and write both meta pages again.
* Six keys in pages of two or three nodes give three levels, splits at the left
  and right end and in the middle, root splits, borrowing from both sides and
  merging at both levels, with the cursor anywhere.
* Sizes of media lie on both sides of each border of a buffer and of a block.

Deadlock checking is off where calls, files or arrays are bounded, so that
every instance stops; `copy` keeps it on, since a finished command is a state
that stays.  That nothing stops too early is what `CommandEnds`, `Delivered`
and `OpenEnds` say.

Fairness: each thread of the thread pool, the adder and each scan thread is
scheduled again and again (weak fairness per thread: pthreads with
`sched_yield` in the spin loops).  The caller of the scan stream is assumed to
get results until `empty()` is true and then to close the stream; without such
a caller nothing is owed to it.  In `LmdbEnv` each process that is opening a
store goes on with it (weak fairness per process), and a shared file lock is
granted when no one holds it exclusively.

`lmdb_txn` and `scan` use symmetry among processes, threads and files; neither
has a liveness property.

## 4. Where code and text disagree

Shown by runs:

* `scan_aborts`: of the import manager and of the scan manager `hashdb.hpp:310`
  and `:498` say "All interfaces are locked and threadsafe", and
  `libhashdb.cpp:349` that a blank source data record is added "just to keep from
  breaking the reverse look-up done in scan_manager_t".  `insert_hash` writes the
  hash data first and that record last, in transactions of their own; a scan in
  between fails the assertion of `find_hash` ("source_data must have a source_id
  to match the source_id in hash_data", `:798`).  After a process that died in
  between, it fails for good.  `AbortsOnlyOnPending` says that this is the only
  way.
* `equal_blocks`: "Returns entropy * 1,000" (`entropy_calculator.hpp:88`).  The
  value is scaled again for a block that is cut off at the end of a buffer.

Part of the models, and worth knowing:

* `lmdb_hash_data_support.cpp:105`: `get4` sign-extends, so a 4-byte count at
  its limit is read as 2^64-1 and the next `insert` stores 0; `find_hash` then
  reports the hash as absent.  `CountFaithful` holds below 2^31.
* `libhashdb.cpp:303`, `:353`, `:388`: the blank record that one thread writes
  at the end of its call can replace real source data for which another
  thread's call has returned, although "All interfaces are locked and
  threadsafe" (`hashdb.hpp:310`).  `NothingForgotten` says that this is all that
  can happen to source data: once no call that created the ID is under way, only
  `insert_source_data` changes them.
* `ingest` is exposed to the same.  Say the adder creates the ID of a file in
  `insert_source_name` and is overtaken before `libhashdb.cpp:303`; a worker that
  finds the same content compressed in another file gets the ID from the store,
  is the first to add the source to the tracker, ingests it and writes its source
  data (`ingest_tracker.hpp:168`); then the adder writes the blank record over
  them.  Two workers can do the same to each other (`process_recursive.cpp:126`).
  The source keeps its hashes and names, and loses file size, type and counts.
  `IngestCompletes` allows it for exactly these sources (`overtaken`).
* `process_job.cpp:67`: `all_zero` begins at the second byte of a block, so a
  block whose first byte alone is not zero is skipped and counted as zero.
  `process_job.cpp:60` says "detect if block is all zero", `:128` and `:195` "skip
  if all the bytes are the same" (which it does not test either), and the manual
  that the skipped blocks are those "consisting completely of the 0 byte"
  (`hashdb_um.tex:445`, also `:1191`).  `ScanCoversMedia` asks that every block of
  zeros is skipped and no block with another byte after its first; on the blocks
  in between it takes no side.
* A step size that does not divide 2^24 begins anew at each buffer
  (`process_job.cpp:126`), so blocks of a file beyond 16 MiB are at offsets that
  are not multiples of the step.  `ScanCoversMedia` says where they are.
* `commands.hpp:794`: `total_distinct_hashes` of `histogram` is the number of
  hashes that occur once, as `test_py/statistics.py:66` expects.  The comments
  (`:768`, `:793`) say "total number of distinct hashes", and in the lines that
  follow it `distinct_hashes` is the number of different hashes of a count
  (`hashdb_um.tex:1415`); their sum is larger whenever a hash occurs twice.
  `ReportsAgree` takes the value that the test expects.
* `libhashdb.cpp:387`, `export_json.cpp:84`: a JSON hash with sub_count 0 is
  stored and then hidden by the hash store; exporting fails an assertion marked
  "program error".
* `ingest_tracker.hpp:125`: the manual says a file is not ingested again if its
  block hashes "have already been ingested"; the code asks whether the file has
  a source ID, which it gets before its first block.  After a crash or a read
  error the rest of the file is never ingested.
* `ingest.cpp:297` tests `hashdb_dir` where the comment and the message are
  about the ingest path; `ingest.cpp:306` reads the settings of the whitelist
  over those of the database, block size included.
* `file_reader.hpp:77` tests ".E01" twice, so an image named x.e01 is read as a
  plain file, though `filename_list` strikes its later parts from the list.
* `scan_media` returns success after a read error of the medium.
* `file_reader_helper.cpp:159`: a device of one byte is taken for empty.
* `scan_tracker.hpp:103` divides by the size of the medium, which is 0 for an
  empty file.
* `adder.hpp:100` asserts that every source has names; `add` aborts on a source
  that came with a hash alone.
* `mdb.c:4346`: if the process that has the file lock exclusively is killed
  while another waits for it, the other goes on in a lock region that nobody
  has reset (`orphaned` in `LmdbEnv`).  Commits are then lost, and an opening may
  fail; `NothingLost` and `OpensFail` speak of the behaviors before that.
* `mdb.c:2683`: a reader that sits between its check and its copy of the meta
  page while one commit goes by and the next is being written can read half of
  each (`sound` in `LmdbTxn`).  `SnapshotIntact` says of such a reader only that
  a commit overtook it.
* A killed `create` leaves a directory that can neither be opened nor be
  created again.

## 5. Proofs

Every theorem holds for all values of the constants under the named assumption
of its module.  Where a property is not inductive, the invariant that is, and
why it has the parts it has, is given with it; each was checked by TLC on the
instance of the run before it was proved.

`HashDataProofs`, under `WidthAssumption`, `RecordAssumption` and
`HashDataAssumption`:

* `TypeCorrect`, `CountsAreFaithful`, `RecordsAlwaysFit`: the invariants
  `TypeOK`, `CountFaithful` and `RecordsFit`.  The inductive invariant `IInv` is
  their conjunction: the count of a Type 2 record is a number below the limit
  only with the types, and rewriting in place keeps the size only with
  `RecordsFit`.  The argument follows the code: one lemma per way of writing a
  record (`NewType1`, `SplitType1`, `UpdateType2`), one per operation, then one
  per action.
* `StoreImplementsHashSources`: every step of `HashData` is a step of
  `HashSources` or leaves the abstract state as it is.  `InsertSubs` and
  `MergeSubs` say what the operations do to the map from source to sub_count.

`ManagerProofs`, about `ImportManager`, for all sets of threads, files, hashes
and names, under `ImportAssumption`:

* `IdsStayDense` and `SourceDataIsOfItsFile`, with any number of crashes:
  `IdsDense` and `SourceDataNamesFile`.  Neither is inductive alone.  `IInv` adds
  the types, the room in each record (without it a record might not stay a
  record) and `OwnId`: a call that has got a source ID has the one of its file.
  Source data is written long after the ID was read; `OwnId` says that the local
  copy is not stale, which holds because the store never changes an ID that it
  has given out.
* `DatabaseOnlyGrows`, with crashes: the action property `NothingForgotten`.  IDs,
  names, sources of hashes, and that a source has data, stay; what the data say
  can be replaced by the blank record of a call that created the ID and is still
  under way, and after that by `insert_source_data` alone.  Besides `IInv` it needs
  that a call on its way to the blank record created the ID (`BlankIsNew`).  That
  no second such call can come up is `IdsDense`: a new ID is above all others.
* `ReturnedIsStored`, with crashes: what a call that returned has stored stays
  stored.  The invariant `Written` also speaks of calls that have written and
  not yet returned.
* `StoresImplementHashSources`, with crashes and any interleaving: the five
  stores implement `HashSources` with files in place of IDs.  The mapping looks
  the file of a source up in the source ID store, so it is stable only because
  IDs are dense, distinct and never change (`IInv`); a step that gives out an ID
  maps to a stutter, since no record has the new ID yet.
* `SourceDataIsPending` and from it `LookupSucceeds`, without crashes:
  `PendingSourceData` (a source ID without source data has a thread on its way
  to write it) is inductive together with `IInv`, and when no call is under way
  there is no thread left that could owe source data, so `ReverseLookup` holds.

`ManagerProofs`, about `ScanManager`, for any number of importing and scanning
threads, under the assumptions of `ImportManager` and `ScanAssumption`:

* `LookupSucceedsBesideScans`: scans only read the stores, so what is proved of
  the import manager holds beside them (`StoresInv`).
* `AbortsAreOnPending` (`AbortsOnlyOnPending`): a scanning thread fails the
  assertion of `find_hash` only on a source that an import has still to
  describe.  The scan read its IDs some steps earlier; `ReadIds` says that they
  are IDs in use, and `PendingSourceData` does the rest.
* `ReportsOnce` (`OptimizedOnce`): a hash is given in full, and a source
  described, once.  The tests of `hashes` and `sources` are at the beginning of a
  call and the report at its end, so the invariant has to follow who owns what in
  between: `OneFull` (exactly one report or one thread has each hash in `hashes`)
  and `OneOwner` (what a call has claimed is disjoint from every other call's and
  from what was reported).
* `ReturnedWorkIsListed`: `ReturnedIsListed`, the part of `ReturnedIsReported`
  about files and names.  `Lists` follows the promised files and names through
  the steps of the scan; the sources of a record never shrink (`Written`,
  `NothingForgotten`).
* `ReturnedWorkIsReported`: all of `ReturnedIsReported`, for `SubCounts` within
  `1 .. Max4` and behaviors where no count of a record reaches 2^31
  (`CountsSmall`).  Both hypotheses are needed: the hash store is asked first and 0
  means absent, and section 4 says how a sub_count of 0 or a count of 2^31 makes
  a 0 of a stored hash.  The instance of `scan` satisfies both.
  What `insert` and `merge` return is the positive count that `find_count` reports (`InsertPresent`, `MergePresent`), and no
  positive count is stored as a byte that reads 0 (`PresentReadsPresent`).  The
  invariant `Present` carries this from the hash data store through a call to
  the hash store; hashes that share a prefix overwrite each other's byte, with
  positive counts only.  `Finds` follows a promised hash through the steps of the
  scan.

`ManagerProofs`, about `ApproximateCount`, under `WidthAssumption` and
`ApproximateAssumption`:

* `ApproximateCountsAreClose`: the promises of `ApproximateIsClose` for every
  count below `20 * Power5[MaxExponent] - 5`.  Every such count plus 5 is
  between `q * 5^x` and the next multiple of `5^x` for one `x` and one `q` in
  4 .. 19 (`Splits`), and the byte is `<<x, q - 4>>`.  That the powers exist as a
  function, and what they are, is proved from a least counterexample
  (`PowersExist`, `PowerForm`).

`IngestProofs`, for any files, parts, compressed content, filenames, workers,
queue sizes and depths, with read errors, later commands and crashes, under
`JobQueueAssumption` and `IngestAssumption`:

* `AssertionsHold` (`AssertsHold`), `BlocksCountedOnce` (`IngestedOnce`) and
  `DescribedLast` (`DescribedIsComplete`), from `IInv`.  Parts of one file are
  counted by different workers in any order and a file can come by name, by
  a second name and inside others, so the invariant says where each unit of work
  is: `Apart` and `AdderOK` (no unit of a file is with two of the queue, the
  workers' stacks and the adder), `Counted` (the tracker has counted exactly the
  units whose blocks are in the database and not waiting to be tracked),
  `LastJob` and `DataLast` (only the job that counted the last unit goes on to
  write source data), `Drained` (workers end only when nothing can come).
* `EverythingIsIngested` (`IngestCompletes`), from `IInv` and two more invariants.
  `Progress`: every started file is known to the tracker or promised by a job,
  every unit that is not in the database is somewhere on its way, and a full file
  without source data has the job that will write it.  When the adder has joined
  the workers nothing is on its way any more.  `DataInv` is about what the source
  data say: a thread that owes a blank record has not added the file itself, so
  if the file is in the tracker another thread added it, and the file is in
  `overtaken`; for the others the blank record comes first (`BlankBeforeReal`).
  The property leaves only the files in `overtaken` with a blank record, and
  of these says that they were found in compressed data.

`ScanStreamProofs`, for any number of threads and arrays under
`ScanStreamAssumption`:

* `EmptyTellsTruth` (`EmptyMeansDone`): the invariant is that the two counters
  differ by exactly the arrays in the queue and with the threads
  (`CountersAgree`), and that an array that gives a result is in a queue, with a
  thread, or with the caller (`NothingLost`).
* `ResultsOnce` (`ReceivedOnce`): a result is received twice if it is in a queue
  twice, which it is if two threads hold one array, and so on back to `put`.
  `OnceInv` says that each array is in one place only (`EachOnce`,
  `InOnePlace`) and that nothing is anywhere that was not put (`Known`).

`CopyDatabasesProofs`, for any finite sets of hashes and sources, any two input
databases and any destination, any range and any number of killed runs before,
under `CopyAssumption` (keys are numbers in their order; a database is one that
calls of the import manager leave: a source with a hash or a name has data):

* `CopiesExactly` (`CopiedExactly`), `DescribesSources` (`SourcesDescribed`) and
  `ProgressIsComplete` (`ProgressReachesTotal`), which speak of a command that
  has ended, and the action property `PreexistingStays` (`PreexistingUntouched`).
  `IInv` says the same of a command at work: `Handled` are the hashes and
  sources it has been through, by the place of each producer in the multimap
  (`Queue`, `Visited`); what it has copied is what is handled and wanted
  (`ExactSoFar`); a producer's `processed` set is the sources it has copied, but
  for the one at hand (`ProcessedSoFar`), so that a source copied from both
  producers of `add_multiple` is described by both (`DescribedSoFar`); and the
  copiers of the repository commands, which classify a source once and forget
  its names, have classified it right (`Classification`, `AtHand`).
* `WantedForm` is the lemma between the loops and the set operations: what a
  command looks at, does not skip and accepts is what it promises to copy.
* The progress is a sum over the hashes gone through.  `Sums` is the sum that
  the fold of the community modules computes over each subset; that any element
  can be taken out of it first (`SumsRemove`) is proved from a least
  counterexample (`LeastElement`) in place of an induction.

`LmdbEnvProofs`, for any number of processes that create, open, grow, close and
die, under `LmdbEnvAssumption`:

* `CommitsSurvive` (`NothingLost`), as long as no process was orphaned (killed, or
  failed, with the lock file held exclusively and another process waiting for it,
  `mdb.c:4346`; the code does lose commits after that): `IInv` ties the point where a process stands
  to the file lock it has (`Locks`), the writer mutex (`Mutex`), the files that
  exist (`Files`), what of the lock region has been reset (`Region`) and, while
  nobody runs in an orphaned region, the meta pages to the commits (`History`).
* `OpeningsFailForAReason` (`OpensFail`), an action property with the same
  exemption, from the same invariant.

`LmdbTxnProofs`, for any number of processes, keys and pages, under
`LmdbTxnAssumption` and `BoundsAssumption`, from an empty store:

* `WritersBuildOnLastCommit` (`BuildsOnLastCommit`).  The last commit is what the
  newest meta page says; a writer takes its txnid from the lock file.  `IInv` says that the two agree whenever a process may begin
  (`LockFile`), which with deaths at every point needs who owns the mutex
  (`Owner`) and what the commit in progress has written (`Newest`).  The lemma
  about steps, `NextIInv`, does not depend on the initial store.
* `NewestStaysIntact` (`NewestIsIntact`) and `SnapshotsStayIntact`
  (`SnapshotIntact`, for readers whose copy of the meta page was not overtaken),
  from `IInv` and `PagesInv`, which is about the pages.
  Neither property is inductive: that no page of a snapshot is written to depends
  on what every writer takes for free, and that on who looked at which reader
  when. `PagesInv` has five parts.
  * `Store`: the two meta pages. The newest is `Intact`: every page of the map is
    in exactly one of the tree, the page of the free database and its records
    (`Parts`). A meta page that belongs to a commit describes it, and a page of an
    older tree is in the newest tree or in a record freed after that older commit
    (`Protected`).
  * `WritersKnow`: while a transaction changes data (`Working`), an account of its
    pages (`Account`): each is in use, freed, loose, in `me_pghead` or in a record
    that is left, and those it may write to are new or come from records up to
    `me_pglast`. After
    `mdb_freelist_save`, while the meta page is filled (`Saved`), the tree that is
    about to be published is intact already, and what it replaces is in the
    record of this transaction.
  * `ReadersKnow`: what a reader has copied is a committed tree, whole and
    protected, or it was overtaken by a whole commit.
  * `Slots` and `Watched`: neither `me_pgoldest`, cached in an environment, nor
    `me_pglast`, the last record taken, passes the txnid of a reader whose slot is
    set. The result of `mdb_find_oldest` may be old when it is used; it is then
    too low, never too high.

  The argument follows the procedures: each of `mdb_page_alloc`, `mdb_page_touch`,
  the path to a leaf, put, delete and `mdb_freelist_save` has a lemma on the
  account before and after (`FetchAccount`, `AllocAccount`, ...,
  `FreelistAccount`). That the others do not notice follows from what a
  transaction may write to (`HeldPages`, `StepKeeps`, `ChangeKeeps`): trees that
  share none of those pages are the same after it (`FrameTree`, `FrameSnapshot`).
  Then there is one lemma per action, and `NextPages` combines them. `PagesInv` was
  checked by TLC from the used store of `lmdb_txn`; its step lemma does not depend
  on the initial store either. The bounds have to be numbers because the "no
  reader" value of a slot is the number above `MaxTxn`; a map has at least the two
  meta pages.

Only model-checked:

* liveness: `CommandEnds`, `Delivered`, `OpenEnds`;
* `ApproximateIsClose` as it stands, which ranges over the states of
  `MCAlgorithms`, a module with recursive operators; its content is
  `ApproximateCountsAreClose`;
* `LmdbTree` and its refinement of `SortedMap`, and the computations of
  `MCAlgorithms`, which are recursive over data.

## 6. Not modelled

* Loss of power: under `MDB_NOSYNC` the stores promise nothing then.  A process
  that dies leaves what it wrote to the map, which is shared.
* The sync thread (`lmdb_helper.cpp:62`): it changes nothing that can be read on
  a running machine; a sync of an environment closed meanwhile is undefined.
* liblmdb: overflow pages, sub-databases, `MDB_DUPFIXED` pages, `MDB_APPEND`,
  `MDB_MULTIPLE`, spilling of dirty pages, nested transactions, `mdb_env_copy`.
  hashdb meets the first two when a key has many duplicates (the sub-page turns
  into a tree of its own) or when much is freed at once, and does not use the
  others: its transactions hold one write. In `LmdbTree` keys are deleted only
  from databases without duplicates (the free database), as in hashdb;
  `LmdbTxn` has trees of two levels and `LmdbTree` one transaction, so a write
  transaction that changes a deep tree is not one model.
* `lmdb_hash_manager.hpp:232` writes the byte of a known prefix straight into the
  mapped page before `mdb_put` copies that page, so the byte is in the page of the
  old snapshots too, and stays there if the process dies before its commit.
  `LmdbTxn`, where a page is written to only after `mdb_page_touch`, does not have
  this.  In `ImportManager` and `ScanManager` an insert into the hash store is one
  step, which can be taken to be that write: a scan reads one byte.
* `LmdbEnv` is one of five stores; `ftruncate` in `mdb_env_map` and a process
  that opens a store twice are left out.
* In `Transfer` each hash has its own entry in the hash store; shared prefixes
  are in `ImportManager` and `ScanManager`.
* rapidjson: a document is taken as parsed, valid or not.  zlib, libewf and
  OpenSSL are external: streams, images and hashes are values.
* Command-line parsing, text output, time stamps, the log, the values of the
  settings, the bytes of variable-length numbers, the Python bindings and the
  Windows build.

## 7. Plan

1. `LmdbTxn` with the trees of `LmdbTree`: a transaction that dies within a
   split, and the free list it leaves. Most of
   `PagesInv` speaks of a tree only by the pages it reaches and the data it holds.
2. The bytes of variable-length numbers against their reference definition.
