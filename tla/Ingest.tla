------------------------------- MODULE Ingest -------------------------------
(***************************************************************************)
(* The ingest command: the adder walks the files, splits each into parts   *)
(* and pushes a job per part; the workers put the block hashes of the part *)
(* into the database, look for compressed files in it and ingest those in  *)
(* place.  ingest_tracker_t counts the parts of each source and writes the *)
(* source data after the last one.                                         *)
(*                                                                         *)
(* A file is its content (its file hash); several filenames, and several   *)
(* places inside compressed data, may have the same content.  A part's     *)
(* blocks go into the database in one step: import_manager_t only ever     *)
(* adds, so the blocks of two parts commute (ImportManager has the steps   *)
(* of one call).  insert_source_name writes a blank source data record     *)
(* when it has made a new source ID, in a step of its own: other threads   *)
(* run between the two.  Names, labels, entropy and progress output are    *)
(* left out.                                                               *)
(***************************************************************************)
EXTENDS JobQueue, FiniteSets

CONSTANTS
    File,            \* file contents
    filenames,       \* filenames: the sequence of the files' contents
    Parts,           \* Parts[f]: number of buffers needed for f
    Embedded,        \* Embedded[f]: the contents compressed in f, in order;
                     \* the compressed data starts in the first part of f
    MaxDepth,        \* maximum recursion depth, 7 in the code
    ReadErrors,      \* whether opening or reading a file may fail
    MaxRuns          \* bound: number of ingest commands on the database

ASSUME IngestAssumption ==
    /\ filenames \in Seq(File)
    /\ Parts \in [File -> Nat \ {0}]
    /\ Embedded \in [File -> Seq(File)]
    /\ MaxDepth \in Nat
    /\ ReadErrors \in BOOLEAN
    /\ MaxRuns \in Nat \ {0}

VARIABLES
    source_data_map,  \* the tracker's source_data_map[f], or Untracked
    preexisting,      \* the tracker's preexisting_sources
    sources,          \* database: the files that have a source ID
    ingested,         \* database: ingested[f][p] is the number of times that
                      \* the blocks of part p of f have been counted
    source_data,      \* database: the source data record of f: "none",
                      \* "blank" or "real"
    described,        \* history: described[f] is the number of calls of
                      \* insert_source_data for f
    overtaken,        \* history: files that were added to the tracker while
                      \* the thread that made their ID owed the blank record
    failed,           \* history: files that this command failed to read
    runs              \* number of ingest commands begun

trackerVars == <<source_data_map, preexisting>>
dbVars == <<sources, ingested, source_data, described>>
vars == <<queueVars, adder, worker, trackerVars, dbVars, overtaken, failed,
          runs>>

Untracked == [tracked |-> FALSE]

AllParts(f) == 1 .. Parts[f]

(* A faulty variant of the next definition. *)
new_ingest_job_AlwaysIngests(f, ps, disable_ingest_hashes, depth) ==
    [pc |-> "hashes", file |-> f, parts |-> ps,
     disable_ingest_hashes |-> FALSE,
     embedded |-> IF 1 \in ps THEN Embedded[f] ELSE <<>>,
     recursion_depth |-> depth]

(* A job for the parts ps of f. *)
new_ingest_job(f, ps, disable_ingest_hashes, depth) ==
    [pc |-> "hashes", file |-> f, parts |-> ps,
     disable_ingest_hashes |-> disable_ingest_hashes,
     embedded |-> IF 1 \in ps THEN Embedded[f] ELSE <<>>,
     recursion_depth |-> depth]

Init ==
    /\ QueueInit
    /\ adder = [pc |-> "file", k |-> 1]
    /\ source_data_map = [f \in File |-> Untracked]
    /\ preexisting = {}
    /\ sources = {}
    /\ ingested = [f \in File |-> [p \in AllParts(f) |-> 0]]
    /\ source_data = [f \in File |-> "none"]
    /\ described = [f \in File |-> 0]
    /\ overtaken = {} /\ failed = {} /\ runs = 1

ThisFile == filenames[adder.k]

Job(w) == Head(worker[w].stack)

At(w, label) ==
    /\ worker[w].pc = "work"
    /\ Job(w).pc = label

-----------------------------------------------------------------------------
(***************************************************************************)
(* insert_source_name: the source ID and the name, then the blank record   *)
(* "if the source ID is new".                                              *)
(***************************************************************************)
(* A faulty variant of the next definition. *)
is_new_id_Always(f) == TRUE

is_new_id(f) == f \notin sources

(* A thread has made the ID of f and has still to write the blank record.  *)
OwesBlank(f) ==
    \/ adder.pc = "blank" /\ ThisFile = f
    \/ \E w \in Worker : At(w, "blank") /\ Head(Job(w).embedded) = f

insert_blank(f) == source_data' = [source_data EXCEPT ![f] = "blank"]

-----------------------------------------------------------------------------
(***************************************************************************)
(* ingest_tracker_t                                                        *)
(***************************************************************************)
(* A faulty variant of the next definition. *)
Known_ThisCommandOnly(f) == source_data_map[f].tracked

Known(f) == f \in preexisting \/ source_data_map[f].tracked

(* add_source returns ~Known(f). *)
add_source(f, parts_total) ==
    /\ source_data_map' =
          IF Known(f) THEN source_data_map
          ELSE [source_data_map EXCEPT ![f] =
                   [tracked |-> TRUE, parts_total |-> parts_total,
                    parts_done |-> 0]]
    /\ overtaken' = IF ~Known(f) /\ OwesBlank(f) THEN overtaken \cup {f}
                                                 ELSE overtaken

(* The assertions at the beginning of track_source. *)
TrackAsserts(f) ==
    /\ source_data_map[f].tracked
    /\ source_data_map[f].parts_done # source_data_map[f].parts_total

(* A faulty variant of the next definition. *)
IsFinalPart_AtFirst(f) == source_data_map[f].parts_done = 0

IsFinalPart(f) ==
    source_data_map[f].parts_done + 1 = source_data_map[f].parts_total

-----------------------------------------------------------------------------
(***************************************************************************)
(* The adder: the loop of ingest over the files, and ingest_file.          *)
(***************************************************************************)
(* The file is hashed, then insert_source_name.                            *)
HashFile ==
    /\ adder.pc = "file" /\ adder.k <= Len(filenames)
    /\ sources' = sources \cup {ThisFile}
    /\ adder' = [pc |-> IF is_new_id(ThisFile) THEN "blank" ELSE "add_source",
                 k |-> adder.k]
    /\ UNCHANGED <<queueVars, worker, trackerVars, ingested, source_data,
                   described, overtaken, failed, runs>>

(* The end of insert_source_name when the ID is new.                       *)
BlankFile ==
    /\ adder.pc = "blank"
    /\ insert_blank(ThisFile)
    /\ adder' = [pc |-> "add_source", k |-> adder.k]
    /\ UNCHANGED <<queueVars, worker, trackerVars, sources, ingested,
                   described, overtaken, failed, runs>>

(* The file cannot be opened, is empty, or cannot be read to be hashed.    *)
SkipFile ==
    /\ ReadErrors
    /\ adder.pc = "file" /\ adder.k <= Len(filenames)
    /\ adder' = [pc |-> "file", k |-> adder.k + 1]
    /\ failed' = failed \cup {ThisFile}
    /\ UNCHANGED <<queueVars, worker, trackerVars, dbVars, overtaken, runs>>

(* add_source, and the job for the first buffer. *)
AddSource ==
    /\ adder.pc = "add_source"
    /\ add_source(ThisFile, Parts[ThisFile])
    /\ adder' = [pc |-> "size", k |-> adder.k, part |-> 1,
                 disable |-> Known(ThisFile),
                 job |-> new_ingest_job(ThisFile, {1}, Known(ThisFile), 0)]
    /\ UNCHANGED <<queueVars, worker, preexisting, dbVars, failed, runs>>

(* The loop over the remaining buffers: read the next one and push it.     *)
ReadPart ==
    LET p == adder.part + 1 IN
    /\ adder.pc = "pushed" /\ p <= Parts[ThisFile]
    /\ adder' = [adder EXCEPT !.pc = "size", !.part = p,
            !.job = new_ingest_job(ThisFile, {p}, adder.disable, 0)]
    /\ UNCHANGED <<queueVars, worker, trackerVars, dbVars, overtaken, failed,
                   runs>>

(* "abort submitting jobs for this file".                                  *)
ReadPartFails ==
    /\ ReadErrors
    /\ adder.pc = "pushed" /\ adder.part < Parts[ThisFile]
    /\ adder' = [pc |-> "file", k |-> adder.k + 1]
    /\ failed' = failed \cup {ThisFile}
    /\ UNCHANGED <<queueVars, worker, trackerVars, dbVars, overtaken, runs>>

EndFile ==
    /\ adder.pc = "pushed" /\ adder.part = Parts[ThisFile]
    /\ adder' = [pc |-> "file", k |-> adder.k + 1]
    /\ UNCHANGED <<queueVars, worker, trackerVars, dbVars, overtaken, failed,
                   runs>>

EndFiles ==
    /\ adder.pc = "file" /\ adder.k > Len(filenames)
    /\ adder' = [pc |-> "no_more", k |-> adder.k]
    /\ UNCHANGED <<queueVars, worker, trackerVars, dbVars, overtaken, failed,
                   runs>>

AdderQueue ==
    /\ QueueAdder
    /\ UNCHANGED <<trackerVars, dbVars, overtaken, failed, runs>>

Adder == HashFile \/ BlankFile \/ SkipFile \/ AddSource \/ ReadPart
         \/ ReadPartFails \/ EndFile \/ EndFiles \/ AdderQueue

-----------------------------------------------------------------------------
(***************************************************************************)
(* A worker: process_ingest_job for the job on top of its stack.           *)
(***************************************************************************)
(* w replaces the job on top of its stack by the jobs js. *)
Becomes(w, js) ==
    worker' = [worker EXCEPT ![w].stack = js \o Tail(worker[w].stack)]

Goto(w, label) == Becomes(w, <<[Job(w) EXCEPT !.pc = label]>>)

(* insert_hash for every block of the job.  The source has its ID from     *)
(* insert_source_name, so no blank record comes after it.                  *)
IngestHashes(w) ==
    LET j == Job(w) IN
    /\ At(w, "hashes")
    /\ IF j.disable_ingest_hashes
       THEN /\ Goto(w, "recursive")
            /\ UNCHANGED <<sources, ingested>>
       ELSE /\ Goto(w, "track")
            /\ sources' = sources \cup {j.file}
            /\ ingested' = [ingested EXCEPT ![j.file] =
                  [p \in AllParts(j.file) |->
                      @[p] + (IF p \in j.parts THEN 1 ELSE 0)]]
    /\ UNCHANGED <<queueVars, adder, trackerVars, source_data, described,
                   overtaken, failed, runs>>

(* track_source, under the tracker's lock.  (The process aborts when an    *)
(* assertion does not hold: there is no step then.)                        *)
track_source(w) ==
    LET f == Job(w).file IN
    /\ At(w, "track")
    /\ TrackAsserts(f)
    /\ source_data_map' = [source_data_map EXCEPT ![f].parts_done = @ + 1]
    /\ Goto(w, IF IsFinalPart(f) THEN "source_data" ELSE "recursive")
    /\ UNCHANGED <<queueVars, adder, preexisting, dbVars, overtaken, failed,
                   runs>>

(* track_source after the unlock: the final update writes the source data. *)
WriteSourceData(w) ==
    LET f == Job(w).file IN
    /\ At(w, "source_data")
    /\ source_data' = [source_data EXCEPT ![f] = "real"]
    /\ described' = [described EXCEPT ![f] = @ + 1]
    /\ sources' = sources \cup {f}
    /\ Goto(w, "recursive")
    /\ UNCHANGED <<queueVars, adder, trackerVars, ingested, overtaken,
                   failed, runs>>

(* process_recursive finds compressed data; recurse calls                  *)
(* insert_source_name.                                                     *)
RecurseName(w) ==
    LET j == Job(w) IN
    /\ At(w, "recursive")
    /\ j.recursion_depth < MaxDepth
    /\ j.embedded # <<>>
    /\ sources' = sources \cup {Head(j.embedded)}
    /\ Goto(w, IF is_new_id(Head(j.embedded)) THEN "blank" ELSE "recurse")
    /\ UNCHANGED <<queueVars, adder, trackerVars, ingested, source_data,
                   described, overtaken, failed, runs>>

(* The end of insert_source_name when the ID is new.                       *)
BlankRecursed(w) ==
    /\ At(w, "blank")
    /\ insert_blank(Head(Job(w).embedded))
    /\ Goto(w, "recurse")
    /\ UNCHANGED <<queueVars, adder, trackerVars, sources, ingested,
                   described, overtaken, failed, runs>>

(* recurse adds the source and runs the new job inside this one.           *)
Recurse(w) ==
    LET j == Job(w)
        f == Head(j.embedded) IN
    /\ At(w, "recurse")
    /\ add_source(f, 1)
    /\ Becomes(w, <<new_ingest_job(f, AllParts(f), Known(f),
                                   j.recursion_depth + 1),
                    [j EXCEPT !.pc = "recursive", !.embedded = Tail(@)]>>)
    /\ UNCHANGED <<queueVars, adder, preexisting, dbVars, failed, runs>>

(* The job is deleted; the worker returns to the job around it.            *)
EndJob(w) ==
    LET j == Job(w) IN
    /\ At(w, "recursive")
    /\ j.embedded = <<>> \/ j.recursion_depth >= MaxDepth
    /\ IF Len(worker[w].stack) = 1 THEN Finished(w) ELSE Becomes(w, <<>>)
    /\ UNCHANGED <<queueVars, adder, trackerVars, dbVars, overtaken, failed,
                   runs>>

WorkerQueue(w) ==
    /\ QueueWorker(w)
    /\ UNCHANGED <<trackerVars, dbVars, overtaken, failed, runs>>

WorkerStep(w) ==
    \/ WorkerQueue(w) \/ IngestHashes(w)
    \/ track_source(w) \/ WriteSourceData(w)
    \/ RecurseName(w) \/ BlankRecursed(w) \/ Recurse(w) \/ EndJob(w)

-----------------------------------------------------------------------------
(* A new ingest command opens the database: the sources that are in it are *)
(* preexisting, and the memory of the last command is gone.                *)
NewCommand ==
    /\ runs < MaxRuns
    /\ runs' = runs + 1
    /\ job_queue' = <<>>
    /\ is_done_adding' = FALSE
    /\ worker' = [w \in Worker |-> Waiting]
    /\ adder' = [pc |-> "file", k |-> 1]
    /\ source_data_map' = [f \in File |-> Untracked]
    /\ preexisting' = sources
    /\ failed' = {}
    /\ UNCHANGED <<dbVars, overtaken>>

IngestAgain == adder.pc = "joined" /\ NewCommand

(* The process dies, and ingest is run again. *)
Crash == adder.pc # "joined" /\ NewCommand

Step == Adder \/ \E w \in Worker : WorkerStep(w)

Next == Step \/ IngestAgain

(* Each thread is scheduled again and again, also when it spins.           *)
Fairness ==
    /\ WF_vars(Adder)
    /\ \A w \in Worker : WF_vars(WorkerStep(w))

Spec == Init /\ [][Next]_vars /\ Fairness

CrashSpec == Init /\ [][Next \/ Crash]_vars /\ Fairness

-----------------------------------------------------------------------------
(***************************************************************************)
(* The assertions of track_source hold: the jobs that report to the        *)
(* tracker for a source are exactly as many as the parts it was added      *)
(* with, although add_source is called by the adder and by workers that    *)
(* meet the same content in different ways.  And the queue that is deleted *)
(* after the workers were joined is empty (job_queue.hpp:92, "program      *)
(* error").                                                                *)
(***************************************************************************)
AssertsHold ==
    /\ \A w \in Worker : At(w, "track") => TrackAsserts(Job(w).file)
    /\ QueueDrained

(***************************************************************************)
(* "do not re-ingest hashes from duplicate sources": no block of a source  *)
(* is counted twice, whether the content comes under another filename,     *)
(* inside compressed data or in a later command, and across crashes.       *)
(***************************************************************************)
IngestedOnce ==
    \A f \in File : \A p \in AllParts(f) : ingested[f][p] <= 1

Complete(f) == \A p \in AllParts(f) : ingested[f][p] = 1

(***************************************************************************)
(* Source data is written once, by "the final update for this source":     *)
(* after the blocks of all its parts are in the database, in whatever      *)
(* order the workers finish them.                                          *)
(***************************************************************************)
DescribedIsComplete ==
    \A f \in File : /\ described[f] <= 1
                    /\ described[f] = 1 => Complete(f)

NamedFiles == {filenames[k] : k \in 1 .. Len(filenames)}

FoundIn(f) ==
    IF MaxDepth = 0 THEN {} ELSE {Embedded[f][k] : k \in 1 .. Len(Embedded[f])}

Compressed ==
    {g \in File : \E f \in File : \E k \in 1 .. Len(Embedded[f]) :
                      Embedded[f][k] = g}

(***************************************************************************)
(* When a command ends, every file that it could read and that was not in  *)
(* the database before, and what was compressed in it, is in the database  *)
(* with its source data; also when the command before it died half way.    *)
(* The real source data may have been replaced by a blank record           *)
(* (libhashdb.cpp:303) only if one thread added the source while another   *)
(* was between making its ID and writing that record, which takes content  *)
(* that is found in compressed data: the adder alone writes the blank      *)
(* record before it adds a file.                                           *)
(***************************************************************************)
IngestCompletes ==
    adder.pc = "joined" =>
        \A f \in NamedFiles \ failed :
        \A g \in ({f} \cup (FoundIn(f) \ failed)) \ preexisting :
            /\ Complete(g) /\ described[g] = 1
            /\ \/ source_data[g] = "real"
               \/ /\ source_data[g] = "blank"
                  /\ g \in overtaken \cap Compressed

(* Every command ends, whatever the order in which threads run.            *)
CommandEnds == []<>(adder.pc = "joined")
=============================================================================
