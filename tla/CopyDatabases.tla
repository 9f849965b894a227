--------------------------- MODULE CopyDatabases ----------------------------
(***************************************************************************)
(* The commands that copy hash databases into another one: add,            *)
(* add_multiple, add_repository, add_range, intersect, intersect_hash,     *)
(* subtract, subtract_hash and subtract_repository (commands.hpp), over    *)
(* the copiers adder_t and adder_set_t.                                    *)
(*                                                                         *)
(* A database is what its five stores hold between two calls of the        *)
(* import manager: the sub_count of every source of every hash (0: the     *)
(* hash does not have the source), the entropy and label of every hash,    *)
(* the data of every source (NoSource: the source has no ID) and its       *)
(* names.  A call of the destination's import manager is one step, and the *)
(* process may be killed between two calls.                                *)
(***************************************************************************)
EXTENDS Naturals, FiniteSets, Sequences, SequencesExt, FiniteSetsExt,
        Functions

CONSTANTS
    Hash,          \* block hashes, positive numbers in the order of the keys
    Source,        \* file hashes, numbers in their order
    Name,          \* (repository name, filename) pairs, numbers in order
    Repository,    \* the names that are of the repository asked for
    Blank,         \* the data of a source nobody described
    NoSource,      \* no data: the source has no ID
    m, n,          \* the range of add_range (n = 0: no upper end)
    Commands,      \* the commands that are run
    Inputs,        \* databases a and b, as functions on {"a", "b"}
    Destinations,  \* databases the destination may hold before
    MaxRuns        \* how often the command is started: bounds Interrupt

VARIABLES
    command, db,   \* the command line
    dest,          \* the destination's stores
    before,        \* history: the destination when the process started
    adder,         \* the copier's sets, per producer
    producers,     \* the ordered multimap of (next hash, producer)
    todo,          \* the sources of the hash being added, still to process
    names,         \* the names of the source being added, still to insert
    index,         \* the progress tracker
    pc, runs

vars == <<command, db, dest, before, adder, producers, todo, names, index,
          pc, runs>>

AllCommands ==
    {"add", "add_multiple", "add_repository", "add_range", "intersect",
     "intersect_hash", "subtract", "subtract_hash", "subtract_repository"}

(* What a database holds between two calls of the import manager: a source *)
(* with a hash or with names has an ID, and so data, blank or not.         *)
IsDatabase(d) ==
    /\ d = [count |-> d.count, label |-> d.label, data |-> d.data,
            names |-> d.names]
    /\ d.count \in [Hash -> [Source -> Nat]]
    /\ d.label = [h \in Hash |-> d.label[h]]
    /\ d.data = [s \in Source |-> d.data[s]]
    /\ d.names \in [Source -> SUBSET Name]
    /\ \A s \in Source : d.data[s] = NoSource =>
          d.names[s] = {} /\ \A h \in Hash : d.count[h][s] = 0

ASSUME CopyAssumption ==
    /\ Hash \subseteq Nat \ {0} /\ IsFiniteSet(Hash)
    /\ Source \subseteq Nat /\ IsFiniteSet(Source)
    /\ Name \subseteq Nat
    /\ Blank # NoSource
    /\ m \in Nat /\ n \in Nat
    /\ Commands \subseteq AllCommands
    /\ \A i \in Inputs : \A a \in {"a", "b"} : IsDatabase(i[a])
    /\ \A d \in Destinations : IsDatabase(d)

(***************************************************************************)
(* Reading a database.                                                     *)
(***************************************************************************)
sources(d, h) == {s \in Source : d.count[h][s] > 0}

find_hash_count(d, h) == SumFunction(d.count[h])

Hashes(d) == {h \in Hash : sources(d, h) # {}}

(* The first hash, and the next one in the order of the keys; 0 is "".     *)
first_hash(d) == IF Hashes(d) = {} THEN 0 ELSE Min(Hashes(d))

next_hash(d, h) ==
    LET later == {k \in Hashes(d) : k > h}
    IN  IF later = {} THEN 0 ELSE Min(later)

(* A faulty variant of the next definition. *)
load_preexisting_sources_Named(d) ==
    {s \in Source : d.names[s] # {}}

(* The sources the walk over first_source and next_source collects.        *)
load_preexisting_sources(d) == {s \in Source : d.data[s] # NoSource}

(* size_hashes: the entries of the hash data store, which keeps one record *)
(* for a hash with one source and one more than its sources for others.    *)
size_hashes(d) ==
    SumFunction([h \in Hash |-> LET k == Cardinality(sources(d, h))
                                IN  IF k > 1 THEN k + 1 ELSE k])

(* A faulty variant of the next definition. *)
track_hash_data_PerSource(count) == count

track_hash_data(count) == IF count = 1 THEN 1 ELSE count + 1

(***************************************************************************)
(* Writing the destination.                                                *)
(***************************************************************************)
merge_hash(d, h, label, s, sub_count) ==
    LET new == d.count[h][s] = 0
    IN  [d EXCEPT
           !.count[h][s] = IF new THEN sub_count ELSE @,
           !.label[h] = IF sources(d, h) = {} THEN label ELSE @,
           !.data[s] = IF @ = NoSource THEN Blank ELSE @]

insert_source_data(d, s, data) == [d EXCEPT !.data[s] = data]

insert_source_name(d, s, name) == [d EXCEPT !.names[s] = @ \union {name}]

(***************************************************************************)
(* Which sources of hash h each command looks at.  For the commands with   *)
(* two inputs "a" is manager_a and "b" manager_b.                          *)
(***************************************************************************)
add(a, h) == sources(db[a], h)

(* A faulty variant of the next definition. *)
add_range_Open(h) ==
    IF find_hash_count(db["a"], h) > m
       /\ (n = 0 \/ find_hash_count(db["a"], h) <= n)
    THEN sources(db["a"], h) ELSE {}

add_range(h) ==
    IF find_hash_count(db["a"], h) >= m
       /\ (n = 0 \/ find_hash_count(db["a"], h) <= n)
    THEN sources(db["a"], h) ELSE {}

intersect(h) == sources(db["a"], h) \intersect sources(db["b"], h)

intersect_hash(h) ==
    IF sources(db["b"], h) = {} THEN {}
    ELSE sources(db["a"], h) \union sources(db["b"], h)

subtract(h) == sources(db["a"], h) \ sources(db["b"], h)

subtract_hash(h) ==
    IF find_hash_count(db["b"], h) = 0 THEN sources(db["a"], h) ELSE {}

Selected(a, h) ==
    CASE command = "add_range" -> add_range(h)
      [] command = "intersect" -> intersect(h)
      [] command = "intersect_hash" -> intersect_hash(h)
      [] command = "subtract" -> subtract(h)
      [] command = "subtract_hash" -> subtract_hash(h)
      [] OTHER -> add(a, h)

ByRepository == command \in {"add_repository", "subtract_repository"}
BySet == command \in {"intersect", "intersect_hash", "subtract",
                      "subtract_hash"}

(* The sub_count that is copied: intersect_hash takes those of A first.    *)
SubCount(a, h, s) ==
    IF db[a].count[h][s] > 0 THEN db[a].count[h][s] ELSE db["b"].count[h][s]

(***************************************************************************)
(* The copier.                                                             *)
(***************************************************************************)
NewAdder(d) == [preexisting |-> load_preexisting_sources(d),
                processed |-> {}, repository |-> {}, non_repository |-> {}]

(* The repository_sources and non_repository_sources after the names of    *)
(* source s, its, are read.                                                *)
classify_repository_source(r, s, its) ==
    [r EXCEPT
       !.repository =
           IF its \intersect Repository # {} THEN @ \union {s} ELSE @,
       !.non_repository =
           IF its \ Repository # {} THEN @ \union {s} ELSE @]

Classified(r, s, a) ==
    IF ByRepository /\ s \notin r.processed /\ s \notin r.non_repository
    THEN classify_repository_source(r, s, db[a].names[s]) ELSE r

Accepted(r, s) ==
    CASE command = "add_repository" -> s \in r.repository
      [] command = "subtract_repository" -> s \in r.non_repository
      [] OTHER -> TRUE

(* The source data of A, else of B. *)
SourceData(a, s) ==
    IF db[a].data[s] # NoSource THEN db[a].data[s] ELSE db["b"].data[s]

NamesToAdd(a, s) ==
    CASE command = "add_repository" -> db[a].names[s] \intersect Repository
      [] command = "subtract_repository" -> db[a].names[s] \ Repository
      [] BySet -> db["a"].names[s] \union db["b"].names[s]
      [] OTHER -> db[a].names[s]

(* The insertion of an entry into the multimap, which is in the order of   *)
(* its keys: after the equal keys.                                         *)
Enqueue(queue, entry) ==
    LET before_it == {i \in 1 .. Len(queue) : queue[i][1] <= entry[1]}
    IN  InsertAt(queue, Cardinality(before_it) + 1, entry)

(* The entry of producer a after hash h, unless it is depleted.            *)
Advance(queue, a, h) ==
    IF next_hash(db[a], h) = 0 THEN queue
    ELSE Enqueue(queue, <<next_hash(db[a], h), a>>)

Producers == IF command = "add_multiple" THEN {"a", "b"} ELSE {"a"}

(* The hash records of all producers, which the tracker counts up to.      *)
total_hash_records == SumFunction([a \in Producers |-> size_hashes(db[a])])

(* Producer a is enqueued at its first hash, unless it is empty.           *)
Open(queue, a) ==
    IF first_hash(db[a]) = 0 THEN queue
    ELSE Enqueue(queue, <<first_hash(db[a]), a>>)

OpenProducers ==
    IF command = "add_multiple" THEN Open(Open(<<>>, "a"), "b")
    ELSE Open(<<>>, "a")

(***************************************************************************)
(* The process.                                                            *)
(***************************************************************************)
Init ==
    /\ command \in Commands
    /\ db \in Inputs
    /\ dest \in Destinations
    /\ before = dest
    /\ adder = [a \in {"a", "b"} |-> NewAdder(dest)]
    /\ producers = <<>> /\ todo = {} /\ names = {}
    /\ index = 0 /\ pc = "start" /\ runs = 0

(* The command opens the databases and constructs its copiers, which note  *)
(* the sources the destination has.                                        *)
Start ==
    /\ pc = "start" /\ runs < MaxRuns
    /\ runs' = runs + 1
    /\ before' = dest
    /\ adder' = [a \in {"a", "b"} |-> NewAdder(dest)]
    /\ producers' = OpenProducers
    /\ index' = 0
    /\ pc' = IF OpenProducers = <<>> THEN "done" ELSE "hash"
    /\ UNCHANGED <<command, db, dest, todo, names>>

hash == Head(producers)[1]
producer == Head(producers)[2]

(* find_hash in A (and in B), and the sources to go through.               *)
ReadHash ==
    /\ pc = "hash"
    /\ todo' = Selected(producer, hash)
    /\ pc' = "source"
    /\ UNCHANGED <<command, db, dest, before, adder, producers, names, index,
                   runs>>

(* A source the destination had already is skipped. *)
SkipSource ==
    /\ pc = "source" /\ todo # {}
    /\ LET s == Min(todo)
           r == Classified(adder[producer], s, producer)
       IN  /\ \/ /\ s \in adder[producer].preexisting
                 /\ UNCHANGED adder
              \/ /\ s \notin adder[producer].preexisting
                 /\ ~Accepted(r, s)
                 /\ adder' = [adder EXCEPT ![producer] = r]
    /\ todo' = todo \ {Min(todo)}
    /\ UNCHANGED <<command, db, dest, before, producers, names, index, pc,
                   runs>>

AddHash ==
    /\ pc = "source" /\ todo # {}
    /\ LET s == Min(todo)
           r == Classified(adder[producer], s, producer)
           seen == s \in r.processed
       IN  /\ s \notin r.preexisting /\ Accepted(r, s)
           /\ adder' = [adder EXCEPT ![producer] = r]
           /\ dest' = merge_hash(dest, hash, db[producer].label[hash], s,
                                 SubCount(producer, hash, s))
           /\ todo' = IF seen THEN todo \ {s} ELSE todo
           /\ pc' = IF seen THEN "source" ELSE "data"
    /\ UNCHANGED <<command, db, before, producers, names, index, runs>>

(* add_source_data, then find_source_names: adder_t asserts that there are *)
(* some, adder_set_t does not look.                                        *)
AddSourceData ==
    /\ pc = "data"
    /\ LET s == Min(todo)
       IN  /\ dest' = insert_source_data(dest, s, SourceData(producer, s))
           /\ names' = NamesToAdd(producer, s)
           /\ pc' = IF ~BySet /\ db[producer].names[s] = {}
                    THEN "assert" ELSE "names"
    /\ UNCHANGED <<command, db, before, adder, producers, todo, index, runs>>

AddSourceName ==
    /\ pc = "names" /\ names # {}
    /\ dest' = insert_source_name(dest, Min(todo), Min(names))
    /\ names' = names \ {Min(names)}
    /\ UNCHANGED <<command, db, before, adder, producers, todo, index, pc,
                   runs>>

(* A faulty variant of the next definition. *)
SourceProcessed_Everywhere ==
    /\ pc = "names" /\ names = {}
    /\ adder' = [a \in {"a", "b"} |->
                  [adder[a] EXCEPT !.processed = @ \union {Min(todo)}]]
    /\ todo' = todo \ {Min(todo)}
    /\ pc' = "source"
    /\ UNCHANGED <<command, db, dest, before, producers, names, index, runs>>

SourceProcessed ==
    /\ pc = "names" /\ names = {}
    /\ adder' = [adder EXCEPT
                   ![producer].processed = @ \union {Min(todo)}]
    /\ todo' = todo \ {Min(todo)}
    /\ pc' = "source"
    /\ UNCHANGED <<command, db, dest, before, producers, names, index, runs>>

(* The tracker counts the hash, and the producer moves to its next one.    *)
NextHash ==
    /\ pc = "source" /\ todo = {}
    /\ LET rest == Advance(Tail(producers), producer, hash)
       IN  /\ producers' = rest
           /\ pc' = IF rest = <<>> THEN "done" ELSE "hash"
    /\ index' = index + track_hash_data(
                            Cardinality(sources(db[producer], hash)))
    /\ UNCHANGED <<command, db, dest, before, adder, todo, names, runs>>

(* The process is killed; what LMDB has committed stays, and the command   *)
(* may be given again.                                                     *)
Interrupt ==
    /\ pc \in {"hash", "source", "data", "names"} /\ runs < MaxRuns
    /\ pc' = "start"
    /\ producers' = <<>> /\ todo' = {} /\ names' = {}
    /\ UNCHANGED <<command, db, dest, before, adder, index, runs>>

(* The command has ended, or an assertion has ended it. *)
Ended == pc \in {"done", "assert"} /\ UNCHANGED vars

Next ==
    \/ Start \/ ReadHash \/ SkipSource \/ AddHash \/ AddSourceData
    \/ AddSourceName \/ SourceProcessed \/ NextHash \/ Interrupt \/ Ended

Spec == Init /\ [][Next]_vars

(***************************************************************************)
(* What the commands promise, as operations on sets.                       *)
(***************************************************************************)
Preexisting == {s \in Source : before.data[s] # NoSource}
Has(a, h, s) == db[a].count[h][s] > 0
InRepository(a, s) == db[a].names[s] \intersect Repository # {}
NotOnlyInRepository(a, s) == db[a].names[s] \ Repository # {}

(* Hash h with source s is copied from producer a. *)
Wanted(a, h, s) ==
    /\ s \notin Preexisting
    /\ CASE command \in {"add", "add_multiple"} -> Has(a, h, s)
         [] command = "add_range" ->
              /\ Has(a, h, s)
              /\ m <= find_hash_count(db[a], h)
              /\ n # 0 => find_hash_count(db[a], h) <= n
         [] command = "add_repository" -> Has(a, h, s) /\ InRepository(a, s)
         [] command = "subtract_repository" ->
              Has(a, h, s) /\ NotOnlyInRepository(a, s)
         [] command = "intersect" -> Has("a", h, s) /\ Has("b", h, s)
         [] command = "intersect_hash" ->
              /\ Has("a", h, s) \/ Has("b", h, s)
              /\ \E t \in Source : Has("a", h, t)
              /\ \E t \in Source : Has("b", h, t)
         [] command = "subtract" -> Has("a", h, s) /\ ~Has("b", h, s)
         [] command = "subtract_hash" ->
              Has("a", h, s) /\ \A t \in Source : ~Has("b", h, t)

Copied(s) == \E a \in Producers, h \in Hash : Wanted(a, h, s)

(* When a command ends, the destination has exactly the hashes and sources *)
(* the command's set operation asks for beside those it had, each with the *)
(* sub_count of an input; a source it had already gained nothing.          *)
(* (adder.hpp, adder_set.hpp: the command run after an interruption        *)
(* included: what a killed run had begun to copy is never completed.)      *)
CopiedExactly ==
    pc = "done" => \A h \in Hash, s \in Source :
        \/ /\ dest.count[h][s] = before.count[h][s]
           /\ \A a \in Producers : ~Wanted(a, h, s)
        \/ /\ before.count[h][s] = 0
           /\ \E a \in Producers :
                /\ Wanted(a, h, s)
                /\ dest.count[h][s] = SubCount(a, h, s)

(* The names of source s that are kept when it is copied from a. *)
NamesKept(a, s) ==
    {x \in Name :
       /\ x \in db[a].names[s] \/ (BySet /\ x \in db["b"].names[s])
       /\ command = "add_repository" => x \in Repository
       /\ command = "subtract_repository" => x \notin Repository}

(* When a command ends, each source it copied has the names the command    *)
(* keeps, of every input it was copied from, and one input's source data:  *)
(* the blank data of the first merge_hash never stays.                     *)
SourcesDescribed ==
    pc = "done" => \A s \in Source : Copied(s) =>
        LET its == {a \in Producers : \E h \in Hash : Wanted(a, h, s)}
        IN  /\ dest.names[s] = UNION {NamesKept(a, s) : a \in its}
            /\ dest.data[s] \in {SourceData(a, s) : a \in its}

(* The progress shown when a command ends is the total shown while it      *)
(* runs: the records of the hash data stores that were read, which the     *)
(* tracker reckons from the number of sources alone.                       *)
ProgressReachesTotal ==
    pc = "done" => index = total_hash_records

(* A source the destination had when the command started keeps its hashes, *)
(* its data and its names through every step, and a hash keeps the label   *)
(* it came with.                                                           *)
Untouched ==
    /\ \A s \in Preexisting :
          /\ dest'.data[s] = dest.data[s] /\ dest'.names[s] = dest.names[s]
          /\ \A h \in Hash : dest'.count[h][s] = dest.count[h][s]
    /\ \A h \in Hashes(dest) : dest'.label[h] = dest.label[h]

PreexistingUntouched == [][Untouched]_vars
=============================================================================
