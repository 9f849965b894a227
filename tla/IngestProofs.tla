----------------------------- MODULE IngestProofs -----------------------------
(***************************************************************************)
(* What is proved of the ingest command (Ingest), for any files, parts,    *)
(* compressed content and number of workers, with read errors, several     *)
(* commands and crashes: the assertions of the tracker and of the queue    *)
(* hold, no block is counted twice, source data comes last, and at the end *)
(* of a command everything is in the database, where only a blank record   *)
(* that another thread still owed can have replaced the source data.       *)
(***************************************************************************)
EXTENDS Ingest, FiniteSetTheorems, SequenceTheorems, TLAPS

(***************************************************************************)
(* Types.                                                                  *)
(***************************************************************************)
Jobs == [pc : {"hashes", "track", "source_data", "recursive", "blank",
               "recurse"},
         file : File, parts : SUBSET Nat, disable_ingest_hashes : BOOLEAN,
         embedded : Seq(Compressed), recursion_depth : Nat]

Idlers == [pc : {"file", "blank", "add_source", "no_more", "joining",
                 "joined"},
           k : Nat \ {0}]
Pushers == [pc : {"size", "push", "pushed"}, k : 1 .. Len(filenames),
            part : Nat \ {0}, disable : BOOLEAN, job : Jobs]

Tracks == [tracked : {TRUE}, parts_total : Nat, parts_done : Nat]

TypeOK ==
    /\ job_queue \in Seq(Jobs)
    /\ is_done_adding \in BOOLEAN
    /\ adder \in Idlers \cup Pushers
    /\ worker \in [Worker -> [pc : {"is_done", "pop", "work", "exit"},
                              stack : Seq(Jobs)]]
    /\ source_data_map \in [File -> {Untracked} \cup Tracks]
    /\ preexisting \subseteq File
    /\ sources \subseteq File
    /\ ingested = [f \in File |-> ingested[f]]
    /\ \A f \in File : ingested[f] \in [AllParts(f) -> Nat]
    /\ described \in [File -> Nat]
    /\ runs \in Nat

(***************************************************************************)
(* Where the threads stand: a worker has a job exactly when it is working, *)
(* the jobs around the one it runs wait for it, and the adder pushes a job *)
(* for the part it has read.                                               *)
(***************************************************************************)
Pushing == adder.pc \in {"size", "push", "pushed"}
Working(w) == worker[w].pc = "work"

AdderPlace ==
    /\ adder.pc \in {"blank", "add_source"} => adder.k <= Len(filenames)
    /\ Pushing =>
          /\ adder.part <= Parts[ThisFile]
          /\ adder.job = new_ingest_job(ThisFile, {adder.part}, adder.disable,
                                        0)

Stacks ==
    /\ \A i \in 1 .. Len(job_queue) : job_queue[i].pc = "hashes"
    /\ \A w \in Worker :
          /\ Working(w) <=> worker[w].stack # <<>>
          /\ \A i \in 2 .. Len(worker[w].stack) :
                worker[w].stack[i].pc = "recursive"
          /\ At(w, "blank") \/ At(w, "recurse") =>
                Job(w).embedded # <<>>
          /\ At(w, "track") => ~Job(w).disable_ingest_hashes

(***************************************************************************)
(* The queue is done only when it is empty and stays so.                   *)
(***************************************************************************)
Drained ==
    /\ is_done_adding <=> adder.pc \in {"joining", "joined"}
    /\ \A w \in Worker : worker[w].pc = "exit" =>
          is_done_adding /\ job_queue = <<>>
    /\ adder.pc = "joined" => \A w \in Worker : worker[w].pc = "exit"

(***************************************************************************)
(* The units that the tracker counts for a source: its parts when it is a  *)
(* file, all of it at once when it was found in compressed data.           *)
(***************************************************************************)
Tracked(f) == source_data_map[f].tracked

Units(f) == IF source_data_map[f].parts_total = Parts[f]
            THEN {{p} : p \in AllParts(f)}
            ELSE {AllParts(f)}

(* A job that counts blocks, or that has counted them and is to say so.    *)
Busy(j) == j.pc \in {"hashes", "track"} /\ ~j.disable_ingest_hashes

Clash(i, j) == Busy(i) /\ Busy(j) /\ i.file = j.file /\ i.parts = j.parts

JobOK(j) ==
    Busy(j) =>
        /\ Tracked(j.file)
        /\ j.parts \in Units(j.file)
        /\ \A p \in j.parts :
              ingested[j.file][p] = IF j.pc = "hashes" THEN 0 ELSE 1

(* No unit of a source is in two places.                                   *)
Apart ==
    /\ \A i \in 1 .. Len(job_queue) :
          /\ JobOK(job_queue[i])
          /\ \A j \in 1 .. Len(job_queue) :
                i # j => ~Clash(job_queue[i], job_queue[j])
    /\ \A w \in Worker : Working(w) =>
          /\ JobOK(Job(w))
          /\ \A i \in 1 .. Len(job_queue) : ~Clash(job_queue[i], Job(w))
          /\ \A v \in Worker \ {w} : Working(v) => ~Clash(Job(v), Job(w))

(* The parts that the adder has not pushed yet.                            *)
Unsent == {p \in AllParts(ThisFile) :
              p > adder.part \/ (p = adder.part /\ adder.pc # "pushed")}

Elsewhere(f, U) ==
    /\ \A i \in 1 .. Len(job_queue) :
          ~(Busy(job_queue[i]) /\ job_queue[i].file = f
            /\ job_queue[i].parts = U)
    /\ \A w \in Worker : Working(w) =>
          ~(Busy(Job(w)) /\ Job(w).file = f /\ Job(w).parts = U)

AdderOK ==
    (Pushing /\ ~adder.disable) =>
        /\ Tracked(ThisFile)
        /\ source_data_map[ThisFile].parts_total = Parts[ThisFile]
        /\ \A p \in Unsent :
              ingested[ThisFile][p] = 0 /\ Elsewhere(ThisFile, {p})

(***************************************************************************)
(* What the tracker has counted are the units that were counted in the     *)
(* database and whose job has said so.                                     *)
(***************************************************************************)
Tracking(f, U) ==
    \E w \in Worker : At(w, "track") /\ Job(w).file = f /\ Job(w).parts = U

DoneUnits(f) ==
    {U \in Units(f) : /\ \A p \in U : ingested[f][p] = 1
                      /\ ~Tracking(f, U)}

Counted ==
    \A f \in File : Tracked(f) =>
        /\ f \notin preexisting
        /\ source_data_map[f].parts_total \in {1, Parts[f]}
        /\ source_data_map[f].parts_done = Cardinality(DoneUnits(f))

Full(f) == source_data_map[f].parts_done = source_data_map[f].parts_total

(* One job at most writes the data of a source, and it comes last.         *)
LastJob ==
    \A w \in Worker : At(w, "source_data") =>
        /\ Tracked(Job(w).file) /\ Full(Job(w).file)
        /\ described[Job(w).file] = 0
        /\ \A v \in Worker \ {w} : At(v, "source_data") =>
              Job(v).file # Job(w).file

DataLast ==
    \A f \in File :
        /\ (Tracked(f) /\ described[f] # 0) => Full(f)
        /\ ~Known(f) => described[f] = 0
                        /\ \A p \in AllParts(f) : ingested[f][p] = 0
        /\ (described[f] # 0 \/ \E p \in AllParts(f) : ingested[f][p] # 0) =>
              f \in sources

IInv ==
    /\ TypeOK /\ AdderPlace /\ Stacks /\ Drained
    /\ Apart /\ AdderOK /\ Counted /\ LastJob /\ DataLast
    /\ IngestedOnce /\ DescribedIsComplete

-----------------------------------------------------------------------------
(***************************************************************************)
(* Facts about jobs, stacks and units.                                     *)
(***************************************************************************)
LEMMA PartsForm ==
    ASSUME NEW f \in File
    PROVE  /\ Parts[f] \in Nat /\ Parts[f] >= 1
           /\ 1 \in AllParts(f) /\ AllParts(f) \subseteq Nat
BY IngestAssumption DEF AllParts

(* What a file holds compressed was found in it.                           *)
LEMMA EmbeddedForm ==
    ASSUME NEW f \in File
    PROVE  Embedded[f] \in Seq(Compressed) /\ <<>> \in Seq(Compressed)
<1>1. PICK e \in Seq(File) : e = Embedded[f]
  BY IngestAssumption
<1>2. /\ Len(e) \in Nat /\ e = [k \in 1 .. Len(e) |-> e[k]]
      /\ \A k \in 1 .. Len(e) : e[k] \in File
  OBVIOUS
<1>3. \A k \in 1 .. Len(e) : e[k] \in Compressed
  BY <1>1, <1>2 DEF Compressed
<1>4. e \in [1 .. Len(e) -> Compressed]
  BY <1>2, <1>3
<1>5. e \in Seq(Compressed)
  BY <1>2, <1>4, SeqDef
<1> QED  BY <1>1, <1>5

(* A new job begins by counting the blocks of its parts.                   *)
LEMMA NewJobForm ==
    ASSUME NEW f \in File, NEW ps \in SUBSET Nat, NEW d \in BOOLEAN,
           NEW n \in Nat
    PROVE  LET j == new_ingest_job(f, ps, d, n)
           IN  /\ j \in Jobs
               /\ j.pc = "hashes" /\ j.file = f /\ j.parts = ps
               /\ j.disable_ingest_hashes = d
<1>1. Embedded[f] \in Seq(Compressed) /\ <<>> \in Seq(Compressed)
  BY EmbeddedForm
<1>2. PICK e \in Seq(Compressed) : e = IF 1 \in ps THEN Embedded[f] ELSE <<>>
  BY <1>1
<1>3. new_ingest_job(f, ps, d, n) =
         [pc |-> "hashes", file |-> f, parts |-> ps,
          disable_ingest_hashes |-> d, embedded |-> e, recursion_depth |-> n]
  BY <1>2 DEF new_ingest_job
<1> QED  BY <1>3 DEF Jobs

(* The job a worker runs.                                                  *)
LEMMA JobForm ==
    ASSUME TypeOK, Stacks, NEW w \in Worker, Working(w)
    PROVE  /\ Job(w) \in Jobs
           /\ worker[w].stack \in Seq(Jobs) /\ worker[w].stack # <<>>
           /\ Job(w) = worker[w].stack[1]
BY DEF TypeOK, Stacks, Job

(* The jobs in the queue.                                                  *)
LEMMA QueueForm ==
    ASSUME TypeOK
    PROVE  \A i \in 1 .. Len(job_queue) : job_queue[i] \in Jobs
<1>1. job_queue \in Seq(Jobs)
  BY DEF TypeOK
<1> QED  BY <1>1, ElementOfSeq

(* The units of a source are disjoint sets of its parts, as many as the    *)
(* tracker expects.                                                        *)
LEMMA UnitsForm ==
    ASSUME NEW f \in File, source_data_map[f].parts_total \in {1, Parts[f]}
    PROVE  /\ IsFiniteSet(Units(f))
           /\ Cardinality(Units(f)) = source_data_map[f].parts_total
           /\ \A U \in Units(f) : U # {} /\ U \subseteq AllParts(f)
           /\ \A U, V \in Units(f) : U \cap V # {} => U = V
           /\ \A p \in AllParts(f) : \E U \in Units(f) : p \in U
<1>1. CASE source_data_map[f].parts_total = Parts[f]
  <2> DEFINE n == Parts[f]
             S == {{p} : p \in 1 .. n}
             g == [p \in 1 .. n |-> {p}]
  <2>1. Units(f) = S
    BY <1>1 DEF Units, AllParts
  <2>2. n \in Nat
    BY PartsForm
  <2>3. g \in Bijection(1 .. n, S)
    BY DEF Bijection, Injection, Surjection, IsInjective
  <2>4. ExistsBijection(1 .. n, S)
    BY <2>3 DEF ExistsBijection
  <2>5. IsFiniteSet(S) /\ Cardinality(S) = n
    BY <2>2, <2>4, FS_NatBijection, FS_CountingElements
  <2> QED  BY <1>1, <2>1, <2>5 DEF AllParts
<1>2. CASE source_data_map[f].parts_total # Parts[f]
  <2>1. Units(f) = {AllParts(f)} /\ source_data_map[f].parts_total = 1
    BY <1>2 DEF Units
  <2>2. IsFiniteSet(Units(f)) /\ Cardinality(Units(f)) = 1
    BY <2>1, FS_Singleton
  <2> QED  BY <2>1, <2>2, PartsForm
<1> QED  BY <1>1, <1>2

(* What the tracker has counted is everything only when nothing is left.   *)
LEMMA DoneForm ==
    ASSUME NEW f \in File, source_data_map[f].parts_total \in {1, Parts[f]}
    PROVE  /\ IsFiniteSet(DoneUnits(f))
           /\ Cardinality(DoneUnits(f)) \in Nat
           /\ Cardinality(DoneUnits(f)) = source_data_map[f].parts_total =>
                 DoneUnits(f) = Units(f)
<1>1. DoneUnits(f) \in SUBSET Units(f)
  BY DEF DoneUnits
<1> QED  BY <1>1, UnitsForm, FS_Subset, FS_CardinalityType

(* What the first command starts from.                                     *)
LEMMA InitIInv == Init => IInv
<1> SUFFICES ASSUME Init PROVE IInv
  OBVIOUS
<1> USE DEF Init, QueueInit, Waiting
<1>1. TypeOK
  <2>1. \A f \in File : source_data_map[f] = Untracked
    OBVIOUS
  <2>2. adder \in Idlers
    BY DEF Idlers
  <2>3. /\ job_queue \in Seq(Jobs)
        /\ worker \in [Worker -> [pc : {"is_done", "pop", "work", "exit"},
                                  stack : Seq(Jobs)]]
    OBVIOUS
  <2> QED  BY <2>1, <2>2, <2>3 DEF TypeOK
<1>2. AdderPlace /\ Stacks
  BY DEF AdderPlace, Stacks, Pushing, Working, At
<1>3. Drained
  BY DEF Drained
<1>4. \A f \in File : ~Tracked(f) /\ ~Known(f)
  BY DEF Tracked, Known, Untracked
<1>5. Apart /\ AdderOK
  BY DEF Apart, AdderOK, Working, Pushing
<1>6. Counted
  BY <1>4 DEF Counted
<1>7. LastJob /\ DataLast
  BY <1>4 DEF LastJob, DataLast, At
<1>8. IngestedOnce /\ DescribedIsComplete
  BY DEF IngestedOnce, DescribedIsComplete
<1> QED  BY <1>1, <1>2, <1>3, <1>5, <1>6, <1>7, <1>8 DEF IInv

-----------------------------------------------------------------------------
(***************************************************************************)
(* The steps of the adder.                                                 *)
(***************************************************************************)
(* A step of the adder that pushes nothing and tells the tracker nothing.  *)
AdderMoves ==
    /\ UNCHANGED <<job_queue, worker, source_data_map, preexisting, ingested,
                   described, runs>>
    /\ sources \subseteq sources' /\ sources' \subseteq File

(* The thread that runs ingest changes neither the nested calls of the     *)
(* workers nor what the tracker and the database hold.                     *)
LEMMA AdderMovesKeep ==
    ASSUME IInv, AdderMoves
    PROVE  /\ Stacks' /\ Apart' /\ Counted' /\ LastJob' /\ DataLast'
           /\ IngestedOnce' /\ DescribedIsComplete'
           /\ \A f, U : Elsewhere(f, U) => Elsewhere(f, U)'
<1> USE DEF IInv, AdderMoves
<1>1. Apart'
  BY DEF Apart, JobOK, Tracked, Units, Working, Job
<1>2. Counted'
  <2>1. \A f \in File : DoneUnits(f)' = DoneUnits(f)
    BY DEF DoneUnits, Units, Tracking, At, Job
  <2> QED  BY <2>1 DEF Counted, Tracked
<1>3. LastJob' /\ DataLast'
  BY DEF LastJob, DataLast, At, Job, Tracked, Full, Known
<1>4. IngestedOnce' /\ DescribedIsComplete'
  BY DEF IngestedOnce, DescribedIsComplete, Complete
<1>5. \A f, U : Elsewhere(f, U) => Elsewhere(f, U)'
  BY DEF Elsewhere, Working, Job
<1>6. Stacks'
  BY DEF Stacks, Working, At, Job
<1> QED  BY <1>1, <1>2, <1>3, <1>4, <1>5, <1>6

(* Hashing, naming or skipping a file, the end of a file and of the files. *)
LEMMA BetweenFilesIInv ==
    ASSUME IInv,
           \/ HashFile \/ BlankFile \/ SkipFile
           \/ ReadPartFails \/ EndFile \/ EndFiles
    PROVE  IInv'
<1> USE DEF IInv
<1>1. /\ AdderMoves /\ UNCHANGED is_done_adding
      /\ adder' \in Idlers
      /\ adder'.pc \in {"file", "blank", "add_source", "no_more"}
      /\ adder'.pc \in {"blank", "add_source"} => adder'.k <= Len(filenames)
      /\ adder.pc \in {"file", "blank", "pushed"}
  <2>1. CASE HashFile
    <3>1. adder.k \in 1 .. Len(filenames)
      BY <2>1, IngestAssumption DEF HashFile, TypeOK, Idlers, Pushers
    <3>2. ThisFile \in File
      BY <3>1, IngestAssumption DEF ThisFile
    <3> QED  BY <2>1, <3>1, <3>2
                DEF HashFile, AdderMoves, Idlers, TypeOK, queueVars,
                    trackerVars
  <2>2. CASE SkipFile \/ EndFiles
    BY <2>2 DEF SkipFile, EndFiles, AdderMoves, Idlers, Pushers, TypeOK,
                queueVars, trackerVars, dbVars
  <2>3. CASE ReadPartFails \/ EndFile
    <3>1. adder \in Pushers
      BY <2>3 DEF ReadPartFails, EndFile, TypeOK, Idlers
    <3>2. adder.k + 1 \in Nat \ {0}
      BY <3>1, IngestAssumption DEF Pushers
    <3> QED
      BY <2>3, <3>2
         DEF ReadPartFails, EndFile, AdderMoves, Idlers, Pushers, TypeOK,
             queueVars, trackerVars, dbVars
  <2>4. CASE BlankFile
    <3>1. adder.k \in 1 .. Len(filenames)
      BY <2>4, IngestAssumption
         DEF BlankFile, TypeOK, Idlers, Pushers, AdderPlace
    <3> QED  BY <2>4, <3>1
                DEF BlankFile, AdderMoves, Idlers, TypeOK, queueVars,
                    trackerVars
  <2> QED  BY <2>1, <2>2, <2>3, <2>4
<1>2. TypeOK'
  BY <1>1 DEF TypeOK, AdderMoves
<1>3. AdderPlace' /\ AdderOK'
  BY <1>1 DEF AdderPlace, AdderOK, Pushing
<1>4. Drained'
  BY <1>1 DEF Drained, AdderMoves
<1> QED  BY <1>1, <1>2, <1>3, <1>4, AdderMovesKeep

(* The queue has space; nothing is added any more; the workers are joined. *)
LEMMA QueueAdderIInv ==
    ASSUME IInv, push_size \/ done_adding \/ join,
           UNCHANGED <<trackerVars, dbVars, overtaken, failed, runs>>
    PROVE  IInv'
<1> USE DEF IInv
<1>1. AdderMoves
  BY DEF push_size, done_adding, join, AdderMoves, trackerVars, dbVars, TypeOK
<1>2. CASE push_size
  <2>1. adder \in Pushers /\ adder' \in Pushers
        /\ adder'.pc = "push" /\ adder.pc = "size"
        /\ adder'.k = adder.k /\ adder'.part = adder.part
        /\ adder'.disable = adder.disable /\ adder'.job = adder.job
        /\ is_done_adding' = is_done_adding
    BY <1>2 DEF push_size, TypeOK, Idlers, Pushers
  <2>2. TypeOK' /\ AdderPlace' /\ Drained'
    BY <1>1, <2>1 DEF TypeOK, AdderPlace, Drained, AdderMoves, Pushing, ThisFile
  <2>3. AdderOK'
    <3>1. Unsent' = Unsent /\ ThisFile' = ThisFile
      BY <2>1 DEF Unsent, ThisFile
    <3> QED  BY <1>1, <2>1, <3>1, AdderMovesKeep
                DEF AdderOK, Pushing, Tracked, AdderMoves
  <2> QED  BY <1>1, <2>2, <2>3, AdderMovesKeep
<1>3. CASE done_adding \/ join
  <2>1. adder' \in Idlers
        /\ adder'.pc \in {"joining", "joined"} /\ is_done_adding'
        /\ is_done_adding' \in BOOLEAN
    BY <1>3 DEF done_adding, join, TypeOK, Idlers, Pushers, Drained
  <2>2. TypeOK' /\ AdderPlace' /\ AdderOK'
    BY <1>1, <2>1 DEF TypeOK, AdderPlace, AdderOK, AdderMoves, Pushing
  <2>3. Drained'
    <3>1. job_queue' = job_queue /\ worker' = worker
      BY <1>1 DEF AdderMoves
    <3>2. adder'.pc = "joined" => \A w \in Worker : worker[w].pc = "exit"
      BY <1>3 DEF done_adding, join, TypeOK, Idlers, Pushers
    <3> QED  BY <2>1, <3>1, <3>2 DEF Drained
  <2> QED  BY <1>1, <2>2, <2>3, AdderMovesKeep
<1> QED  BY <1>2, <1>3

(* The next part is read.                                                  *)
LEMMA ReadPartIInv ==
    ASSUME IInv, ReadPart
    PROVE  IInv'
<1> USE DEF IInv
<1> DEFINE p == adder.part + 1
           j == new_ingest_job(ThisFile, {p}, adder.disable, 0)
<1>1. /\ AdderMoves /\ UNCHANGED is_done_adding
      /\ adder \in Pushers /\ adder.pc = "pushed" /\ p <= Parts[ThisFile]
      /\ adder' = [adder EXCEPT !.pc = "size", !.part = p, !.job = j]
  BY DEF ReadPart, AdderMoves, TypeOK, Idlers, Pushers, queueVars, trackerVars,
         dbVars
<1>2. ThisFile \in File /\ p \in Nat \ {0} /\ adder.disable \in BOOLEAN
  <2>1. adder.k \in 1 .. Len(filenames) /\ p \in Nat \ {0}
        /\ adder.disable \in BOOLEAN
    BY <1>1 DEF Pushers
  <2> QED  BY <2>1, IngestAssumption DEF ThisFile
<1>3. j \in Jobs
  BY <1>2, NewJobForm
<1> HIDE DEF j
<1>4. /\ adder' \in Pushers /\ adder'.pc = "size" /\ adder'.part = p
      /\ adder'.k = adder.k /\ adder'.disable = adder.disable
      /\ adder'.job = j /\ ThisFile' = ThisFile
  BY <1>1, <1>2, <1>3 DEF Pushers, ThisFile
<1>5. TypeOK' /\ AdderPlace' /\ Drained'
  BY <1>1, <1>4 DEF TypeOK, AdderPlace, Drained, AdderMoves, Pushing, j
<1>6. AdderOK'
  <2>1. Unsent' = Unsent
    BY <1>1, <1>2, <1>4, PartsForm DEF Unsent, AllParts, Pushers
  <2> QED  BY <1>1, <1>4, <2>1, AdderMovesKeep
              DEF AdderOK, Pushing, Tracked, AdderMoves
<1> QED  BY <1>1, <1>5, <1>6, AdderMovesKeep

(* What add_source does: nothing for a source that is known, and no job    *)
(* counts blocks of one that is not.                                       *)
LEMMA AddSourceKeeps ==
    ASSUME IInv, NEW f \in File, NEW n \in {1, Parts[f]}, add_source(f, n),
           UNCHANGED <<preexisting, ingested, described>>,
           sources \subseteq sources',
           \A g, U : Tracking(g, U)' <=> Tracking(g, U)
    PROVE  /\ source_data_map' \in [File -> {Untracked} \cup Tracks]
           /\ \A g \in File : Tracked(g) =>
                 source_data_map'[g] = source_data_map[g]
           /\ Known(f) => source_data_map' = source_data_map
           /\ ~Known(f) => /\ ~Tracked(f) /\ Tracked(f)'
                           /\ source_data_map'[f].parts_total = n
                           /\ \A p \in AllParts(f) : ingested[f][p] = 0
           /\ \A j : (j.file \in File /\ JobOK(j)) => JobOK(j)'
           /\ Counted' /\ DataLast'
<1> USE DEF IInv
<1> DEFINE new == [tracked |-> TRUE, parts_total |-> n, parts_done |-> 0]
<1>1. n \in Nat
  BY PartsForm
<1>2. new \in Tracks
  BY <1>1 DEF Tracks
<1>3. source_data_map' = IF Known(f) THEN source_data_map
                         ELSE [source_data_map EXCEPT ![f] = new]
  BY DEF add_source
<1>4. source_data_map' \in [File -> {Untracked} \cup Tracks]
  BY <1>2, <1>3 DEF TypeOK
<1>5. \A g \in File : Tracked(g) => source_data_map'[g] = source_data_map[g]
  BY <1>3 DEF TypeOK, Tracked, Known
<1>6. Known(f) => source_data_map' = source_data_map
  BY <1>3
<1>7. ~Known(f) => /\ ~Tracked(f) /\ source_data_map'[f] = new /\ Tracked(f)'
                   /\ \A p \in AllParts(f) : ingested[f][p] = 0
                   /\ described[f] = 0 /\ f \notin preexisting
  BY <1>3 DEF TypeOK, Tracked, Known, DataLast
<1>8. \A g \in File : g # f => source_data_map'[g] = source_data_map[g]
  BY <1>3 DEF TypeOK
<1>9. \A j : (j.file \in File /\ JobOK(j)) => JobOK(j)'
  BY <1>5 DEF JobOK, Tracked, Units
<1>10. Counted'
  <2> SUFFICES ASSUME NEW g \in File, Tracked(g)'
               PROVE  /\ g \notin preexisting'
                      /\ source_data_map'[g].parts_total \in {1, Parts[g]}
                      /\ source_data_map'[g].parts_done
                            = Cardinality(DoneUnits(g)')
    BY DEF Counted
  <2>1. CASE Tracked(g)
    <3>1. source_data_map'[g] = source_data_map[g]
      BY <1>5, <2>1
    <3>2. DoneUnits(g)' = DoneUnits(g)
      BY <3>1 DEF DoneUnits, Units
    <3> QED  BY <2>1, <3>1, <3>2 DEF Counted
  <2>2. CASE ~Tracked(g)
    <3>1. g = f /\ ~Known(f)
      BY <1>6, <1>8, <2>2 DEF Tracked
    <3>2. \A U \in Units(f)' : U # {} /\ U \subseteq AllParts(f)
      BY <1>7, <3>1, PartsForm DEF Units
    <3>3. DoneUnits(f)' = {}
      BY <1>7, <3>1, <3>2 DEF DoneUnits
    <3>4. Cardinality({}) = 0
      BY FS_EmptySet
    <3> QED  BY <1>7, <3>1, <3>3, <3>4
  <2> QED  BY <2>1, <2>2
<1>11. DataLast'
  <2>1. \A g \in File : Known(g) => Known(g)'
    BY <1>5 DEF Known, Tracked
  <2>2. \A g \in File : (Tracked(g)' /\ described[g] # 0) => Full(g)'
    <3> SUFFICES ASSUME NEW g \in File, Tracked(g)', described[g] # 0
                 PROVE  Full(g)'
      OBVIOUS
    <3>1. Tracked(g)
      BY <1>6, <1>7, <1>8 DEF Tracked
    <3> QED  BY <1>5, <3>1 DEF DataLast, Full
  <2> QED  BY <2>1, <2>2 DEF DataLast
<1> QED  BY <1>4, <1>5, <1>6, <1>7, <1>9, <1>10, <1>11

(* No job of a source that the tracker does not know counts its blocks.    *)
LEMMA UntrackedElsewhere ==
    ASSUME Apart, NEW f, ~Tracked(f), NEW U
    PROVE  Elsewhere(f, U)
BY DEF Apart, JobOK, Elsewhere

(* The adder adds the source of the file and makes the job for its first   *)
(* part.                                                                   *)
LEMMA AddSourceIInv ==
    ASSUME IInv, AddSource
    PROVE  IInv'
<1> USE DEF IInv
<1>1. adder \in Idlers /\ adder.k \in 1 .. Len(filenames)
  <2>1. adder.pc = "add_source" /\ adder \in Idlers
    BY DEF AddSource, TypeOK, Pushers
  <2>2. adder.k \in Nat \ {0}
    BY <2>1 DEF Idlers
  <2>3. adder.k <= Len(filenames) /\ Len(filenames) \in Nat
    BY <2>1, IngestAssumption DEF AdderPlace
  <2> QED  BY <2>1, <2>2, <2>3
<1>2. PICK f \in File : f = ThisFile
  BY <1>1, IngestAssumption DEF ThisFile
<1>3. PICK d \in BOOLEAN : d = Known(f)
  BY DEF Known, TypeOK, Untracked, Tracks
<1> DEFINE j == new_ingest_job(f, {1}, d, 0)
<1>4. j \in Jobs
  BY NewJobForm
<1>5. /\ add_source(f, Parts[f])
      /\ adder' = [pc |-> "size", k |-> adder.k, part |-> 1, disable |-> d,
                   job |-> j]
      /\ UNCHANGED <<job_queue, is_done_adding, worker, preexisting, sources,
                     ingested, described, runs>>
  BY <1>2, <1>3 DEF AddSource, queueVars, dbVars
<1> HIDE DEF j
<1>6. adder' \in Pushers /\ ThisFile' = f /\ adder'.pc = "size"
      /\ adder'.part = 1 /\ adder'.disable = d /\ adder'.job = j
  BY <1>1, <1>2, <1>4, <1>5 DEF Pushers, ThisFile
<1>7. \A g, U : Tracking(g, U)' <=> Tracking(g, U)
  BY <1>5 DEF Tracking, At, Job
<1>8. /\ source_data_map' \in [File -> {Untracked} \cup Tracks]
      /\ \A g \in File : Tracked(g) =>
            source_data_map'[g] = source_data_map[g]
      /\ ~d => /\ ~Tracked(f) /\ Tracked(f)'
               /\ source_data_map'[f].parts_total = Parts[f]
               /\ \A p \in AllParts(f) : ingested[f][p] = 0
      /\ \A i : (i.file \in File /\ JobOK(i)) => JobOK(i)'
      /\ Counted' /\ DataLast'
  BY <1>3, <1>5, <1>7, AddSourceKeeps
<1>9. TypeOK'
  BY <1>5, <1>6, <1>8 DEF TypeOK
<1>10. AdderPlace' /\ Stacks' /\ Drained'
  <2>1. AdderPlace'
    BY <1>6, PartsForm DEF AdderPlace, j
  <2>2. Stacks'
    BY <1>5 DEF Stacks, Working, At, Job
  <2>3. Drained'
    BY <1>5, <1>6 DEF Drained, AddSource
  <2> QED  BY <2>1, <2>2, <2>3
<1>11. Apart'
  <2>1. \A i \in 1 .. Len(job_queue) : job_queue[i].file \in File
    BY QueueForm DEF Jobs
  <2>2. \A w \in Worker : Working(w) => Job(w).file \in File
    BY JobForm DEF Jobs
  <2>3. \A i \in 1 .. Len(job_queue) : JobOK(job_queue[i])'
    <3> SUFFICES ASSUME NEW i \in 1 .. Len(job_queue)
                 PROVE  JobOK(job_queue[i])'
      OBVIOUS
    <3>1. PICK x : x = job_queue[i]
      OBVIOUS
    <3>2. JobOK(x)'
      BY <1>8, <2>1, <3>1 DEF Apart
    <3> QED  BY <1>5, <3>1, <3>2 DEF JobOK
  <2>4. \A w \in Worker : Working(w) => JobOK(Job(w))'
    <3> SUFFICES ASSUME NEW w \in Worker, Working(w)
                 PROVE  JobOK(Job(w))'
      OBVIOUS
    <3>1. PICK x : x = Job(w)
      OBVIOUS
    <3>2. JobOK(x)'
      BY <1>8, <2>2, <3>1 DEF Apart
    <3>3. Job(w)' = x
      BY <1>5, <3>1 DEF Job
    <3> QED  BY <3>2, <3>3 DEF JobOK
  <2> QED  BY <1>5, <2>3, <2>4 DEF Apart, Working, Job
<1>12. AdderOK'
  <2>1. ~d => \A U : Elsewhere(f, U)'
    <3>1. ~d => \A U : Elsewhere(f, U)
      BY <1>8, UntrackedElsewhere
    <3> QED  BY <1>5, <3>1 DEF Elsewhere, Working, Job
  <2>2. Unsent' \subseteq AllParts(f)
    BY <1>6 DEF Unsent
  <2> QED  BY <1>5, <1>6, <1>8, <2>1, <2>2 DEF AdderOK
<1>13. LastJob'
  <2>1. \A w \in Worker : At(w, "source_data") => Job(w).file \in File
    BY JobForm DEF At, Working, Jobs
  <2> QED  BY <1>5, <1>8, <2>1 DEF LastJob, At, Job, Tracked, Full
<1>14. IngestedOnce' /\ DescribedIsComplete'
  BY <1>5 DEF IngestedOnce, DescribedIsComplete, Complete
<1> QED  BY <1>8, <1>9, <1>10, <1>11, <1>12, <1>13, <1>14

(* A job goes from the adder to the end of the queue.                      *)
LEMMA PushIInv ==
    ASSUME IInv, push_job,
           UNCHANGED <<trackerVars, dbVars, overtaken, failed, runs>>
    PROVE  IInv'
<1> USE DEF IInv
<1>1. /\ adder \in Pushers /\ adder.pc = "push"
      /\ adder' = [adder EXCEPT !.pc = "pushed"]
      /\ job_queue' = Append(job_queue, adder.job)
      /\ UNCHANGED <<is_done_adding, worker, source_data_map, preexisting,
                     sources, ingested, described, runs>>
  BY DEF push_job, TypeOK, Idlers, trackerVars, dbVars
<1>2. PICK j \in Jobs : j = adder.job
  BY <1>1 DEF Pushers
<1>3. adder.part \in Nat \ {0} /\ adder.disable \in BOOLEAN
      /\ adder.k \in 1 .. Len(filenames)
  BY <1>1 DEF Pushers
<1>4. PICK f \in File : f = ThisFile
  BY <1>3, IngestAssumption DEF ThisFile
<1>5. /\ j.pc = "hashes" /\ j.file = f /\ j.parts = {adder.part}
      /\ j.disable_ingest_hashes = adder.disable
      /\ adder.part \in AllParts(f)
  BY <1>1, <1>2, <1>3, <1>4, NewJobForm, PartsForm
     DEF AdderPlace, Pushing, AllParts
<1>6. /\ adder' \in Pushers /\ adder'.pc = "pushed" /\ ThisFile' = f
      /\ adder'.k = adder.k /\ adder'.part = adder.part
      /\ adder'.disable = adder.disable /\ adder'.job = adder.job
  BY <1>1, <1>4 DEF Pushers, ThisFile
<1>7. PICK n \in Nat : n = Len(job_queue)
  <2>1. job_queue \in Seq(Jobs)
    BY DEF TypeOK
  <2> QED  BY <2>1, LenProperties
<1>8. /\ job_queue' \in Seq(Jobs) /\ Len(job_queue') = n + 1
      /\ \A i \in 1 .. n : job_queue'[i] = job_queue[i]
      /\ job_queue'[n + 1] = j
  BY <1>1, <1>2, <1>7, AppendProperties DEF TypeOK
<1>9. TypeOK' /\ AdderPlace' /\ Stacks'
  <2>1. TypeOK'
    BY <1>1, <1>6, <1>8 DEF TypeOK
  <2>2. AdderPlace'
    BY <1>1, <1>4, <1>6 DEF AdderPlace, Pushing
  <2>3. Stacks'
    BY <1>1, <1>5, <1>7, <1>8 DEF Stacks, Working, At, Job
  <2> QED  BY <2>1, <2>2, <2>3
<1>10. Drained'
  BY <1>1, <1>6 DEF Drained
<1>11. \A x : JobOK(x) => JobOK(x)'
  BY <1>1 DEF JobOK, Tracked, Units
<1>12. JobOK(j)
  <2>1. Busy(j) => AdderOK /\ Pushing /\ ~adder.disable /\ adder.part \in Unsent
    BY <1>1, <1>4, <1>5 DEF Busy, Pushing, Unsent
  <2>2. Busy(j) => {adder.part} \in Units(f)
    BY <1>4, <1>5, <2>1 DEF AdderOK, Units
  <2> QED  BY <1>4, <1>5, <2>1, <2>2 DEF AdderOK, JobOK
<1>13. Busy(j) => Elsewhere(f, {adder.part})
  BY <1>1, <1>4, <1>5 DEF Busy, AdderOK, Pushing, Unsent
<1>14. Apart'
  <2>1. \A i \in 1 .. n + 1 :
           /\ JobOK(job_queue'[i])
           /\ \A k \in 1 .. n + 1 :
                 i # k => ~Clash(job_queue'[i], job_queue'[k])
    <3>1. \A i \in 1 .. n + 1 : i \in 1 .. n \/ i = n + 1
      OBVIOUS
    <3>2. \A i \in 1 .. n : ~Clash(job_queue[i], j) /\ ~Clash(j, job_queue[i])
      BY <1>5, <1>7, <1>13 DEF Elsewhere, Clash
    <3> QED  BY <1>7, <1>8, <1>12, <3>1, <3>2 DEF Apart
  <2>2. \A w \in Worker : Working(w) => ~Clash(j, Job(w))
    BY <1>5, <1>13 DEF Elsewhere, Clash
  <2>3. \A i \in 1 .. n + 1 : \A w \in Worker :
           Working(w) => ~Clash(job_queue'[i], Job(w))
    BY <1>7, <1>8, <2>2 DEF Apart
  <2>4. \A i \in 1 .. n + 1 : JobOK(job_queue[i])'
    <3> SUFFICES ASSUME NEW i \in 1 .. n + 1 PROVE JobOK(job_queue[i])'
      OBVIOUS
    <3>1. PICK x : x = job_queue'[i]
      OBVIOUS
    <3>2. JobOK(x)'
      BY <1>11, <2>1, <3>1
    <3> QED  BY <3>1, <3>2 DEF JobOK
  <2>5. \A w \in Worker : Working(w) => JobOK(Job(w))'
    <3> SUFFICES ASSUME NEW w \in Worker, Working(w) PROVE JobOK(Job(w))'
      OBVIOUS
    <3>1. PICK x : x = Job(w)
      OBVIOUS
    <3>2. JobOK(x)' /\ Job(w)' = x
      BY <1>1, <1>11, <3>1 DEF Apart, Job
    <3> QED  BY <3>2 DEF JobOK
  <2> QED  BY <1>1, <1>8, <2>1, <2>3, <2>4, <2>5
              DEF Apart, Working, Job, Clash, Busy
<1>15. AdderOK'
  <2>1. Unsent' = Unsent \ {adder.part}
    BY <1>1, <1>3, <1>4, <1>6, PartsForm DEF Unsent, AllParts
  <2>2. \A p \in Unsent' : Elsewhere(f, {p}) => Elsewhere(f, {p})'
    <3>1. \A p \in Unsent' : j.parts # {p}
      BY <1>5, <2>1
    <3> QED  BY <1>1, <1>7, <1>8, <3>1 DEF Elsewhere, Working, Job
  <2> QED  BY <1>1, <1>4, <1>6, <2>1, <2>2 DEF AdderOK, Pushing, Tracked
<1>16. Counted' /\ LastJob' /\ DataLast'
  <2>1. \A g \in File : DoneUnits(g)' = DoneUnits(g)
    BY <1>1 DEF DoneUnits, Units, Tracking, At, Job
  <2>2. Counted'
    BY <1>1, <2>1 DEF Counted, Tracked
  <2> QED  BY <1>1, <2>2 DEF LastJob, DataLast, At, Job, Tracked, Full, Known
<1>17. IngestedOnce' /\ DescribedIsComplete'
  BY <1>1 DEF IngestedOnce, DescribedIsComplete, Complete
<1> QED  BY <1>9, <1>10, <1>14, <1>15, <1>16, <1>17

(* A new command: nobody works, and what it does not know is not in the    *)
(* database.                                                               *)
LEMMA NewCommandIInv ==
    ASSUME IInv, NewCommand
    PROVE  IInv'
<1> USE DEF IInv
<1>1. /\ job_queue' = <<>> /\ is_done_adding' = FALSE
      /\ worker' = [w \in Worker |-> Waiting]
      /\ adder' = [pc |-> "file", k |-> 1]
      /\ source_data_map' = [f \in File |-> Untracked]
      /\ preexisting' = sources /\ runs' = runs + 1
      /\ UNCHANGED <<sources, ingested, described>>
  BY DEF NewCommand, dbVars
<1>2. TypeOK'
  <2>1. adder' \in Idlers
    BY <1>1 DEF Idlers
  <2>2. /\ job_queue' \in Seq(Jobs)
        /\ worker' \in [Worker -> [pc : {"is_done", "pop", "work", "exit"},
                                   stack : Seq(Jobs)]]
    BY <1>1 DEF Waiting
  <2>3. source_data_map' \in [File -> {Untracked} \cup Tracks]
    BY <1>1
  <2>4. /\ preexisting' \subseteq File /\ sources' \subseteq File
        /\ runs' \in Nat /\ is_done_adding' \in BOOLEAN
    <3>1. sources \subseteq File /\ runs \in Nat
      BY DEF TypeOK
    <3>2. runs' \in Nat
      BY <1>1, <3>1
    <3>3. is_done_adding' \in BOOLEAN
      BY <1>1
    <3> QED  BY <1>1, <3>1, <3>2, <3>3
  <2>5. /\ ingested' = [f \in File |-> ingested'[f]]
        /\ \A f \in File : ingested'[f] \in [AllParts(f) -> Nat]
        /\ described' \in [File -> Nat]
    BY <1>1 DEF TypeOK
  <2> QED  BY <2>1, <2>2, <2>3, <2>4, <2>5 DEF TypeOK
<1>3. AdderPlace' /\ Stacks' /\ Drained' /\ Apart' /\ AdderOK' /\ LastJob'
  BY <1>1 DEF AdderPlace, Stacks, Drained, Apart, AdderOK, LastJob, Pushing,
              Working, At, Waiting
<1>4. \A f \in File : ~Tracked(f)'
  BY <1>1 DEF Tracked, Untracked
<1>5. Counted' /\ DataLast'
  BY <1>1, <1>4 DEF Counted, DataLast, Known, Tracked
<1>6. IngestedOnce' /\ DescribedIsComplete'
  BY <1>1 DEF IngestedOnce, DescribedIsComplete, Complete
<1> QED  BY <1>2, <1>3, <1>5, <1>6

-----------------------------------------------------------------------------
(***************************************************************************)
(* The steps of a worker.                                                  *)
(***************************************************************************)
IsWorker(r) == r \in [pc : {"is_done", "pop", "work", "exit"},
                      stack : Seq(Jobs)]

(* A worker and its stack, as Stacks has them.                             *)
Stacked(r) ==
    /\ r.pc = "work" <=> r.stack # <<>>
    /\ \A i \in 2 .. Len(r.stack) : r.stack[i].pc = "recursive"
    /\ r.pc = "work" =>
          /\ Head(r.stack).pc \in {"blank", "recurse"} =>
                Head(r.stack).embedded # <<>>
          /\ Head(r.stack).pc = "track" =>
                ~Head(r.stack).disable_ingest_hashes

(* A worker that changes its own state changes that of no other worker.    *)
LEMMA WorkerSet ==
    ASSUME IInv, NEW w \in Worker, NEW r, IsWorker(r), Stacked(r),
           worker' = [worker EXCEPT ![w] = r]
    PROVE  /\ worker' \in [Worker -> [pc : {"is_done", "pop", "work", "exit"},
                                      stack : Seq(Jobs)]]
           /\ worker'[w] = r
           /\ \A v \in Worker \ {w} :
                 /\ worker'[v] = worker[v]
                 /\ Working(v)' <=> Working(v)
                 /\ Job(v)' = Job(v)
                 /\ \A l : At(v, l)' <=> At(v, l)
           /\ \A v \in Worker :
                 /\ Working(v)' <=> worker'[v].stack # <<>>
                 /\ \A i \in 2 .. Len(worker'[v].stack) :
                       worker'[v].stack[i].pc = "recursive"
                 /\ At(v, "blank")' \/ At(v, "recurse")' =>
                       Job(v)'.embedded # <<>>
                 /\ At(v, "track")' => ~Job(v)'.disable_ingest_hashes
           /\ Working(w)' <=> r.pc = "work"
           /\ Job(w)' = Head(r.stack)
           /\ \A l : At(w, l)' <=> (r.pc = "work" /\ Head(r.stack).pc = l)
<1> USE DEF IInv
<1>1. worker' \in [Worker -> [pc : {"is_done", "pop", "work", "exit"},
                              stack : Seq(Jobs)]]
  BY DEF TypeOK, IsWorker
<1>2. worker'[w] = r /\ \A v \in Worker \ {w} : worker'[v] = worker[v]
  BY DEF TypeOK
<1>3. \A v \in Worker \ {w} : /\ Working(v)' <=> Working(v)
                              /\ Job(v)' = Job(v)
                              /\ \A l : At(v, l)' <=> At(v, l)
  BY <1>2 DEF Working, Job, At
<1>4. /\ Working(w)' <=> r.pc = "work"
      /\ Job(w)' = Head(r.stack)
      /\ \A l : At(w, l)' <=> (r.pc = "work" /\ Head(r.stack).pc = l)
  BY <1>2 DEF Working, Job, At
<1>5. ASSUME NEW v \in Worker
      PROVE  /\ Working(v)' <=> worker'[v].stack # <<>>
             /\ \A i \in 2 .. Len(worker'[v].stack) :
                   worker'[v].stack[i].pc = "recursive"
             /\ At(v, "blank")' \/ At(v, "recurse")' =>
                   Job(v)'.embedded # <<>>
             /\ At(v, "track")' => ~Job(v)'.disable_ingest_hashes
  <2>1. CASE v = w
    BY <1>2, <1>4, <2>1 DEF Stacked
  <2>2. CASE v # w
    BY <1>2, <1>3, <2>2 DEF Stacks
  <2> QED  BY <2>1, <2>2
<1> QED  BY <1>1, <1>2, <1>3, <1>4, <1>5

(* A step of a worker with no job, or with one that neither counts blocks  *)
(* nor is to write source data before and after it.                        *)
Calm(w, r) ==
    /\ IsWorker(r) /\ Stacked(r)
    /\ worker' = [worker EXCEPT ![w] = r]
    /\ worker[w].pc # "exit"
    /\ r.pc = "exit" => is_done_adding /\ job_queue = <<>>
    /\ Working(w) => ~Busy(Job(w))
    /\ r.pc = "work" => /\ ~Busy(Head(r.stack))
                        /\ Head(r.stack).pc # "source_data"
    /\ sources \subseteq sources' /\ sources' \subseteq File
    /\ UNCHANGED <<job_queue, is_done_adding, adder, source_data_map,
                   preexisting, ingested, described, runs>>

(* A step of a worker that changes neither its jobs nor the database       *)
(* keeps the invariant.                                                    *)
LEMMA CalmIInv ==
    ASSUME IInv, NEW w \in Worker, NEW r, Calm(w, r)
    PROVE  IInv'
<1> USE DEF IInv
<1>1. /\ worker' \in [Worker -> [pc : {"is_done", "pop", "work", "exit"},
                                 stack : Seq(Jobs)]]
      /\ worker'[w] = r
      /\ \A v \in Worker \ {w} :
            /\ worker'[v] = worker[v]
            /\ Working(v)' <=> Working(v)
            /\ Job(v)' = Job(v)
            /\ \A l : At(v, l)' <=> At(v, l)
      /\ Working(w)' <=> r.pc = "work"
      /\ Job(w)' = Head(r.stack)
      /\ \A l : At(w, l)' <=> (r.pc = "work" /\ Head(r.stack).pc = l)
  <2>1. IsWorker(r) /\ Stacked(r) /\ worker' = [worker EXCEPT ![w] = r]
    BY DEF Calm
  <2>2. /\ worker' \in [Worker -> [pc : {"is_done", "pop", "work", "exit"},
                                     stack : Seq(Jobs)]]
        /\ worker'[w] = r
    BY <2>1, WorkerSet
  <2>3. \A v \in Worker \ {w} :
            /\ worker'[v] = worker[v]
            /\ Working(v)' <=> Working(v)
            /\ Job(v)' = Job(v)
            /\ \A l : At(v, l)' <=> At(v, l)
    BY <2>1, WorkerSet
  <2>4. /\ Working(w)' <=> r.pc = "work"
        /\ Job(w)' = Head(r.stack)
        /\ \A l : At(w, l)' <=> (r.pc = "work" /\ Head(r.stack).pc = l)
    BY <2>2 DEF Working, Job, At
  <2> QED  BY <2>2, <2>3, <2>4
<1>2. Stacks'
  <2>1. \A v \in Worker :
           /\ Working(v)' <=> worker'[v].stack # <<>>
           /\ \A i \in 2 .. Len(worker'[v].stack) :
                 worker'[v].stack[i].pc = "recursive"
           /\ At(v, "blank")' \/ At(v, "recurse")' =>
                 Job(v)'.embedded # <<>>
           /\ At(v, "track")' => ~Job(v)'.disable_ingest_hashes
    BY WorkerSet DEF Calm
  <2> QED  BY <2>1 DEF Stacks, Calm
<1>3. TypeOK' /\ AdderPlace' /\ Drained'
  <2>1. TypeOK'
    BY <1>1 DEF TypeOK, Calm
  <2>2. AdderPlace'
    BY DEF AdderPlace, Calm, Pushing, ThisFile
  <2>3. adder.pc # "joined"
    BY DEF Drained, Calm
  <2>4. Drained'
    BY <1>1, <2>3 DEF Drained, Calm
  <2> QED  BY <2>1, <2>2, <2>4
<1>4. \A x : JobOK(x) => JobOK(x)'
  BY DEF JobOK, Tracked, Units, Calm
<1>5. Working(w)' => ~Busy(Job(w)')
  BY <1>1 DEF Calm
<1>6. Apart'
  <2>1. \A i \in 1 .. Len(job_queue) : JobOK(job_queue[i])'
    BY DEF Apart, JobOK, Tracked, Units, Calm
  <2>2. \A v \in Worker : Working(v)' => JobOK(Job(v))'
    <3> SUFFICES ASSUME NEW v \in Worker, Working(v)' PROVE JobOK(Job(v))'
      OBVIOUS
    <3>1. CASE v = w
      BY <1>5, <3>1 DEF JobOK, Busy
    <3>2. CASE v # w
      <4>1. PICK x : x = Job(v)
        OBVIOUS
      <4>2. JobOK(x)' /\ Job(v)' = x
        BY <1>1, <1>4, <3>2, <4>1 DEF Apart
      <4> QED  BY <4>2 DEF JobOK
    <3> QED  BY <3>1, <3>2
  <2>3. \A v \in Worker : Working(v)' =>
           /\ \A i \in 1 .. Len(job_queue) : ~Clash(job_queue[i], Job(v)')
           /\ \A u \in Worker \ {v} : Working(u)' => ~Clash(Job(u)', Job(v)')
    <3> SUFFICES ASSUME NEW v \in Worker, Working(v)'
                 PROVE  /\ \A i \in 1 .. Len(job_queue) :
                              ~Clash(job_queue[i], Job(v)')
                        /\ \A u \in Worker \ {v} :
                              Working(u)' => ~Clash(Job(u)', Job(v)')
      OBVIOUS
    <3>1. CASE v = w
      BY <1>5, <3>1 DEF Clash
    <3>2. CASE v # w
      <4>1. \A u \in Worker \ {v} : Working(u)' => ~Clash(Job(u)', Job(v)')
        <5> SUFFICES ASSUME NEW u \in Worker \ {v}, Working(u)'
                     PROVE  ~Clash(Job(u)', Job(v)')
          OBVIOUS
        <5>1. CASE u = w
          BY <1>5, <5>1 DEF Clash
        <5>2. CASE u # w
          BY <1>1, <3>2, <5>2 DEF Apart
        <5> QED  BY <5>1, <5>2
      <4> QED  BY <1>1, <3>2, <4>1 DEF Apart
    <3> QED  BY <3>1, <3>2
  <2> QED  BY <2>1, <2>2, <2>3 DEF Apart, Clash, Busy, Calm
<1>7. AdderOK'
  <2>1. \A f, U : Elsewhere(f, U) => Elsewhere(f, U)'
    BY <1>1, <1>5 DEF Elsewhere, Calm, Busy
  <2> QED  BY <2>1 DEF AdderOK, Pushing, Unsent, ThisFile, Tracked, Calm
<1>8. \A f, U : Tracking(f, U)' <=> Tracking(f, U)
  <2>1. ~At(w, "track") /\ ~At(w, "track")'
    BY <1>1 DEF At, Calm, Busy, Stacks, Stacked, Working
  <2> QED  BY <1>1, <2>1 DEF Tracking
<1>9. Counted'
  <2>1. \A f \in File : DoneUnits(f)' = DoneUnits(f)
    BY <1>8 DEF DoneUnits, Units, Calm
  <2> QED  BY <2>1 DEF Counted, Tracked, Calm
<1>10. LastJob'
  BY <1>1 DEF LastJob, Calm, Tracked, Full
<1>11. DataLast'
  BY DEF DataLast, Calm, Tracked, Full, Known
<1>12. IngestedOnce' /\ DescribedIsComplete'
  BY DEF IngestedOnce, DescribedIsComplete, Complete, Calm
<1> QED  BY <1>2, <1>3, <1>6, <1>7, <1>9, <1>10, <1>11, <1>12

(* A stack after its top was replaced by one job, by two, or by none.      *)
LEMMA StackForms ==
    ASSUME NEW s \in Seq(Jobs), s # <<>>,
           \A i \in 2 .. Len(s) : s[i].pc = "recursive",
           NEW j \in Jobs, NEW b \in Jobs, b.pc = "recursive"
    PROVE  /\ LET t == <<j>> \o Tail(s)
              IN  /\ t \in Seq(Jobs) /\ t # <<>> /\ Head(t) = j
                  /\ \A i \in 2 .. Len(t) : t[i].pc = "recursive"
           /\ LET t == <<j, b>> \o Tail(s)
              IN  /\ t \in Seq(Jobs) /\ t # <<>> /\ Head(t) = j
                  /\ \A i \in 2 .. Len(t) : t[i].pc = "recursive"
           /\ Len(s) # 1 =>
                 LET t == <<>> \o Tail(s)
                 IN  /\ t \in Seq(Jobs) /\ t # <<>>
                     /\ Head(t).pc = "recursive"
                     /\ \A i \in 2 .. Len(t) : t[i].pc = "recursive"
<1>1. PICK r \in Seq(Jobs) :
         /\ r = Tail(s) /\ Len(r) = Len(s) - 1
         /\ \A i \in 1 .. Len(r) : r[i].pc = "recursive"
  <2>1. /\ Tail(s) \in Seq(Jobs) /\ Len(Tail(s)) = Len(s) - 1
        /\ \A i \in 1 .. Len(Tail(s)) : Tail(s)[i] = s[i + 1]
    BY HeadTailProperties
  <2>2. PICK r \in Seq(Jobs) : r = Tail(s)
    BY <2>1
  <2>3. Len(s) \in Nat /\ Len(r) \in Nat /\ Len(r) = Len(s) - 1
    BY <2>1, <2>2, LenProperties
  <2>4. \A i \in 1 .. Len(r) : r[i] = s[i + 1] /\ i + 1 \in 2 .. Len(s)
    BY <2>1, <2>2, <2>3
  <2> QED  BY <2>2, <2>3, <2>4
<1>2. /\ <<j>> \o r \in Seq(Jobs) /\ Len(<<j>> \o r) = 1 + Len(r)
      /\ \A i \in 1 .. 1 + Len(r) :
            (<<j>> \o r)[i] = IF i <= 1 THEN j ELSE r[i - 1]
  <2>1. <<j>> \in Seq(Jobs) /\ Len(<<j>>) = 1 /\ <<j>>[1] = j
    OBVIOUS
  <2> QED  BY <2>1, ConcatProperties
<1>3. /\ <<j, b>> \o r \in Seq(Jobs) /\ Len(<<j, b>> \o r) = 2 + Len(r)
      /\ \A i \in 1 .. 2 + Len(r) :
            (<<j, b>> \o r)[i] = IF i <= 2 THEN <<j, b>>[i] ELSE r[i - 2]
  <2>1. <<j, b>> \in Seq(Jobs) /\ Len(<<j, b>>) = 2
    OBVIOUS
  <2> QED  BY <2>1, ConcatProperties
<1>4. <<>> \o r = r
  BY ConcatEmptySeq
<1>5. Len(r) \in Nat
  BY LenProperties
<1>6. ASSUME NEW t \in Seq(Jobs), Len(t) >= 1
      PROVE  t # <<>> /\ Head(t) = t[1]
  BY <1>6
<1>7. LET t == <<j>> \o r
      IN  /\ t \in Seq(Jobs) /\ t # <<>> /\ Head(t) = j
          /\ \A i \in 2 .. Len(t) : t[i].pc = "recursive"
  <2>1. PICK t : t = <<j>> \o r
    OBVIOUS
  <2>2. t \in Seq(Jobs) /\ Len(t) = 1 + Len(r) /\ t[1] = j
    BY <1>2, <1>5, <2>1
  <2>3. \A i \in 2 .. Len(t) : t[i] = r[i - 1] /\ i - 1 \in 1 .. Len(r)
    BY <1>2, <1>5, <2>1, <2>2
  <2> QED  BY <1>1, <1>5, <1>6, <2>1, <2>2, <2>3
<1>8. LET t == <<j, b>> \o r
      IN  /\ t \in Seq(Jobs) /\ t # <<>> /\ Head(t) = j
          /\ \A i \in 2 .. Len(t) : t[i].pc = "recursive"
  <2>1. PICK t : t = <<j, b>> \o r
    OBVIOUS
  <2>2. t \in Seq(Jobs) /\ Len(t) = 2 + Len(r) /\ t[1] = j /\ t[2] = b
    BY <1>3, <1>5, <2>1
  <2>3. \A i \in 3 .. Len(t) : t[i] = r[i - 2] /\ i - 2 \in 1 .. Len(r)
    BY <1>3, <1>5, <2>1, <2>2
  <2>4. \A i \in 2 .. Len(t) : i = 2 \/ i \in 3 .. Len(t)
    BY <1>5, <2>2
  <2> QED  BY <1>1, <1>5, <1>6, <2>1, <2>2, <2>3, <2>4
<1>9. Len(s) # 1 =>
         LET t == <<>> \o r
         IN  /\ t \in Seq(Jobs) /\ t # <<>> /\ Head(t).pc = "recursive"
             /\ \A i \in 2 .. Len(t) : t[i].pc = "recursive"
  <2> SUFFICES ASSUME Len(s) # 1
               PROVE  /\ r # <<>> /\ Head(r).pc = "recursive"
                      /\ \A i \in 2 .. Len(r) : r[i].pc = "recursive"
    BY <1>4
  <2>1. Len(s) \in Nat /\ Len(s) # 0
    OBVIOUS
  <2>2. Len(r) >= 1
    BY <1>1, <2>1
  <2>3. r # <<>> /\ Head(r) = r[1] /\ 1 \in 1 .. Len(r)
    BY <1>5, <1>6, <2>2
  <2>4. \A i \in 2 .. Len(r) : i \in 1 .. Len(r)
    BY <1>5
  <2> QED  BY <1>1, <2>3, <2>4
<1> QED  BY <1>1, <1>7, <1>8, <1>9

(* A worker whose stack becomes another one.                               *)
LEMMA BecomesForm ==
    ASSUME IInv, NEW w \in Worker, Working(w), NEW js, Becomes(w, js),
           NEW t \in Seq(Jobs), t = js \o Tail(worker[w].stack)
    PROVE  /\ worker' = [worker EXCEPT ![w] = [pc |-> "work", stack |-> t]]
           /\ IsWorker([pc |-> "work", stack |-> t])
<1>1. worker[w] \in [pc : {"is_done", "pop", "work", "exit"},
                     stack : Seq(Jobs)] /\ worker[w].pc = "work"
  BY DEF IInv, TypeOK, Working
<1>2. worker' = [worker EXCEPT ![w] = [worker[w] EXCEPT !.stack = t]]
  BY DEF Becomes
<1>3. [worker[w] EXCEPT !.stack = t] = [pc |-> "work", stack |-> t]
  <2>1. PICK x : x = worker[w]
    OBVIOUS
  <2>2. PICK y : y = t
    OBVIOUS
  <2>3. [x EXCEPT !.stack = y] = [pc |-> "work", stack |-> y]
    BY <1>1, <2>1
  <2> QED  BY <2>1, <2>2, <2>3
<1> QED  BY <1>2, <1>3 DEF IsWorker

(* The job on top gets another label.                                      *)
LEMMA GotoForm ==
    ASSUME IInv, NEW w \in Worker, Working(w), NEW label, Goto(w, label),
           label \in {"track", "source_data", "recursive", "blank",
                          "recurse"},
           label \in {"blank", "recurse"} => Job(w).embedded # <<>>,
           label = "track" => ~Job(w).disable_ingest_hashes
    PROVE  \E r : /\ worker' = [worker EXCEPT ![w] = r]
                  /\ IsWorker(r) /\ Stacked(r) /\ r.pc = "work"
                  /\ Head(r.stack) = [Job(w) EXCEPT !.pc = label]
<1>1. Job(w) \in Jobs /\ worker[w].stack \in Seq(Jobs)
      /\ worker[w].stack # <<>>
  BY JobForm DEF IInv
<1>2. PICK j \in Jobs : /\ j = [Job(w) EXCEPT !.pc = label]
                        /\ j.pc = label
                        /\ label \in {"blank", "recurse"} => j.embedded # <<>>
                        /\ label = "track" => ~j.disable_ingest_hashes
  <2>1. PICK i \in Jobs : i = Job(w)
    BY <1>1
  <2>2. PICK j : j = [i EXCEPT !.pc = label]
    OBVIOUS
  <2>3. j \in Jobs
    BY <2>2 DEF Jobs
  <2>4. j.pc = label /\ j.embedded = i.embedded
        /\ j.disable_ingest_hashes = i.disable_ingest_hashes
    BY <2>2 DEF Jobs
  <2> QED  BY <2>1, <2>2, <2>3, <2>4
<1>3. \A i \in 2 .. Len(worker[w].stack) :
         worker[w].stack[i].pc = "recursive"
  BY DEF IInv, Stacks
<1>4. PICK b \in Jobs : b.pc = "recursive"
  <2>1. [Job(w) EXCEPT !.pc = "recursive"] \in Jobs
        /\ [Job(w) EXCEPT !.pc = "recursive"].pc = "recursive"
    BY <1>1 DEF Jobs
  <2> QED  BY <2>1
<1>5. PICK t \in Seq(Jobs) :
         /\ t = <<j>> \o Tail(worker[w].stack) /\ t # <<>> /\ Head(t) = j
         /\ \A i \in 2 .. Len(t) : t[i].pc = "recursive"
  BY <1>1, <1>3, <1>4, StackForms
<1>6. Becomes(w, <<j>>)
  BY <1>2 DEF Goto
<1> DEFINE r == [pc |-> "work", stack |-> t]
<1>7. worker' = [worker EXCEPT ![w] = r] /\ IsWorker(r)
  BY <1>5, <1>6, BecomesForm
<1>8. Stacked(r)
  BY <1>2, <1>5 DEF Stacked
<1>9. r.pc = "work" /\ Head(r.stack) = [Job(w) EXCEPT !.pc = label]
  BY <1>2, <1>5
<1> HIDE DEF r
<1> QED  BY <1>7, <1>8, <1>9

(* The calm steps: is_done, finding the queue empty, skipping the blocks   *)
(* of a duplicate, naming compressed data and ending a job.                *)
LEMMA CalmStepsIInv ==
    ASSUME IInv, NEW w \in Worker,
           \/ /\ is_done(w) \/ (pop(w) /\ job_queue = <<>>)
              /\ UNCHANGED <<trackerVars, dbVars, overtaken, failed, runs>>
           \/ IngestHashes(w) /\ Job(w).disable_ingest_hashes
           \/ RecurseName(w) \/ BlankRecursed(w) \/ EndJob(w)
    PROVE  IInv'
<1> USE DEF IInv
<1>1. CASE (is_done(w) \/ (pop(w) /\ job_queue = <<>>))
           /\ UNCHANGED <<trackerVars, dbVars, overtaken, failed, runs>>
  <2>1. worker[w].pc \in {"is_done", "pop"} /\ worker[w].stack = <<>>
    BY <1>1 DEF is_done, pop, Stacks, Working
  <2>2. PICK l : /\ worker' = [worker EXCEPT ![w].pc = l]
                 /\ l \in {"exit", "pop", "is_done"}
                 /\ l = "exit" => is_done_adding /\ job_queue = <<>>
    <3>1. CASE is_done(w)
      <4>1. PICK l : l = IF is_done_adding /\ job_queue = <<>> THEN "exit"
                         ELSE "pop"
        OBVIOUS
      <4>2. worker' = [worker EXCEPT ![w].pc = l]
        BY <3>1, <4>1 DEF is_done
      <4>3. l \in {"exit", "pop", "is_done"}
            /\ (l = "exit" => is_done_adding /\ job_queue = <<>>)
        BY <4>1
      <4> QED  BY <4>2, <4>3
    <3>2. CASE pop(w) /\ job_queue = <<>>
      BY <3>2 DEF pop
    <3> QED  BY <1>1, <3>1, <3>2
  <2> DEFINE r == [pc |-> l, stack |-> <<>>]
  <2>3. worker' = [worker EXCEPT ![w] = r] /\ IsWorker(r)
    <3>1. worker[w] \in [pc : {"is_done", "pop", "work", "exit"},
                         stack : Seq(Jobs)] /\ worker[w].stack = <<>>
      BY <2>1 DEF TypeOK
    <3>2. [worker[w] EXCEPT !.pc = l] = r
      BY <3>1
    <3>3. worker' = [worker EXCEPT ![w] = [worker[w] EXCEPT !.pc = l]]
      BY <2>2
    <3>4. <<>> \in Seq(Jobs)
      OBVIOUS
    <3> QED  BY <2>2, <3>2, <3>3, <3>4 DEF IsWorker
  <2>4. Stacked(r)
    BY <2>2 DEF Stacked
  <2>5. UNCHANGED <<job_queue, is_done_adding, adder>>
    BY <1>1 DEF is_done, pop
  <2>6. Calm(w, r)
    BY <1>1, <2>1, <2>2, <2>3, <2>4, <2>5
       DEF Calm, TypeOK, trackerVars, dbVars, Working
  <2> QED  BY <2>6, CalmIInv
<1>2. ASSUME Working(w), NEW label \in {"recursive", "blank", "recurse"},
             Goto(w, label), ~Busy(Job(w)),
             label \in {"blank", "recurse"} => Job(w).embedded # <<>>,
             sources \subseteq sources', sources' \subseteq File,
             UNCHANGED <<job_queue, is_done_adding, adder, source_data_map,
                         preexisting, ingested, described, runs>>
      PROVE  IInv'
  <2>1. PICK r : /\ worker' = [worker EXCEPT ![w] = r]
                 /\ IsWorker(r) /\ Stacked(r) /\ r.pc = "work"
                 /\ Head(r.stack) = [Job(w) EXCEPT !.pc = label]
    BY <1>2, GotoForm
  <2>2. Head(r.stack).pc = label
    BY <1>2, <2>1, JobForm DEF Jobs
  <2>3. Calm(w, r)
    BY <1>2, <2>1, <2>2 DEF Calm, Busy, Working
  <2> QED  BY <2>3, CalmIInv
<1>3. CASE IngestHashes(w) /\ Job(w).disable_ingest_hashes
  BY <1>2, <1>3 DEF IngestHashes, At, Working, Busy, TypeOK, queueVars,
                    trackerVars
<1>4. CASE RecurseName(w)
  <2>1. PICK label \in {"blank", "recurse"} :
          /\ Working(w) /\ Job(w).pc = "recursive" /\ Job(w).embedded # <<>>
          /\ Goto(w, label) /\ sources' = sources \cup {Head(Job(w).embedded)}
    BY <1>4 DEF RecurseName, At, Working
  <2>2. Head(Job(w).embedded) \in File
    <3>1. Job(w).embedded \in Seq(Compressed)
      BY <2>1, JobForm DEF Jobs
    <3>2. Head(Job(w).embedded) \in Compressed
      BY <2>1, <3>1
    <3> QED  BY <3>2 DEF Compressed
  <2> QED  BY <1>2, <1>4, <2>1, <2>2
              DEF RecurseName, Busy, TypeOK, queueVars, trackerVars
<1>5. CASE EndJob(w)
  <2>1. Working(w) /\ Job(w).pc = "recursive"
        /\ UNCHANGED <<queueVars, adder, trackerVars, dbVars, overtaken, failed,
                       runs>>
    BY <1>5 DEF EndJob, At, Working
  <2>2. Job(w) \in Jobs /\ worker[w].stack \in Seq(Jobs)
        /\ worker[w].stack # <<>>
    BY <2>1, JobForm
  <2>3. CASE Len(worker[w].stack) = 1
    <3>1. worker' = [worker EXCEPT ![w] = Waiting]
      BY <1>5, <2>3 DEF EndJob, Finished
    <3>2. IsWorker(Waiting) /\ Stacked(Waiting) /\ Waiting.pc = "is_done"
      BY DEF IsWorker, Stacked, Waiting
    <3>3. Calm(w, Waiting)
      BY <2>1, <3>1, <3>2
         DEF Calm, Busy, Working, TypeOK, queueVars, trackerVars, dbVars
    <3> QED  BY <3>3, CalmIInv
  <2>4. CASE Len(worker[w].stack) # 1
    <3>1. Becomes(w, <<>>)
      BY <1>5, <2>4 DEF EndJob
    <3>2. \A i \in 2 .. Len(worker[w].stack) :
             worker[w].stack[i].pc = "recursive"
      BY DEF Stacks
    <3>3. PICK t \in Seq(Jobs) :
             /\ t = <<>> \o Tail(worker[w].stack) /\ t # <<>>
             /\ Head(t).pc = "recursive"
             /\ \A i \in 2 .. Len(t) : t[i].pc = "recursive"
      BY <2>1, <2>2, <2>4, <3>2, StackForms
    <3> DEFINE r == [pc |-> "work", stack |-> t]
    <3>4. worker' = [worker EXCEPT ![w] = r] /\ IsWorker(r)
      BY <2>1, <3>1, <3>3, BecomesForm
    <3>5. Stacked(r)
      BY <3>3 DEF Stacked
    <3>6. Calm(w, r)
      BY <2>1, <3>3, <3>4, <3>5
         DEF Calm, Busy, Working, TypeOK, queueVars, trackerVars, dbVars
    <3> QED  BY <3>6, CalmIInv
  <2> QED  BY <2>3, <2>4
<1>6. CASE BlankRecursed(w)
  <2>1. Working(w) /\ Job(w).pc = "blank" /\ Job(w).embedded # <<>>
    BY <1>6 DEF BlankRecursed, At, Working, Stacks
  <2> QED  BY <1>2, <1>6, <2>1
              DEF BlankRecursed, Busy, TypeOK, queueVars, trackerVars
<1> QED  BY <1>1, <1>3, <1>4, <1>5, <1>6

(* The job on top of a stack changes: what it counts, if it counts, is     *)
(* what the job before it counted, or of a source that no job counts.      *)
TopChanges(w, r) ==
    /\ Working(w) /\ IsWorker(r) /\ Stacked(r) /\ r.pc = "work"
    /\ worker' = [worker EXCEPT ![w] = r]
    /\ job_queue' = job_queue
    /\ Busy(Head(r.stack)) =>
          \/ /\ Busy(Job(w))
             /\ Head(r.stack).file = Job(w).file
             /\ Head(r.stack).parts = Job(w).parts
          \/ ~Busy(Job(w)) /\ \A U : Elsewhere(Head(r.stack).file, U)
    /\ Busy(Head(r.stack)) => JobOK(Head(r.stack))'
    /\ \A x \in Jobs : (JobOK(x) /\ ~Clash(x, Job(w))) => JobOK(x)'

(* A step of a worker within its innermost call of process_ingest_job      *)
(* keeps the calls of all workers well formed and apart.                   *)
LEMMA TopChangesKeep ==
    ASSUME IInv, NEW w \in Worker, NEW r, TopChanges(w, r)
    PROVE  /\ Stacks' /\ Apart'
           /\ \A f, U :
                 (Elsewhere(f, U)
                  /\ (Busy(Head(r.stack)) =>
                         Busy(Job(w)) \/ f # Head(r.stack).file)) =>
                    Elsewhere(f, U)'
           /\ worker' \in [Worker -> [pc : {"is_done", "pop", "work", "exit"},
                                      stack : Seq(Jobs)]]
           /\ \A v \in Worker : Working(v)' <=> Working(v)
           /\ \A v \in Worker : worker'[v].pc = "exit" <=>
                                worker[v].pc = "exit"
           /\ \A v \in Worker \ {w} : Job(v)' = Job(v)
                                      /\ \A l : At(v, l)' <=> At(v, l)
           /\ Job(w)' = Head(r.stack)
           /\ \A l : At(w, l)' <=> Head(r.stack).pc = l
<1> USE DEF IInv
<1>1. IsWorker(r) /\ Stacked(r) /\ worker' = [worker EXCEPT ![w] = r]
      /\ r.pc = "work" /\ Working(w) /\ job_queue' = job_queue
  BY DEF TopChanges
<1>2. /\ worker' \in [Worker -> [pc : {"is_done", "pop", "work", "exit"},
                                 stack : Seq(Jobs)]]
      /\ worker'[w] = r
  BY <1>1, WorkerSet
<1>3. \A v \in Worker \ {w} : /\ worker'[v] = worker[v]
                              /\ Working(v)' <=> Working(v)
                              /\ Job(v)' = Job(v)
                              /\ \A l : At(v, l)' <=> At(v, l)
  BY <1>1, WorkerSet
<1>4. /\ Working(w)'
      /\ Job(w)' = Head(r.stack)
      /\ \A l : At(w, l)' <=> Head(r.stack).pc = l
  BY <1>1, <1>2 DEF Working, Job, At
<1>5. Stacks'
  <2>1. \A v \in Worker :
           /\ Working(v)' <=> worker'[v].stack # <<>>
           /\ \A i \in 2 .. Len(worker'[v].stack) :
                 worker'[v].stack[i].pc = "recursive"
           /\ At(v, "blank")' \/ At(v, "recurse")' =>
                 Job(v)'.embedded # <<>>
           /\ At(v, "track")' => ~Job(v)'.disable_ingest_hashes
    BY <1>1, WorkerSet
  <2> QED  BY <1>1, <2>1 DEF Stacks
<1>6. PICK j : j = Head(r.stack)
  OBVIOUS
<1>7. Busy(j) => \/ /\ Busy(Job(w)) /\ j.file = Job(w).file
                    /\ j.parts = Job(w).parts
                 \/ ~Busy(Job(w)) /\ \A U : Elsewhere(j.file, U)
  BY <1>6 DEF TopChanges
<1>8. \A i \in 1 .. Len(job_queue) : ~Clash(job_queue[i], j)
  BY <1>1, <1>7 DEF Clash, Apart, Elsewhere
<1>9. \A v \in Worker \ {w} : Working(v) =>
         ~Clash(Job(v), j) /\ ~Clash(j, Job(v))
  <2>1. \A v \in Worker \ {w} : Working(v) =>
           ~Clash(Job(v), Job(w)) /\ ~Clash(Job(w), Job(v))
    BY <1>1 DEF Apart
  <2> QED  BY <1>7, <2>1 DEF Clash, Elsewhere
<1>10. \A i \in 1 .. Len(job_queue) : JobOK(job_queue[i])'
  <2> SUFFICES ASSUME NEW i \in 1 .. Len(job_queue) PROVE JobOK(job_queue[i])'
    OBVIOUS
  <2>1. PICK x \in Jobs : x = job_queue[i]
    BY QueueForm
  <2>2. JobOK(x)'
    BY <1>1, <2>1 DEF Apart, TopChanges
  <2> QED  BY <1>1, <2>1, <2>2 DEF JobOK
<1>11. \A v \in Worker : Working(v)' => JobOK(Job(v))'
  <2> SUFFICES ASSUME NEW v \in Worker, Working(v)' PROVE JobOK(Job(v))'
    OBVIOUS
  <2>1. CASE v = w
    <3>1. Busy(j) => JobOK(j)'
      BY <1>6, <1>1, <1>2 DEF TopChanges, JobOK
    <3> QED  BY <1>4, <1>6, <2>1, <3>1 DEF JobOK
  <2>2. CASE v # w
    <3>1. PICK x \in Jobs : x = Job(v)
      BY <1>3, <2>2, JobForm
    <3>2. ~Clash(x, Job(w)) /\ JobOK(x)
      BY <1>1, <1>3, <2>2, <3>1 DEF Apart
    <3>3. JobOK(x)' /\ Job(v)' = x
      BY <1>3, <2>2, <3>1, <3>2 DEF TopChanges
    <3> QED  BY <3>3 DEF JobOK
  <2> QED  BY <2>1, <2>2
<1>12. \A v \in Worker : Working(v)' =>
          /\ \A i \in 1 .. Len(job_queue) : ~Clash(job_queue[i], Job(v)')
          /\ \A u \in Worker \ {v} : Working(u)' => ~Clash(Job(u)', Job(v)')
  <2> SUFFICES ASSUME NEW v \in Worker, Working(v)'
               PROVE  /\ \A i \in 1 .. Len(job_queue) :
                            ~Clash(job_queue[i], Job(v)')
                      /\ \A u \in Worker \ {v} :
                            Working(u)' => ~Clash(Job(u)', Job(v)')
    OBVIOUS
  <2>1. CASE v = w
    BY <1>3, <1>4, <1>6, <1>8, <1>9, <2>1
  <2>2. CASE v # w
    <3>1. ASSUME NEW u \in Worker \ {v}, Working(u)'
          PROVE  ~Clash(Job(u)', Job(v)')
      <4>1. CASE u = w
        BY <1>3, <1>4, <1>6, <1>9, <2>2, <4>1
      <4>2. CASE u # w
        BY <1>3, <2>2, <3>1, <4>2 DEF Apart
      <4> QED  BY <4>1, <4>2
    <3> QED  BY <1>3, <2>2, <3>1 DEF Apart
  <2> QED  BY <2>1, <2>2
<1>13. Apart'
  <2>1. \A i, k \in 1 .. Len(job_queue) :
           i # k => ~Clash(job_queue[i], job_queue[k])
    BY DEF Apart
  <2> QED  BY <1>1, <1>10, <1>11, <1>12, <2>1 DEF Apart, Clash, Busy
<1>14. ASSUME NEW f, NEW U, Elsewhere(f, U),
              Busy(j) => Busy(Job(w)) \/ f # j.file
       PROVE  Elsewhere(f, U)'
  <2>1. \A v \in Worker : Working(v)' =>
           ~(Busy(Job(v)') /\ Job(v)'.file = f /\ Job(v)'.parts = U)
    <3> SUFFICES ASSUME NEW v \in Worker, Working(v)'
                 PROVE  ~(Busy(Job(v)') /\ Job(v)'.file = f
                          /\ Job(v)'.parts = U)
      OBVIOUS
    <3>1. CASE v = w
      <4>1. Working(w) /\ Job(v)' = j
        BY <1>1, <1>4, <1>6, <3>1
      <4>2. ASSUME Busy(j), j.file = f, j.parts = U PROVE FALSE
        <5>1. Busy(Job(w))
          BY <1>14, <4>2
        <5>2. j.file = Job(w).file /\ j.parts = Job(w).parts
          BY <1>7, <4>2, <5>1
        <5> QED  BY <1>14, <4>1, <4>2, <5>1, <5>2 DEF Elsewhere
      <4> QED  BY <4>1, <4>2
    <3>2. CASE v # w
      BY <1>3, <1>14, <3>2 DEF Elsewhere
    <3> QED  BY <3>1, <3>2
  <2>2. \A i \in 1 .. Len(job_queue) :
           ~(Busy(job_queue[i]) /\ job_queue[i].file = f
             /\ job_queue[i].parts = U)
    BY <1>14 DEF Elsewhere
  <2> QED  BY <1>1, <2>1, <2>2 DEF Elsewhere, Busy
<1>15. \A v \in Worker : Working(v)' <=> Working(v)
  BY <1>1, <1>3, <1>4
<1>16. \A v \in Worker : worker'[v].pc = "exit" <=> worker[v].pc = "exit"
  BY <1>1, <1>2, <1>3 DEF Working
<1> QED  BY <1>2, <1>3, <1>4, <1>5, <1>6, <1>13, <1>14, <1>15, <1>16

(* A job goes from the front of the queue to a worker.                     *)
LEMMA PopIInv ==
    ASSUME IInv, NEW w \in Worker, pop(w), job_queue # <<>>,
           UNCHANGED <<trackerVars, dbVars, overtaken, failed, runs>>
    PROVE  IInv'
<1> USE DEF IInv
<1>1. /\ worker[w].pc = "pop"
      /\ worker' = [worker EXCEPT ![w] = [pc |-> "work",
                                          stack |-> <<Head(job_queue)>>]]
      /\ job_queue' = Tail(job_queue)
      /\ UNCHANGED <<is_done_adding, adder, source_data_map, preexisting,
                     sources, ingested, described, runs>>
  BY DEF pop, trackerVars, dbVars
<1>2. PICK j \in Jobs, n \in Nat :
         /\ n = Len(job_queue) /\ 1 \in 1 .. n
         /\ j = Head(job_queue) /\ j = job_queue[1]
  <2>1. job_queue \in Seq(Jobs)
    BY DEF TypeOK
  <2>2. Len(job_queue) \in Nat /\ Len(job_queue) # 0
    BY <2>1, LenProperties
  <2>3. Head(job_queue) \in Jobs /\ Head(job_queue) = job_queue[1]
    BY <2>1, HeadTailProperties
  <2> QED  BY <2>2, <2>3
<1>3. /\ job_queue' \in Seq(Jobs) /\ Len(job_queue') = n - 1
      /\ \A i \in 1 .. n - 1 :
            job_queue'[i] = job_queue[i + 1] /\ i + 1 \in 2 .. n
  <2>1. job_queue \in Seq(Jobs)
    BY DEF TypeOK
  <2>2. /\ Tail(job_queue) \in Seq(Jobs)
        /\ Len(Tail(job_queue)) = Len(job_queue) - 1
        /\ \A i \in 1 .. Len(Tail(job_queue)) :
              Tail(job_queue)[i] = job_queue[i + 1]
    BY <2>1, HeadTailProperties
  <2> QED  BY <1>1, <1>2, <2>2
<1> DEFINE r == [pc |-> "work", stack |-> <<j>>]
<1>4. j.pc = "hashes"
  BY <1>2 DEF Stacks
<1>5. /\ worker' = [worker EXCEPT ![w] = r] /\ IsWorker(r) /\ Stacked(r)
      /\ r.pc = "work" /\ Head(r.stack) = j
  <2>1. <<j>> \in Seq(Jobs) /\ Len(<<j>>) = 1 /\ <<j>> # <<>>
        /\ Head(<<j>>) = j
    OBVIOUS
  <2>2. IsWorker(r)
    BY <2>1 DEF IsWorker
  <2>3. Stacked(r)
    BY <1>4, <2>1 DEF Stacked
  <2> QED  BY <1>1, <1>2, <2>1, <2>2, <2>3
<1> HIDE DEF r
<1>6. /\ worker' \in [Worker -> [pc : {"is_done", "pop", "work", "exit"},
                                 stack : Seq(Jobs)]]
      /\ worker'[w] = r
  BY <1>5, WorkerSet
<1>7. \A v \in Worker \ {w} : /\ worker'[v] = worker[v]
                              /\ Working(v)' <=> Working(v)
                              /\ Job(v)' = Job(v)
                              /\ \A l : At(v, l)' <=> At(v, l)
  BY <1>5, WorkerSet
<1>8. /\ ~Working(w) /\ Working(w)' /\ Job(w)' = j
      /\ \A l : ~At(w, l) /\ (At(w, l)' <=> l = "hashes")
  BY <1>1, <1>4, <1>5, <1>6 DEF Working, At, Job
<1>9. TypeOK' /\ AdderPlace' /\ Stacks' /\ Drained'
  <2>1. TypeOK'
    BY <1>1, <1>3, <1>6 DEF TypeOK
  <2>2. AdderPlace'
    BY <1>1 DEF AdderPlace, Pushing, ThisFile
  <2>3. \A v \in Worker :
           /\ Working(v)' <=> worker'[v].stack # <<>>
           /\ \A i \in 2 .. Len(worker'[v].stack) :
                 worker'[v].stack[i].pc = "recursive"
           /\ At(v, "blank")' \/ At(v, "recurse")' =>
                 Job(v)'.embedded # <<>>
           /\ At(v, "track")' => ~Job(v)'.disable_ingest_hashes
    BY <1>5, WorkerSet
  <2>4. \A i \in 1 .. Len(job_queue') : job_queue'[i].pc = "hashes"
    BY <1>2, <1>3 DEF Stacks
  <2>5. \A v \in Worker : worker[v].pc # "exit"
    BY DEF Drained
  <2>6. \A v \in Worker : worker'[v].pc # "exit"
    BY <1>5, <1>6, <1>7, <2>5
  <2>7. Drained'
    BY <1>1, <2>5, <2>6 DEF Drained
  <2> QED  BY <2>1, <2>2, <2>3, <2>4, <2>7 DEF Stacks
<1>10. \A x : JobOK(x) => JobOK(x)'
  BY <1>1 DEF JobOK, Tracked, Units
<1>11. \A v \in Worker : Working(v) => v # w
  BY <1>8
<1>12. \A i \in 1 .. n - 1 : /\ JobOK(job_queue'[i])
                            /\ ~Clash(job_queue'[i], j)
                            /\ ~Clash(j, job_queue'[i])
  BY <1>2, <1>3 DEF Apart
<1>13. \A i, k \in 1 .. n - 1 :
          i # k => ~Clash(job_queue'[i], job_queue'[k])
  <2>1. \A i, k \in 1 .. n - 1 : i # k => i + 1 # k + 1
    BY <1>2
  <2> QED  BY <1>2, <1>3, <2>1 DEF Apart
<1>14. \A v \in Worker : Working(v) =>
          /\ ~Clash(Job(v), j) /\ ~Clash(j, Job(v))
          /\ \A i \in 1 .. n - 1 : ~Clash(job_queue'[i], Job(v))
  BY <1>2, <1>3 DEF Apart, Clash
<1>15. Apart'
  <2>1. \A i \in 1 .. n - 1 : JobOK(job_queue[i])'
    <3> SUFFICES ASSUME NEW i \in 1 .. n - 1 PROVE JobOK(job_queue[i])'
      OBVIOUS
    <3>1. PICK x : x = job_queue'[i]
      OBVIOUS
    <3>2. JobOK(x)'
      BY <1>10, <1>12, <3>1
    <3> QED  BY <3>1, <3>2 DEF JobOK
  <2>2. \A v \in Worker : Working(v)' => JobOK(Job(v))'
    <3> SUFFICES ASSUME NEW v \in Worker, Working(v)' PROVE JobOK(Job(v))'
      OBVIOUS
    <3>1. PICK x : x = Job(v)'
      OBVIOUS
    <3>2. JobOK(x)
      BY <1>2, <1>7, <1>8, <3>1 DEF Apart
    <3>3. JobOK(x)'
      BY <1>10, <3>2
    <3> QED  BY <3>1, <3>3 DEF JobOK
  <2>3. \A v \in Worker : Working(v)' =>
           /\ \A i \in 1 .. n - 1 : ~Clash(job_queue'[i], Job(v)')
           /\ \A u \in Worker \ {v} : Working(u)' => ~Clash(Job(u)', Job(v)')
    <3> SUFFICES ASSUME NEW v \in Worker, Working(v)'
                 PROVE  /\ \A i \in 1 .. n - 1 :
                              ~Clash(job_queue'[i], Job(v)')
                        /\ \A u \in Worker \ {v} :
                              Working(u)' => ~Clash(Job(u)', Job(v)')
      OBVIOUS
    <3>1. CASE v = w
      BY <1>7, <1>8, <1>12, <1>14, <3>1
    <3>2. CASE v # w
      <4>1. Working(v) /\ Job(v)' = Job(v)
        BY <1>7, <3>2
      <4>2. ASSUME NEW u \in Worker \ {v}, Working(u)'
            PROVE  ~Clash(Job(u)', Job(v)')
        <5>1. CASE u = w
          BY <1>8, <1>14, <4>1, <5>1
        <5>2. CASE u # w
          BY <1>7, <4>1, <4>2, <5>2 DEF Apart
        <5> QED  BY <5>1, <5>2
      <4> QED  BY <1>14, <4>1, <4>2
    <3> QED  BY <3>1, <3>2
  <2> QED  BY <1>3, <1>13, <2>1, <2>2, <2>3 DEF Apart, Clash, Busy
<1>16. \A f, U : Elsewhere(f, U) => Elsewhere(f, U)'
  <2> SUFFICES ASSUME NEW f, NEW U, Elsewhere(f, U)
               PROVE  Elsewhere(f, U)'
    OBVIOUS
  <2>1. \A v \in Worker : Working(v)' =>
           ~(Busy(Job(v)') /\ Job(v)'.file = f /\ Job(v)'.parts = U)
    <3> SUFFICES ASSUME NEW v \in Worker, Working(v)'
                 PROVE  ~(Busy(Job(v)') /\ Job(v)'.file = f
                          /\ Job(v)'.parts = U)
      OBVIOUS
    <3>1. CASE v = w
      BY <1>2, <1>8, <3>1 DEF Elsewhere
    <3>2. CASE v # w
      BY <1>7, <3>2 DEF Elsewhere
    <3> QED  BY <3>1, <3>2
  <2>2. \A i \in 1 .. n - 1 :
           ~(Busy(job_queue'[i]) /\ job_queue'[i].file = f
             /\ job_queue'[i].parts = U)
    BY <1>2, <1>3 DEF Elsewhere
  <2> QED  BY <1>3, <2>1, <2>2 DEF Elsewhere, Busy
<1>17. AdderOK'
  BY <1>1, <1>16 DEF AdderOK, Pushing, Unsent, ThisFile, Tracked
<1>18. Counted'
  <2>1. \A f, U : Tracking(f, U)' <=> Tracking(f, U)
    BY <1>7, <1>8 DEF Tracking
  <2>2. \A f \in File : DoneUnits(f)' = DoneUnits(f)
    BY <1>1, <2>1 DEF DoneUnits, Units
  <2> QED  BY <1>1, <2>2 DEF Counted, Tracked
<1>19. LastJob'
  BY <1>1, <1>7, <1>8 DEF LastJob, Tracked, Full
<1>20. DataLast' /\ IngestedOnce' /\ DescribedIsComplete'
  BY <1>1 DEF DataLast, Tracked, Full, Known, IngestedOnce,
              DescribedIsComplete, Complete
<1> QED  BY <1>9, <1>15, <1>17, <1>18, <1>19, <1>20

(* A worker is given a new label for the job that it runs.                 *)
LEMMA RelabelForm ==
    ASSUME IInv, NEW w \in Worker, Working(w), NEW label, Goto(w, label),
           label \in {"track", "source_data", "recursive"},
           label = "track" => ~Job(w).disable_ingest_hashes
    PROVE  \E r, i :
              /\ i \in Jobs /\ worker' = [worker EXCEPT ![w] = r]
              /\ IsWorker(r) /\ Stacked(r) /\ r.pc = "work"
              /\ i = Head(r.stack) /\ i.pc = label
              /\ i.file = Job(w).file /\ i.parts = Job(w).parts
              /\ i.disable_ingest_hashes = Job(w).disable_ingest_hashes
<1>1. PICK r : /\ worker' = [worker EXCEPT ![w] = r]
               /\ IsWorker(r) /\ Stacked(r) /\ r.pc = "work"
               /\ Head(r.stack) = [Job(w) EXCEPT !.pc = label]
  BY GotoForm
<1>2. PICK j \in Jobs : j = Job(w)
  BY JobForm DEF IInv
<1>3. PICK i : i = [j EXCEPT !.pc = label]
  OBVIOUS
<1>4. i \in Jobs /\ i.pc = label /\ i.file = j.file /\ i.parts = j.parts
      /\ i.disable_ingest_hashes = j.disable_ingest_hashes
  BY <1>3 DEF Jobs
<1>5. i = Head(r.stack)
  BY <1>1, <1>2, <1>3
<1> QED  BY <1>1, <1>2, <1>4, <1>5

(* The blocks of a part are counted.                                       *)
LEMMA IngestHashesIInv ==
    ASSUME IInv, NEW w \in Worker, IngestHashes(w),
           ~Job(w).disable_ingest_hashes
    PROVE  IInv'
<1> USE DEF IInv
<1>1. /\ Working(w) /\ Job(w).pc = "hashes" /\ Goto(w, "track")
      /\ sources' = sources \cup {Job(w).file}
      /\ UNCHANGED <<job_queue, is_done_adding, adder, source_data_map,
                     preexisting, described, failed, runs>>
  BY DEF IngestHashes, At, Working, queueVars, trackerVars
<1>2. PICK j \in Jobs : j = Job(w)
  BY <1>1, JobForm
<1>3. PICK f \in File, U \in SUBSET Nat : f = j.file /\ U = j.parts
  BY DEF Jobs
<1>4. /\ Busy(j) /\ Tracked(f) /\ U \in Units(f)
      /\ \A p \in U : ingested[f][p] = 0
  BY <1>1, <1>2, <1>3 DEF Apart, JobOK, Busy
<1>5. /\ U # {} /\ U \subseteq AllParts(f)
      /\ \A V \in Units(f) : V \subseteq AllParts(f)
                             /\ (V # U => V \cap U = {})
  BY <1>4, UnitsForm DEF Counted
<1>6. PICK g : /\ g = [p \in AllParts(f) |->
                          ingested[f][p] + (IF p \in U THEN 1 ELSE 0)]
               /\ ingested' = [ingested EXCEPT ![f] = g]
  BY <1>2, <1>3 DEF IngestHashes
<1>7. ingested[f] \in [AllParts(f) -> Nat]
  BY DEF TypeOK
<1>8. /\ g \in [AllParts(f) -> Nat]
      /\ \A p \in U : g[p] = 1
      /\ \A p \in AllParts(f) \ U : g[p] = ingested[f][p]
  BY <1>4, <1>5, <1>6, <1>7
<1>9. /\ ingested' = [h \in File |-> ingested'[h]]
      /\ ingested'[f] = g
      /\ \A h \in File : h # f => ingested'[h] = ingested[h]
  <2>1. ingested = [h \in File |-> ingested[h]]
    BY DEF TypeOK
  <2> QED  BY <1>6, <2>1
<1>10. PICK r, i :
          /\ i \in Jobs /\ worker' = [worker EXCEPT ![w] = r]
          /\ IsWorker(r) /\ Stacked(r) /\ r.pc = "work"
          /\ i = Head(r.stack) /\ i.pc = "track"
          /\ i.file = f /\ i.parts = U /\ ~i.disable_ingest_hashes
  BY <1>1, <1>2, <1>3, RelabelForm
<1>11. Busy(i) /\ JobOK(i)'
  <2>1. Tracked(f)' /\ U \in Units(f)'
    BY <1>1, <1>4 DEF Tracked, Units
  <2> QED  BY <1>8, <1>9, <1>10, <2>1 DEF JobOK, Busy
<1>12. \A x \in Jobs : (JobOK(x) /\ ~Clash(x, j)) => JobOK(x)'
  <2> SUFFICES ASSUME NEW x \in Jobs, JobOK(x), ~Clash(x, j), Busy(x)
               PROVE  /\ Tracked(x.file)' /\ x.parts \in Units(x.file)'
                      /\ \A p \in x.parts : ingested'[x.file][p]
                            = IF x.pc = "hashes" THEN 0 ELSE 1
    BY DEF JobOK
  <2>1. x.file \in File
    BY DEF Jobs
  <2>2. /\ Tracked(x.file) /\ x.parts \in Units(x.file)
        /\ \A p \in x.parts : ingested[x.file][p]
              = IF x.pc = "hashes" THEN 0 ELSE 1
    BY DEF JobOK
  <2>3. CASE x.file # f
    BY <1>1, <1>9, <2>1, <2>2, <2>3 DEF Tracked, Units
  <2>4. CASE x.file = f
    <3>1. x.parts # U
      BY <1>3, <1>4, <2>4 DEF Clash
    <3>2. \A p \in x.parts : p \in AllParts(f) \ U
      BY <1>5, <2>2, <2>4, <3>1
    <3> QED  BY <1>1, <1>8, <1>9, <2>2, <2>4, <3>2 DEF Tracked, Units
  <2> QED  BY <2>3, <2>4
<1>13. TopChanges(w, r)
  BY <1>1, <1>2, <1>3, <1>4, <1>10, <1>11, <1>12 DEF TopChanges
<1>14. /\ Stacks' /\ Apart'
       /\ \A h, V : Elsewhere(h, V) => Elsewhere(h, V)'
       /\ worker' \in [Worker -> [pc : {"is_done", "pop", "work", "exit"},
                                  stack : Seq(Jobs)]]
       /\ \A v \in Worker : worker'[v].pc = "exit" <=>
                            worker[v].pc = "exit"
       /\ \A v \in Worker \ {w} : Job(v)' = Job(v)
                                  /\ \A l : At(v, l)' <=> At(v, l)
       /\ Job(w)' = i /\ \A l : At(w, l)' <=> l = "track"
  BY <1>2, <1>4, <1>10, <1>13, TopChangesKeep
<1>15. ~At(w, "track")
  BY <1>1 DEF At
<1>16. TypeOK' /\ AdderPlace' /\ Drained'
  <2>1. TypeOK'
    BY <1>1, <1>2, <1>3, <1>8, <1>9, <1>14 DEF TypeOK
  <2>2. AdderPlace' /\ Drained'
    BY <1>1, <1>14 DEF AdderPlace, Drained, Pushing, ThisFile
  <2> QED  BY <2>1, <2>2
<1>17. AdderOK'
  <2> SUFFICES ASSUME Pushing, ~adder.disable, NEW p \in Unsent
               PROVE  ingested'[ThisFile][p] = 0
    BY <1>1, <1>14 DEF AdderOK, Pushing, Unsent, ThisFile, Tracked
  <2>1. /\ ThisFile \in File /\ p \in AllParts(ThisFile)
        /\ ingested[ThisFile][p] = 0 /\ Elsewhere(ThisFile, {p})
        /\ source_data_map[ThisFile].parts_total = Parts[ThisFile]
    <3>1. ThisFile \in File
      <4>1. adder.k \in 1 .. Len(filenames)
        BY DEF TypeOK, Idlers, Pushers, Pushing
      <4> QED  BY <4>1, IngestAssumption DEF ThisFile
    <3> QED  BY <3>1 DEF AdderOK, Unsent
  <2>2. CASE ThisFile # f
    BY <1>9, <2>1, <2>2
  <2>3. CASE ThisFile = f
    <3>1. U # {p}
      BY <1>1, <1>2, <1>3, <1>4, <2>1, <2>3 DEF Elsewhere
    <3>2. p \notin U
      BY <1>4, <2>1, <2>3, <3>1 DEF Units
    <3> QED  BY <1>8, <1>9, <2>1, <2>3, <3>2
  <2> QED  BY <2>2, <2>3
<1>18. Counted'
  <2>1. \A h, V : (h # f \/ V # U) => (Tracking(h, V)' <=> Tracking(h, V))
    BY <1>10, <1>14, <1>15 DEF Tracking
  <2>2. Tracking(f, U)'
    BY <1>10, <1>14 DEF Tracking
  <2>3. \A h \in File : Units(h)' = Units(h)
    BY <1>1 DEF Units
  <2>4. \A h \in File : h # f => DoneUnits(h)' = DoneUnits(h)
    BY <1>9, <2>1, <2>3 DEF DoneUnits
  <2>5. U \notin DoneUnits(f) /\ U \notin DoneUnits(f)'
    BY <1>4, <1>5, <2>2 DEF DoneUnits
  <2>6. \A V \in Units(f) : V # U =>
           \A p \in V : ingested'[f][p] = ingested[f][p]
    BY <1>5, <1>8, <1>9
  <2>7. \A V \in Units(f) : V # U =>
           (V \in DoneUnits(f)' <=> V \in DoneUnits(f))
    BY <2>1, <2>3, <2>6 DEF DoneUnits
  <2>8. \A V : (V \in DoneUnits(f) => V \in Units(f))
               /\ (V \in DoneUnits(f)' => V \in Units(f))
    BY <2>3 DEF DoneUnits
  <2>9. DoneUnits(f)' = DoneUnits(f)
    BY <2>5, <2>7, <2>8
  <2> QED  BY <1>1, <2>4, <2>9 DEF Counted, Tracked
<1>19. LastJob'
  <2>1. \A v \in Worker : At(v, "source_data")' => v # w
    BY <1>14
  <2> QED  BY <1>1, <1>14, <2>1 DEF LastJob, Tracked, Full
<1>20. DataLast'
  <2>1. Known(f)
    BY <1>4 DEF Known, Tracked
  <2>2. f \in sources' /\ sources \subseteq sources'
    BY <1>1, <1>2, <1>3
  <2>3. \A h \in File : Known(h)' <=> Known(h)
    BY <1>1 DEF Known
  <2> QED  BY <1>1, <1>9, <2>1, <2>2, <2>3 DEF DataLast, Tracked, Full
<1>21. IngestedOnce' /\ DescribedIsComplete'
  <2>1. \A p \in AllParts(f) : g[p] <= 1
    BY <1>3, <1>8 DEF IngestedOnce
  <2>2. IngestedOnce'
    BY <1>9, <2>1 DEF IngestedOnce
  <2>3. described[f] # 1
    BY <1>3, <1>4, <1>5 DEF DescribedIsComplete, Complete
  <2>4. \A h \in File : (h # f /\ Complete(h)) => Complete(h)'
    BY <1>9 DEF Complete
  <2> QED  BY <1>1, <2>2, <2>3, <2>4 DEF DescribedIsComplete
<1> QED  BY <1>14, <1>16, <1>17, <1>18, <1>19, <1>20, <1>21

(* A job that is to report its blocks to the tracker: they are counted, no *)
(* other job reports them, and so the tracker still waits for them.        *)
LEMMA TrackForm ==
    ASSUME IInv, NEW w \in Worker, At(w, "track")
    PROVE  LET f == Job(w).file
               U == Job(w).parts
           IN  /\ f \in File /\ Busy(Job(w)) /\ Tracked(f) /\ U \in Units(f)
               /\ \A p \in U : ingested[f][p] = 1
               /\ \A v \in Worker \ {w} : At(v, "track") =>
                     ~(Job(v).file = f /\ Job(v).parts = U)
               /\ U \notin DoneUnits(f) /\ ~Full(f)
<1> USE DEF IInv
<1>1. PICK j \in Jobs : j = Job(w) /\ j.pc = "track" /\ Working(w)
  BY JobForm DEF At, Working
<1>2. PICK f \in File, U \in SUBSET Nat : f = j.file /\ U = j.parts
  BY DEF Jobs
<1>3. Busy(j)
  BY <1>1 DEF Busy, Stacks
<1>4. /\ Tracked(f) /\ U \in Units(f)
      /\ \A p \in U : ingested[f][p] = 1
  BY <1>1, <1>2, <1>3 DEF Apart, JobOK
<1>5. \A v \in Worker \ {w} : At(v, "track") =>
         ~(Job(v).file = f /\ Job(v).parts = U)
  <2>1. \A v \in Worker : At(v, "track") => Working(v) /\ Busy(Job(v))
    BY DEF Stacks, Busy, At, Working
  <2> QED  BY <1>1, <1>2, <1>3, <2>1 DEF Apart, Clash
<1>6. U \notin DoneUnits(f)
  BY <1>1, <1>2 DEF DoneUnits, Tracking
<1>7. ~Full(f)
  <2>1. Cardinality(DoneUnits(f)) # source_data_map[f].parts_total
    BY <1>2, <1>4, <1>6, DoneForm DEF Counted
  <2> QED  BY <1>2, <1>4, <2>1 DEF Counted, Full
<1> QED  BY <1>1, <1>2, <1>3, <1>4, <1>5, <1>6, <1>7

(* The tracker counts one unit more of the source; the last one gets its   *)
(* source data.                                                            *)
LEMMA track_sourceIInv ==
    ASSUME IInv, NEW w \in Worker, track_source(w)
    PROVE  IInv'
<1> USE DEF IInv
<1>1. /\ At(w, "track") /\ Working(w) /\ Job(w).pc = "track"
      /\ UNCHANGED <<job_queue, is_done_adding, adder, preexisting, sources,
                     ingested, described, runs>>
  BY DEF track_source, At, Working, queueVars, dbVars
<1>2. PICK j \in Jobs : j = Job(w)
  BY <1>1, JobForm
<1>3. PICK f \in File, U \in SUBSET Nat : f = j.file /\ U = j.parts
  BY DEF Jobs
<1>4. /\ Busy(j) /\ Tracked(f) /\ U \in Units(f)
      /\ \A p \in U : ingested[f][p] = 1
      /\ \A v \in Worker \ {w} : At(v, "track") =>
            ~(Job(v).file = f /\ Job(v).parts = U)
      /\ U \notin DoneUnits(f) /\ ~Full(f)
  BY <1>1, <1>2, <1>3, TrackForm
<1>5. PICK t \in Tracks : t = source_data_map[f]
  BY <1>3, <1>4 DEF TypeOK, Tracked, Untracked
<1>6. PICK n \in Nat : n = t.parts_done
  BY <1>5 DEF Tracks
<1>7. n = Cardinality(DoneUnits(f)) /\ IsFiniteSet(DoneUnits(f))
      /\ n # t.parts_total
  BY <1>3, <1>4, <1>5, <1>6, DoneForm DEF Counted, Full
<1>8. PICK u \in Tracks :
         /\ source_data_map' = [source_data_map EXCEPT ![f] = u]
         /\ u.parts_total = t.parts_total /\ u.parts_done = n + 1
         /\ u.tracked
  <2>1. PICK u : u = [t EXCEPT !.parts_done = n + 1]
    OBVIOUS
  <2>2. u \in Tracks /\ u.parts_total = t.parts_total
        /\ u.parts_done = n + 1 /\ u.tracked
    <3>1. PICK m \in Nat : m = t.parts_total
      BY DEF Tracks
    <3>2. t = [tracked |-> TRUE, parts_total |-> m, parts_done |-> n]
      BY <1>6, <3>1 DEF Tracks
    <3>3. u = [tracked |-> TRUE, parts_total |-> m, parts_done |-> n + 1]
      BY <2>1, <3>2
    <3>4. n + 1 \in Nat
      OBVIOUS
    <3> QED  BY <3>1, <3>3, <3>4 DEF Tracks
  <2>3. source_data_map' = [source_data_map EXCEPT
                               ![f] = [t EXCEPT !.parts_done = n + 1]]
    BY <1>2, <1>3, <1>5, <1>6 DEF track_source
  <2> QED  BY <2>1, <2>2, <2>3
<1>9. /\ source_data_map' \in [File -> {Untracked} \cup Tracks]
      /\ source_data_map'[f] = u
      /\ \A h \in File : h # f => source_data_map'[h] = source_data_map[h]
  BY <1>8 DEF TypeOK
<1>10. \A h \in File : /\ Tracked(h)' <=> Tracked(h)
                       /\ source_data_map'[h].parts_total
                             = source_data_map[h].parts_total
                       /\ Units(h)' = Units(h)
  BY <1>4, <1>5, <1>8, <1>9 DEF Tracked, Units
<1>11. PICK label \in {"source_data", "recursive"} :
          /\ Goto(w, label)
          /\ label = "source_data" => n + 1 = t.parts_total
  <2>1. PICK label : label = IF IsFinalPart(f) THEN "source_data"
                                               ELSE "recursive"
    OBVIOUS
  <2>2. Goto(w, label)
    BY <1>2, <1>3, <2>1 DEF track_source
  <2>3. label \in {"source_data", "recursive"}
        /\ (label = "source_data" => n + 1 = t.parts_total)
    BY <1>5, <1>6, <2>1 DEF IsFinalPart
  <2> QED  BY <2>2, <2>3
<1>12. PICK r, i :
          /\ i \in Jobs /\ worker' = [worker EXCEPT ![w] = r]
          /\ IsWorker(r) /\ Stacked(r) /\ r.pc = "work"
          /\ i = Head(r.stack) /\ i.pc = label
          /\ i.file = f /\ i.parts = U
  BY <1>1, <1>2, <1>3, <1>11, RelabelForm
<1>13. ~Busy(i)
  BY <1>11, <1>12 DEF Busy
<1>14. \A x \in Jobs : JobOK(x) => JobOK(x)'
  <2>1. \A x \in Jobs : x.file \in File
    BY DEF Jobs
  <2> QED  BY <1>1, <1>10, <2>1 DEF JobOK
<1>15. TopChanges(w, r)
  BY <1>1, <1>12, <1>13, <1>14 DEF TopChanges
<1>16. /\ Stacks' /\ Apart'
       /\ \A h, V : Elsewhere(h, V) => Elsewhere(h, V)'
       /\ worker' \in [Worker -> [pc : {"is_done", "pop", "work", "exit"},
                                  stack : Seq(Jobs)]]
       /\ \A v \in Worker : worker'[v].pc = "exit" <=>
                            worker[v].pc = "exit"
       /\ \A v \in Worker \ {w} : Job(v)' = Job(v)
                                  /\ \A l : At(v, l)' <=> At(v, l)
       /\ Job(w)' = i /\ \A l : At(w, l)' <=> l = label
  BY <1>12, <1>13, <1>15, TopChangesKeep
<1>17. TypeOK' /\ AdderPlace' /\ Drained'
  <2>1. TypeOK'
    BY <1>1, <1>9, <1>16 DEF TypeOK
  <2>2. AdderPlace' /\ Drained'
    BY <1>1, <1>16 DEF AdderPlace, Drained, Pushing, ThisFile
  <2> QED  BY <2>1, <2>2
<1>18. AdderOK'
  <2>1. Pushing => ThisFile \in File
    <3>1. Pushing => adder.k \in 1 .. Len(filenames)
      BY DEF TypeOK, Idlers, Pushers, Pushing
    <3> QED  BY <3>1, IngestAssumption DEF ThisFile
  <2> QED  BY <1>1, <1>10, <1>16, <2>1
              DEF AdderOK, Pushing, Unsent, ThisFile
<1>19. Counted'
  <2>1. \A h, V : (h # f \/ V # U) => (Tracking(h, V)' <=> Tracking(h, V))
    BY <1>1, <1>2, <1>3, <1>11, <1>16 DEF Tracking
  <2>2. ~Tracking(f, U)'
    BY <1>4, <1>11, <1>16 DEF Tracking
  <2>3. \A h \in File : h # f => DoneUnits(h)' = DoneUnits(h)
    BY <1>1, <1>10, <2>1 DEF DoneUnits
  <2>4. DoneUnits(f)' = DoneUnits(f) \cup {U}
    <3>1. U \in DoneUnits(f)'
      BY <1>1, <1>4, <1>10, <2>2 DEF DoneUnits
    <3>2. \A V : V # U => (V \in DoneUnits(f)' <=> V \in DoneUnits(f))
      BY <1>1, <1>3, <1>10, <2>1 DEF DoneUnits
    <3> QED  BY <3>1, <3>2
  <2>5. Cardinality(DoneUnits(f)') = n + 1
    BY <1>4, <1>7, <2>4, FS_AddElement
  <2>6. \A h \in File : h # f => source_data_map'[h] = source_data_map[h]
    BY <1>9
  <2>7. u.parts_total \in {1, Parts[f]} /\ f \notin preexisting
    BY <1>3, <1>4, <1>5, <1>8 DEF Counted
  <2> SUFFICES ASSUME NEW h \in File, Tracked(h)'
               PROVE  /\ h \notin preexisting'
                      /\ source_data_map'[h].parts_total \in {1, Parts[h]}
                      /\ source_data_map'[h].parts_done
                            = Cardinality(DoneUnits(h)')
    BY DEF Counted
  <2>8. CASE h = f
    BY <1>1, <1>8, <1>9, <2>5, <2>7, <2>8
  <2>9. CASE h # f
    BY <1>1, <1>10, <2>3, <2>6, <2>9 DEF Counted
  <2> QED  BY <2>8, <2>9
<1>20. described[f] = 0
  BY <1>3, <1>4 DEF DataLast
<1>21. \A v \in Worker : At(v, "source_data") => Job(v).file # f
  BY <1>4 DEF LastJob
<1>22. \A v \in Worker \ {w} : At(v, "source_data") => Job(v).file \in File
  BY JobForm DEF At, Working, Jobs
<1>23. \A h \in File : h # f => (Full(h)' <=> Full(h))
  BY <1>9 DEF Full
<1>24. LastJob'
  <2> SUFFICES ASSUME NEW v \in Worker, At(v, "source_data")'
               PROVE  /\ Tracked(Job(v).file)' /\ Full(Job(v).file)'
                      /\ described'[Job(v)'.file] = 0
                      /\ \A x \in Worker \ {v} : At(x, "source_data")' =>
                            Job(x)'.file # Job(v)'.file
    BY DEF LastJob
  <2>1. CASE v = w
    <3>1. n + 1 = t.parts_total /\ Job(v)' = i
      BY <1>11, <1>16, <2>1
    <3>2. Tracked(f)' /\ Full(f)'
      BY <1>4, <1>8, <1>9, <1>10, <3>1 DEF Full
    <3>3. Tracked(Job(v).file)' /\ Full(Job(v).file)'
      BY <1>12, <3>1, <3>2 DEF Tracked, Full
    <3>4. described'[f] = 0 /\ Job(v)'.file = f
      BY <1>1, <1>12, <1>20, <3>1
    <3>5. \A x \in Worker \ {v} : At(x, "source_data")' => Job(x)'.file # f
      BY <1>16, <1>21, <2>1
    <3> QED  BY <3>3, <3>4, <3>5
  <2>2. CASE v # w
    <3>1. At(v, "source_data") /\ Job(v)' = Job(v)
      BY <1>16, <2>2
    <3>2. PICK h \in File : h = Job(v).file
      BY <1>22, <2>2, <3>1
    <3>3. h # f /\ Tracked(h) /\ Full(h) /\ described[h] = 0
      BY <1>21, <3>1, <3>2 DEF LastJob
    <3>4. Tracked(h)' /\ Full(h)'
      BY <1>10, <1>23, <3>3
    <3>5. Tracked(Job(v).file)' /\ Full(Job(v).file)'
      BY <3>1, <3>2, <3>4 DEF Tracked, Full
    <3>6. \A x \in Worker \ {v} : At(x, "source_data")' => Job(x)'.file # h
      <4> SUFFICES ASSUME NEW x \in Worker \ {v}, At(x, "source_data")'
                   PROVE  Job(x)'.file # h
        OBVIOUS
      <4>1. CASE x = w
        BY <1>12, <1>16, <3>3, <4>1
      <4>2. CASE x # w
        BY <1>16, <3>1, <3>2, <4>2 DEF LastJob
      <4> QED  BY <4>1, <4>2
    <3> QED  BY <1>1, <3>1, <3>2, <3>3, <3>5, <3>6
  <2> QED  BY <2>1, <2>2
<1>25. DataLast'
  <2>1. \A h \in File : Known(h)' <=> Known(h)
    BY <1>1, <1>10 DEF Known, Tracked
  <2>2. \A h \in File : (Tracked(h)' /\ described'[h] # 0) => Full(h)'
    BY <1>1, <1>10, <1>20, <1>23 DEF DataLast
  <2> QED  BY <1>1, <2>1, <2>2 DEF DataLast
<1>26. IngestedOnce' /\ DescribedIsComplete'
  BY <1>1 DEF IngestedOnce, DescribedIsComplete, Complete
<1> QED  BY <1>16, <1>17, <1>18, <1>19, <1>24, <1>25, <1>26

(* What the tracker has counted completely is complete in the database.    *)
LEMMA FullIsComplete ==
    ASSUME IInv, NEW f \in File, Tracked(f), Full(f)
    PROVE  Complete(f)
<1> USE DEF IInv
<1>1. source_data_map[f].parts_total \in {1, Parts[f]}
      /\ Cardinality(DoneUnits(f)) = source_data_map[f].parts_total
  BY DEF Counted, Full
<1>2. DoneUnits(f) = Units(f)
  BY <1>1, DoneForm
<1>3. \A p \in AllParts(f) : \E U \in DoneUnits(f) : p \in U
  BY <1>1, <1>2, UnitsForm
<1> QED  BY <1>3 DEF DoneUnits, Complete

(* The source data is written.                                             *)
LEMMA WriteSourceDataIInv ==
    ASSUME IInv, NEW w \in Worker, WriteSourceData(w)
    PROVE  IInv'
<1> USE DEF IInv
<1>1. /\ At(w, "source_data") /\ Working(w) /\ Job(w).pc = "source_data"
      /\ Goto(w, "recursive")
      /\ UNCHANGED <<job_queue, is_done_adding, adder, source_data_map,
                     preexisting, ingested, failed, runs>>
  BY DEF WriteSourceData, At, Working, queueVars, trackerVars
<1>2. PICK j \in Jobs : j = Job(w)
  BY <1>1, JobForm
<1>3. PICK f \in File : f = j.file
  BY DEF Jobs
<1>4. /\ Tracked(f) /\ Full(f) /\ described[f] = 0
      /\ \A v \in Worker \ {w} : At(v, "source_data") => Job(v).file # f
  BY <1>1, <1>2, <1>3 DEF LastJob
<1>5. /\ described' \in [File -> Nat] /\ described'[f] = 1
      /\ \A h \in File : h # f => described'[h] = described[h]
      /\ sources' = sources \cup {f}
  <2>1. described' = [described EXCEPT ![f] = described[f] + 1]
        /\ sources' = sources \cup {f}
    BY <1>2, <1>3 DEF WriteSourceData
  <2>2. described \in [File -> Nat]
    BY DEF TypeOK
  <2> QED  BY <1>3, <1>4, <2>1, <2>2
<1>6. PICK r, i :
         /\ i \in Jobs /\ worker' = [worker EXCEPT ![w] = r]
         /\ IsWorker(r) /\ Stacked(r) /\ r.pc = "work"
         /\ i = Head(r.stack) /\ i.pc = "recursive"
  BY <1>1, RelabelForm
<1>7. ~Busy(i)
  BY <1>6 DEF Busy
<1>8. \A x \in Jobs : JobOK(x) => JobOK(x)'
  BY <1>1 DEF JobOK, Tracked, Units
<1>9. TopChanges(w, r)
  BY <1>1, <1>6, <1>7, <1>8 DEF TopChanges
<1>10. /\ Stacks' /\ Apart'
       /\ \A h, V : Elsewhere(h, V) => Elsewhere(h, V)'
       /\ worker' \in [Worker -> [pc : {"is_done", "pop", "work", "exit"},
                                  stack : Seq(Jobs)]]
       /\ \A v \in Worker : worker'[v].pc = "exit" <=>
                            worker[v].pc = "exit"
       /\ \A v \in Worker \ {w} : Job(v)' = Job(v)
                                  /\ \A l : At(v, l)' <=> At(v, l)
       /\ \A l : At(w, l)' <=> l = "recursive"
  BY <1>6, <1>7, <1>9, TopChangesKeep
<1>11. TypeOK' /\ AdderPlace' /\ Drained'
  <2>1. TypeOK'
    BY <1>1, <1>3, <1>5, <1>10 DEF TypeOK
  <2>2. AdderPlace' /\ Drained'
    BY <1>1, <1>10 DEF AdderPlace, Drained, Pushing, ThisFile
  <2> QED  BY <2>1, <2>2
<1>12. AdderOK'
  BY <1>1, <1>10 DEF AdderOK, Pushing, Unsent, ThisFile, Tracked
<1>13. Counted'
  <2>1. ~At(w, "track")
    BY <1>1 DEF At
  <2>2. \A h, V : Tracking(h, V)' <=> Tracking(h, V)
    BY <1>10, <2>1 DEF Tracking
  <2>3. \A h \in File : DoneUnits(h)' = DoneUnits(h)
    BY <1>1, <2>2 DEF DoneUnits, Units
  <2> QED  BY <1>1, <2>3 DEF Counted, Tracked
<1>14. LastJob'
  <2>1. \A v \in Worker : At(v, "source_data")' =>
           v # w /\ At(v, "source_data") /\ Job(v)' = Job(v)
    BY <1>10
  <2>2. \A v \in Worker : At(v, "source_data") => Job(v).file \in File
    BY JobForm DEF At, Working, Jobs
  <2>3. \A v \in Worker : At(v, "source_data")' =>
           described'[Job(v).file] = described[Job(v).file]
    BY <1>4, <1>5, <2>1, <2>2
  <2> QED  BY <1>1, <2>1, <2>3 DEF LastJob, Tracked, Full
<1>15. DataLast'
  <2>1. \A h \in File : Known(h)' <=> Known(h)
    BY <1>1 DEF Known
  <2>2. Known(f)
    BY <1>4 DEF Known, Tracked
  <2>3. f \in sources' /\ sources \subseteq sources'
    BY <1>5
  <2> QED  BY <1>1, <1>4, <1>5, <2>1, <2>2, <2>3
              DEF DataLast, Tracked, Full
<1>16. IngestedOnce' /\ DescribedIsComplete'
  <2>1. Complete(f)
    BY <1>3, <1>4, FullIsComplete
  <2> QED  BY <1>1, <1>5, <2>1
              DEF IngestedOnce, DescribedIsComplete, Complete
<1> QED  BY <1>10, <1>11, <1>12, <1>13, <1>14, <1>15, <1>16

(* Compressed data that was found becomes a job of its own, for all of it. *)
LEMMA RecurseIInv ==
    ASSUME IInv, NEW w \in Worker, Recurse(w)
    PROVE  IInv'
<1> USE DEF IInv
<1>1. /\ At(w, "recurse") /\ Working(w) /\ Job(w).pc = "recurse"
      /\ UNCHANGED <<job_queue, is_done_adding, adder, preexisting, sources,
                     ingested, described, runs>>
  BY DEF Recurse, At, Working, queueVars, dbVars
<1>2. PICK j \in Jobs : j = Job(w)
  BY <1>1, JobForm
<1>3. PICK f \in File, e \in Seq(Compressed), n \in Nat :
         /\ j.embedded # <<>> /\ f = Head(j.embedded) /\ e = Tail(j.embedded)
         /\ n = j.recursion_depth + 1
  <2>1. j.embedded \in Seq(Compressed) /\ j.embedded # <<>>
        /\ j.recursion_depth \in Nat
    BY <1>1, <1>2 DEF Jobs, Stacks
  <2>2. ASSUME NEW s \in Seq(Compressed), s # <<>>
        PROVE  Head(s) \in File /\ Tail(s) \in Seq(Compressed)
    <3>1. Head(s) \in Compressed /\ Tail(s) \in Seq(Compressed)
      BY <2>2
    <3> QED  BY <3>1 DEF Compressed
  <2>3. PICK f \in File, e \in Seq(Compressed) :
           f = Head(j.embedded) /\ e = Tail(j.embedded)
    BY <2>1, <2>2
  <2>4. PICK n \in Nat : n = j.recursion_depth + 1
    BY <2>1
  <2> QED  BY <2>1, <2>3, <2>4
<1>4. PICK d \in BOOLEAN : d = Known(f)
  BY DEF Known, TypeOK, Untracked, Tracks
<1>5. PICK i \in Jobs :
         /\ i = new_ingest_job(f, AllParts(f), d, n)
         /\ i.pc = "hashes" /\ i.file = f /\ i.parts = AllParts(f)
         /\ i.disable_ingest_hashes = d
  BY PartsForm, NewJobForm
<1>22. PICK b : b = [j EXCEPT !.pc = "recursive", !.embedded = e]
  OBVIOUS
<1>6. b \in Jobs /\ b.pc = "recursive"
  BY <1>3, <1>22 DEF Jobs
<1>7. add_source(f, 1) /\ Becomes(w, <<i, b>>)
  BY <1>2, <1>3, <1>4, <1>5, <1>22 DEF Recurse
<1>8. PICK t \in Seq(Jobs) :
         /\ t = <<i, b>> \o Tail(worker[w].stack) /\ t # <<>> /\ Head(t) = i
         /\ \A k \in 2 .. Len(t) : t[k].pc = "recursive"
  <2>1. /\ worker[w].stack \in Seq(Jobs) /\ worker[w].stack # <<>>
        /\ \A k \in 2 .. Len(worker[w].stack) :
              worker[w].stack[k].pc = "recursive"
    BY <1>1, JobForm DEF Stacks
  <2>2. PICK s \in Seq(Jobs) : s = worker[w].stack
    BY <2>1
  <2>3. LET t == <<i, b>> \o Tail(s)
        IN  /\ t \in Seq(Jobs) /\ t # <<>> /\ Head(t) = i
            /\ \A k \in 2 .. Len(t) : t[k].pc = "recursive"
    BY <1>5, <1>6, <2>1, <2>2, StackForms
  <2> QED  BY <2>2, <2>3
<1> DEFINE r == [pc |-> "work", stack |-> t]
<1>9. /\ worker' = [worker EXCEPT ![w] = r] /\ IsWorker(r) /\ Stacked(r)
      /\ r.pc = "work" /\ Head(r.stack) = i
  <2>1. worker' = [worker EXCEPT ![w] = r] /\ IsWorker(r)
    BY <1>1, <1>7, <1>8, BecomesForm
  <2>2. Stacked(r)
    BY <1>5, <1>8 DEF Stacked
  <2> QED  BY <1>8, <2>1, <2>2
<1> HIDE DEF r
<1>10. /\ worker'[w] = r
       /\ \A v \in Worker \ {w} : Job(v)' = Job(v)
                                  /\ \A l : At(v, l)' <=> At(v, l)
       /\ \A l : At(w, l)' <=> l = "hashes"
  <2>1. /\ worker'[w] = r
        /\ \A v \in Worker \ {w} : Job(v)' = Job(v)
                                   /\ \A l : At(v, l)' <=> At(v, l)
    BY <1>9, WorkerSet
  <2>2. \A l : At(w, l)' <=> l = "hashes"
    BY <1>5, <1>9, <2>1 DEF At, Job
  <2> QED  BY <2>1, <2>2
<1>11. \A g, U : Tracking(g, U)' <=> Tracking(g, U)
  <2>1. ~At(w, "track") /\ ~At(w, "track")'
    BY <1>1, <1>10 DEF At
  <2> QED  BY <1>10, <2>1 DEF Tracking
<1>12. /\ source_data_map' \in [File -> {Untracked} \cup Tracks]
       /\ \A g \in File : Tracked(g) =>
             source_data_map'[g] = source_data_map[g]
       /\ ~d => /\ ~Tracked(f) /\ Tracked(f)'
                /\ source_data_map'[f].parts_total = 1
                /\ \A p \in AllParts(f) : ingested[f][p] = 0
       /\ \A x : (x.file \in File /\ JobOK(x)) => JobOK(x)'
       /\ Counted' /\ DataLast'
  BY <1>1, <1>4, <1>7, <1>11, AddSourceKeeps
<1>13. ~Busy(Job(w)) /\ (Busy(i) <=> ~d)
  BY <1>1, <1>5 DEF Busy
<1>14. Busy(i) => JobOK(i)'
  <2>1. Parts[f] = 1 => {{p} : p \in AllParts(f)} = {AllParts(f)}
    BY DEF AllParts
  <2>2. ~d => AllParts(f) \in Units(f)'
    BY <1>12, <2>1 DEF Units
  <2> QED  BY <1>1, <1>5, <1>12, <1>13, <2>2 DEF JobOK, Busy
<1>15. Busy(i) => \A U : Elsewhere(f, U)
  BY <1>12, <1>13, UntrackedElsewhere
<1>16. TopChanges(w, r)
  <2>1. \A x \in Jobs : JobOK(x) => JobOK(x)'
    BY <1>12 DEF Jobs
  <2> QED  BY <1>1, <1>5, <1>9, <1>13, <1>14, <1>15, <2>1 DEF TopChanges
<1>17. /\ Stacks' /\ Apart'
       /\ \A g, U : (Elsewhere(g, U) /\ (Busy(i) => g # f)) =>
             Elsewhere(g, U)'
       /\ worker' \in [Worker -> [pc : {"is_done", "pop", "work", "exit"},
                                  stack : Seq(Jobs)]]
       /\ \A v \in Worker : worker'[v].pc = "exit" <=>
                            worker[v].pc = "exit"
  BY <1>5, <1>9, <1>16, TopChangesKeep
<1>18. TypeOK' /\ AdderPlace' /\ Drained'
  <2>1. TypeOK'
    BY <1>1, <1>12, <1>17 DEF TypeOK
  <2>2. AdderPlace' /\ Drained'
    BY <1>1, <1>17 DEF AdderPlace, Drained, Pushing, ThisFile
  <2> QED  BY <2>1, <2>2
<1>19. AdderOK'
  <2> SUFFICES ASSUME Pushing, ~adder.disable
               PROVE  /\ Tracked(ThisFile)'
                      /\ source_data_map'[ThisFile].parts_total
                            = Parts[ThisFile]
                      /\ \A p \in Unsent : ingested'[ThisFile][p] = 0
                                           /\ Elsewhere(ThisFile, {p})'
    BY <1>1 DEF AdderOK, Pushing, Unsent, ThisFile, Elsewhere
  <2>1. PICK g \in File : g = ThisFile
    <3>1. adder.k \in 1 .. Len(filenames)
      BY DEF TypeOK, Idlers, Pushers, Pushing
    <3> QED  BY <3>1, IngestAssumption DEF ThisFile
  <2>2. /\ Tracked(g) /\ source_data_map[g].parts_total = Parts[g]
        /\ \A p \in Unsent : ingested[g][p] = 0 /\ Elsewhere(g, {p})
    BY <2>1 DEF AdderOK
  <2>3. Tracked(g)' /\ source_data_map'[g].parts_total = Parts[g]
    BY <1>12, <2>2 DEF Tracked
  <2>4. Busy(i) => g # f
    BY <1>12, <1>13, <2>2
  <2>5. \A p \in Unsent : ingested'[g][p] = 0 /\ Elsewhere(g, {p})'
    BY <1>1, <1>17, <2>2, <2>4
  <2>6. ThisFile' = g
    BY <1>1, <2>1 DEF ThisFile
  <2> QED  BY <1>1, <2>1, <2>3, <2>5, <2>6 DEF Tracked, Elsewhere
<1>20. LastJob'
  <2>1. \A v \in Worker : At(v, "source_data")' =>
           v # w /\ At(v, "source_data") /\ Job(v)' = Job(v)
    BY <1>10
  <2>2. \A v \in Worker : At(v, "source_data") =>
           Job(v).file \in File /\ Tracked(Job(v).file)
    BY JobForm DEF At, Working, Jobs, LastJob
  <2> QED  BY <1>1, <1>12, <2>1, <2>2 DEF LastJob, Tracked, Full
<1>21. IngestedOnce' /\ DescribedIsComplete'
  BY <1>1 DEF IngestedOnce, DescribedIsComplete, Complete
<1> QED  BY <1>12, <1>17, <1>18, <1>19, <1>20, <1>21

-----------------------------------------------------------------------------
(* Every step of every thread, a new command and a crash.                  *)
LEMMA NextIInv ==
    ASSUME IInv, [Next \/ Crash]_vars
    PROVE  IInv'
<1>1. CASE Adder
  <2>1. CASE AdderQueue
    BY <1>1, <2>1, QueueAdderIInv, PushIInv DEF AdderQueue, QueueAdder
  <2> QED
    BY <1>1, <2>1, BetweenFilesIInv, AddSourceIInv, ReadPartIInv DEF Adder
<1>2. ASSUME NEW w \in Worker, WorkerStep(w) PROVE IInv'
  <2>1. CASE WorkerQueue(w)
    <3>1. CASE is_done(w)
      BY <2>1, <3>1, CalmStepsIInv DEF WorkerQueue
    <3>2. CASE pop(w)
      BY <2>1, <3>2, CalmStepsIInv, PopIInv DEF WorkerQueue
    <3> QED  BY <2>1, <3>1, <3>2 DEF WorkerQueue, QueueWorker
  <2>2. CASE IngestHashes(w)
    BY <2>2, CalmStepsIInv, IngestHashesIInv
  <2>3. CASE RecurseName(w) \/ BlankRecursed(w) \/ EndJob(w)
    BY <2>3, CalmStepsIInv
  <2> QED  BY <1>2, <2>1, <2>2, <2>3, track_sourceIInv, WriteSourceDataIInv,
              RecurseIInv DEF WorkerStep
<1>3. CASE UNCHANGED vars
  <2>1. /\ UNCHANGED <<job_queue, is_done_adding, adder, worker>>
        /\ UNCHANGED <<source_data_map, preexisting, sources, ingested>>
        /\ UNCHANGED <<described, runs>>
    BY <1>3 DEF vars, queueVars, trackerVars, dbVars
  <2>2. (TypeOK /\ AdderPlace /\ Stacks /\ Drained)'
    BY <2>1 DEF IInv, TypeOK, AdderPlace, Stacks, Drained, Pushing, ThisFile,
                Working, At, Job
  <2>3. Apart'
    <3>1. \A w \in Worker : Job(w)' = Job(w) /\ (Working(w)' <=> Working(w))
      BY <2>1 DEF Job, Working
    <3>2. \A i \in 1 .. Len(job_queue) : JobOK(job_queue[i])'
      BY <2>1 DEF IInv, Apart, JobOK, Tracked, Units
    <3>3. \A w \in Worker : Working(w) => JobOK(Job(w))'
      <4> SUFFICES ASSUME NEW w \in Worker, Working(w) PROVE JobOK(Job(w))'
        OBVIOUS
      <4>1. PICK x : x = Job(w)
        OBVIOUS
      <4>2. JobOK(x)
        BY <4>1 DEF IInv, Apart
      <4> QED  BY <2>1, <3>1, <4>1, <4>2 DEF JobOK, Tracked, Units
    <3> QED  BY <2>1, <3>1, <3>2, <3>3 DEF IInv, Apart, Clash, Busy
  <2>4. AdderOK'
    BY <2>1 DEF IInv, AdderOK, Tracked, Working, Job, Pushing, Unsent,
                ThisFile, Elsewhere
  <2>5. (Counted /\ LastJob /\ DataLast)'
    BY <2>1 DEF IInv, Counted, LastJob, DataLast, Tracked, DoneUnits, Units,
                Tracking, At, Job, Full, Known
  <2>6. (IngestedOnce /\ DescribedIsComplete)'
    BY <2>1 DEF IInv, IngestedOnce, DescribedIsComplete, Complete
  <2> QED  BY <2>2, <2>3, <2>4, <2>5, <2>6 DEF IInv
<1> QED  BY <1>1, <1>2, <1>3, NewCommandIInv DEF Next, Step, IngestAgain, Crash

(* The invariant holds for any number of workers, files and crashes.       *)
THEOREM Invariance == CrashSpec => []IInv
BY InitIInv, NextIInv, PTL DEF CrashSpec

(* The assertions of track_source hold (ingest_tracker.hpp), and the queue *)
(* is empty when it is deleted (job_queue.hpp:92).                         *)
THEOREM AssertionsHold == CrashSpec => []AssertsHold
<1>1. IInv => AssertsHold
  <2> SUFFICES ASSUME IInv PROVE AssertsHold
    OBVIOUS
  <2>1. \A w \in Worker : At(w, "track") => TrackAsserts(Job(w).file)
    BY TrackForm DEF TrackAsserts, Tracked, Full
  <2>2. QueueDrained
    BY JobQueueAssumption DEF IInv, Drained, QueueDrained
  <2> QED  BY <2>1, <2>2 DEF AssertsHold
<1> QED  BY <1>1, Invariance, PTL

(* No block of a source is counted twice (ingest.cpp:192, "do not          *)
(* re-ingest hashes from duplicate sources").                              *)
THEOREM BlocksCountedOnce == CrashSpec => []IngestedOnce
<1>1. IInv => IngestedOnce
  BY DEF IInv
<1> QED  BY <1>1, Invariance, PTL

(* The source data of a source is written once, after the blocks of all    *)
(* its parts (the final update of track_source).                           *)
THEOREM DescribedLast == CrashSpec => []DescribedIsComplete
<1>1. IInv => DescribedIsComplete
  BY DEF IInv
<1> QED  BY <1>1, Invariance, PTL

-----------------------------------------------------------------------------
(***************************************************************************)
(* Nothing is left out: what is not in the database yet is on its way      *)
(* there, or the command has failed to read it.                            *)
(***************************************************************************)
Started(k) == k < adder.k \/ (k = adder.k /\ Pushing)
StartedFiles == {filenames[k] : k \in {i \in 1 .. Len(filenames) : Started(i)}}

(* The jobs there are: in the queue, in a worker's stack, with the adder.  *)
Queued(j) == \E i \in 1 .. Len(job_queue) : job_queue[i] = j
OnStack(w, j) == \E i \in 1 .. Len(worker[w].stack) : worker[w].stack[i] = j
Held(j) == adder.pc \in {"size", "push"} /\ adder.job = j
InPlay(j) == Queued(j) \/ Held(j) \/ \E w \in Worker : OnStack(w, j)

(* Some job is still to look at the compressed content g.                  *)
Holds(j, g) == /\ j.recursion_depth < MaxDepth
               /\ \E k \in 1 .. Len(j.embedded) : j.embedded[k] = g
Promised(g) == \E j : InPlay(j) /\ Holds(j, g)

(* Some job is still to count the unit U of f, or the adder will push one. *)
ToBeSent(f, U) == /\ Pushing /\ ~adder.disable /\ ThisFile = f
                  /\ \E p \in Unsent : U = {p}
Ingested(f, U) == \A p \in U : ingested[f][p] = 1

AllStarted == adder.pc \in {"no_more", "joining", "joined"} =>
                 adder.k > Len(filenames)

StartedIsKnown ==
    \A f \in StartedFiles \ failed :
        Known(f) /\ \A g \in FoundIn(f) : Known(g) \/ Promised(g)

NothingLeftOut ==
    \A f \in File \ failed : Tracked(f) =>
        \A U \in Units(f) :
            Ingested(f, U) \/ ToBeSent(f, U) \/ ~Elsewhere(f, U)

FullIsDescribed ==
    \A f \in File : (Tracked(f) /\ Full(f)) =>
        \/ described[f] # 0
        \/ \E w \in Worker : At(w, "source_data") /\ Job(w).file = f

Progress == AllStarted /\ StartedIsKnown /\ NothingLeftOut /\ FullIsDescribed

(* A job keeps its units and its promises while the adder moves on.        *)
LEMMA AdderMovesProgress ==
    ASSUME IInv, Progress, AdderMoves, AllStarted',
           failed \subseteq failed',
           StartedFiles' \ failed' \subseteq StartedFiles \ failed,
           \A j : Held(j) => Held(j)',
           \A f \in File \ failed' : \A U : ToBeSent(f, U) => ToBeSent(f, U)'
    PROVE  Progress'
<1> USE DEF AdderMoves
<1>1. \A f : Known(f)' <=> Known(f)
  BY DEF Known
<1>2. \A g : Promised(g) => Promised(g)'
  <2>1. \A j : InPlay(j) => InPlay(j)'
    BY DEF InPlay, Queued, OnStack
  <2> QED  BY <2>1 DEF Promised
<1>3. StartedIsKnown'
  BY <1>1, <1>2 DEF StartedIsKnown, Progress
<1>4. NothingLeftOut'
  <2> SUFFICES ASSUME NEW f \in File \ failed', Tracked(f)', NEW U \in Units(f)'
               PROVE  \/ Ingested(f, U)' \/ ToBeSent(f, U)'
                      \/ ~Elsewhere(f, U)'
    BY DEF NothingLeftOut
  <2>1. Tracked(f) /\ U \in Units(f) /\ f \in File \ failed
    BY DEF Tracked, Units
  <2>2. Ingested(f, U) \/ ToBeSent(f, U) \/ ~Elsewhere(f, U)
    BY <2>1 DEF NothingLeftOut, Progress
  <2>3. Ingested(f, U) => Ingested(f, U)'
    BY DEF Ingested
  <2>4. ~Elsewhere(f, U) => ~Elsewhere(f, U)'
    BY DEF Elsewhere, Working, Job
  <2> QED  BY <2>2, <2>3, <2>4
<1>5. FullIsDescribed'
  BY DEF FullIsDescribed, Progress, Tracked, Full, At, Job
<1> QED  BY <1>3, <1>4, <1>5 DEF Progress

(* The adder between files, and for the queue.                             *)
LEMMA BetweenFilesProgress ==
    ASSUME IInv, Progress,
           \/ HashFile \/ BlankFile \/ SkipFile \/ ReadPartFails \/ EndFile
           \/ EndFiles \/ ReadPart
           \/ /\ push_size \/ done_adding \/ join
              /\ UNCHANGED <<trackerVars, dbVars, overtaken, failed, runs>>
    PROVE  Progress'
<1> USE DEF IInv
<1>1. adder.k \in Nat \ {0} /\ Len(filenames) \in Nat
  <2>1. Len(filenames) \in Nat
    BY IngestAssumption
  <2> QED  BY <2>1 DEF TypeOK, Idlers, Pushers
<1>2. CASE HashFile \/ BlankFile \/ EndFiles
  <2>1. /\ AdderMoves /\ failed' = failed /\ adder.pc \in {"file", "blank"}
        /\ adder'.pc \in {"blank", "add_source", "no_more"}
        /\ adder'.k = adder.k
        /\ adder'.pc = "no_more" => adder.k > Len(filenames)
    <3>1. CASE HashFile
      <4>1. adder.k \in 1 .. Len(filenames)
        BY <1>1, <3>1 DEF HashFile
      <4>2. ThisFile \in File
        BY <4>1, IngestAssumption DEF ThisFile
      <4> QED  BY <3>1, <4>2
                  DEF HashFile, AdderMoves, TypeOK, queueVars, trackerVars
    <3>2. CASE EndFiles
      BY <3>2 DEF EndFiles, AdderMoves, TypeOK, queueVars, trackerVars, dbVars
    <3>3. CASE BlankFile
      BY <3>3 DEF BlankFile, AdderMoves, TypeOK, queueVars, trackerVars
    <3> QED  BY <1>2, <3>1, <3>2, <3>3
  <2>2. StartedFiles' = StartedFiles
    BY <2>1 DEF StartedFiles, Started, Pushing
  <2>3. \A j : ~Held(j)
    BY <2>1 DEF Held
  <2>4. \A f, U : ~ToBeSent(f, U)
    BY <2>1 DEF ToBeSent, Pushing
  <2>5. AllStarted'
    BY <2>1 DEF AllStarted
  <2> QED  BY <2>1, <2>2, <2>3, <2>4, <2>5, AdderMovesProgress
<1>3. CASE SkipFile
  <2>1. /\ AdderMoves /\ failed' = failed \cup {ThisFile} /\ adder.pc = "file"
        /\ adder'.pc = "file" /\ adder'.k = adder.k + 1
    BY <1>3 DEF SkipFile, AdderMoves, TypeOK, queueVars, trackerVars, dbVars
  <2>2. StartedFiles' \subseteq StartedFiles \cup {ThisFile}
    BY <1>1, <2>1 DEF StartedFiles, Started, Pushing, ThisFile
  <2>3. \A j : ~Held(j)
    BY <2>1 DEF Held
  <2>4. \A f, U : ~ToBeSent(f, U)
    BY <2>1 DEF ToBeSent, Pushing
  <2>5. AllStarted'
    BY <2>1 DEF AllStarted
  <2> QED  BY <2>1, <2>2, <2>3, <2>4, <2>5, AdderMovesProgress
<1>4. CASE ReadPartFails \/ EndFile
  <2>1. /\ AdderMoves /\ failed \subseteq failed' /\ adder.pc = "pushed"
        /\ adder'.pc = "file" /\ adder'.k = adder.k + 1
        /\ ReadPartFails => ThisFile \in failed'
        /\ EndFile => adder.part = Parts[ThisFile]
    BY <1>4 DEF ReadPartFails, EndFile, AdderMoves, TypeOK, queueVars,
                trackerVars, dbVars
  <2>2. StartedFiles' \subseteq StartedFiles
    BY <1>1, <2>1 DEF StartedFiles, Started, Pushing
  <2>3. \A j : ~Held(j)
    BY <2>1 DEF Held
  <2>4. \A f \in File \ failed' : \A U : ~ToBeSent(f, U)
    <3>1. CASE ReadPartFails
      BY <2>1, <3>1 DEF ToBeSent
    <3>2. CASE EndFile
      <4>1. adder.k \in 1 .. Len(filenames)
        BY <2>1 DEF TypeOK, Idlers, Pushers
      <4>2. ThisFile \in File
        BY <4>1, IngestAssumption DEF ThisFile
      <4>3. Unsent = {}
        BY <2>1, <3>2, <4>2, PartsForm DEF Unsent, AllParts
      <4> QED  BY <4>3 DEF ToBeSent
    <3> QED  BY <1>4, <3>1, <3>2
  <2>5. AllStarted'
    BY <2>1 DEF AllStarted
  <2> QED  BY <2>1, <2>2, <2>3, <2>4, <2>5, AdderMovesProgress
<1>5. CASE ReadPart
  <2> DEFINE p == adder.part + 1
  <2>1. /\ AdderMoves /\ failed' = failed /\ adder.pc = "pushed"
        /\ adder \in Pushers /\ p <= Parts[ThisFile]
        /\ adder'.pc = "size" /\ adder'.k = adder.k /\ adder'.part = p
        /\ adder'.disable = adder.disable
    BY <1>5 DEF ReadPart, AdderMoves, TypeOK, Idlers, Pushers, queueVars,
                trackerVars, dbVars
  <2>2. StartedFiles' = StartedFiles
    BY <2>1 DEF StartedFiles, Started, Pushing
  <2>3. \A j : ~Held(j)
    BY <2>1 DEF Held
  <2>4. ThisFile \in File /\ adder.part \in Nat
    <3>1. adder.k \in 1 .. Len(filenames) /\ adder.part \in Nat
      BY <2>1 DEF Pushers
    <3> QED  BY <3>1, IngestAssumption DEF ThisFile
  <2>5. ThisFile' = ThisFile
    BY <2>1 DEF ThisFile
  <2>6. Unsent' = Unsent
    BY <2>1, <2>4, <2>5, PartsForm DEF Unsent, AllParts
  <2>7. \A f, U : ToBeSent(f, U) => ToBeSent(f, U)'
    BY <2>1, <2>5, <2>6 DEF ToBeSent, Pushing
  <2>8. AllStarted'
    BY <2>1 DEF AllStarted
  <2> QED  BY <2>1, <2>2, <2>3, <2>7, <2>8, AdderMovesProgress
<1>6. CASE push_size
           /\ UNCHANGED <<trackerVars, dbVars, overtaken, failed, runs>>
  <2>1. /\ AdderMoves /\ failed' = failed /\ adder.pc = "size"
        /\ adder'.pc = "push" /\ adder'.k = adder.k
        /\ adder'.part = adder.part /\ adder'.disable = adder.disable
        /\ adder'.job = adder.job
    BY <1>6 DEF push_size, AdderMoves, TypeOK, Idlers, Pushers, trackerVars,
                dbVars
  <2>2. StartedFiles' = StartedFiles /\ Unsent' = Unsent
        /\ ThisFile' = ThisFile
    BY <2>1 DEF StartedFiles, Started, Pushing, Unsent, ThisFile
  <2>3. \A j : Held(j) => Held(j)'
    BY <2>1 DEF Held
  <2>4. \A f, U : ToBeSent(f, U) => ToBeSent(f, U)'
    BY <2>1, <2>2 DEF ToBeSent, Pushing
  <2>5. AllStarted'
    BY <2>1 DEF AllStarted
  <2> QED  BY <2>1, <2>2, <2>3, <2>4, <2>5, AdderMovesProgress
<1>7. CASE (done_adding \/ join)
           /\ UNCHANGED <<trackerVars, dbVars, overtaken, failed, runs>>
  <2>1. /\ AdderMoves /\ failed' = failed
        /\ adder.pc \in {"no_more", "joining"}
        /\ adder'.pc \in {"joining", "joined"} /\ adder'.k = adder.k
    BY <1>7 DEF done_adding, join, AdderMoves, TypeOK, Idlers, Pushers,
                trackerVars, dbVars
  <2>2. StartedFiles' = StartedFiles
    BY <2>1 DEF StartedFiles, Started, Pushing
  <2>3. \A j : ~Held(j)
    BY <2>1 DEF Held
  <2>4. \A f, U : ~ToBeSent(f, U)
    BY <2>1 DEF ToBeSent, Pushing
  <2>5. AllStarted'
    BY <2>1 DEF AllStarted, Progress
  <2> QED  BY <2>1, <2>2, <2>3, <2>4, <2>5, AdderMovesProgress
<1> QED  BY <1>2, <1>3, <1>4, <1>5, <1>6, <1>7

(* The sources that the tracker has after add_source.                      *)
LEMMA AddSourceForm ==
    ASSUME IInv, NEW f \in File, NEW n, add_source(f, n),
           preexisting' = preexisting
    PROVE  /\ \A g \in File : Known(g) => Known(g)'
           /\ Known(f)'
           /\ \A g \in File : Tracked(g)' =>
                 \/ Tracked(g) /\ source_data_map'[g] = source_data_map[g]
                 \/ /\ g = f /\ ~Known(f)
                    /\ source_data_map'[g].parts_total = n
                    /\ source_data_map'[g].parts_done = 0
<1> DEFINE new == [tracked |-> TRUE, parts_total |-> n, parts_done |-> 0]
<1>1. source_data_map' = IF Known(f) THEN source_data_map
                         ELSE [source_data_map EXCEPT ![f] = new]
  BY DEF add_source
<1>2. CASE Known(f)
  BY <1>1, <1>2 DEF Known, Tracked
<1>3. CASE ~Known(f)
  <2>1. /\ source_data_map'[f] = new
        /\ \A g \in File : g # f => source_data_map'[g] = source_data_map[g]
    BY <1>1, <1>3 DEF IInv, TypeOK
  <2>2. new.tracked /\ new.parts_total = n /\ new.parts_done = 0
    OBVIOUS
  <2>3. Known(f)' /\ \A g \in File : Known(g) => Known(g)'
    BY <2>1, <2>2 DEF Known
  <2> HIDE DEF new
  <2> QED  BY <1>3, <2>1, <2>2, <2>3 DEF Tracked
<1> QED  BY <1>2, <1>3

(* The jobs of a file that the adder has begun will count its parts and    *)
(* look at what is compressed in it.                                       *)
LEMMA AddSourceProgress ==
    ASSUME IInv, Progress, AddSource
    PROVE  Progress'
<1> USE DEF IInv
<1>1. adder.pc = "add_source" /\ adder.k \in 1 .. Len(filenames)
  <2>1. adder.pc = "add_source" /\ adder \in Idlers
    BY DEF AddSource, TypeOK, Pushers
  <2>2. adder.k \in Nat \ {0}
    BY <2>1 DEF Idlers
  <2>3. adder.k <= Len(filenames) /\ Len(filenames) \in Nat
    BY <2>1, IngestAssumption DEF AdderPlace
  <2> QED  BY <2>1, <2>2, <2>3
<1>2. PICK f \in File : f = ThisFile
  BY <1>1, IngestAssumption DEF ThisFile
<1>3. /\ add_source(f, Parts[f])
      /\ adder'.pc = "size" /\ adder'.k = adder.k /\ adder'.part = 1
      /\ (adder'.disable <=> Known(f))
      /\ adder'.job = new_ingest_job(f, {1}, Known(f), 0)
      /\ UNCHANGED <<job_queue, worker, preexisting, ingested, described,
                     failed>>
  BY <1>2 DEF AddSource, queueVars, dbVars
<1>4. ThisFile' = f /\ Pushing' /\ ~Pushing
  BY <1>1, <1>2, <1>3 DEF ThisFile, Pushing
<1>5. /\ \A g \in File : Known(g) => Known(g)'
      /\ Known(f)'
      /\ \A g \in File : Tracked(g)' =>
            \/ Tracked(g) /\ source_data_map'[g] = source_data_map[g]
            \/ /\ g = f /\ ~Known(f)
               /\ source_data_map'[g].parts_total = Parts[f]
               /\ source_data_map'[g].parts_done = 0
  BY <1>3, AddSourceForm
<1>6. \A g : Promised(g) => Promised(g)'
  <2>1. \A j : InPlay(j) => InPlay(j)'
    BY <1>1, <1>3 DEF InPlay, Queued, OnStack, Held
  <2> QED  BY <2>1 DEF Promised
<1>7. \A g \in FoundIn(f) : Promised(g)'
  <2> SUFFICES ASSUME NEW g \in FoundIn(f) PROVE Promised(g)'
    OBVIOUS
  <2>1. PICK j : j = adder'.job
    OBVIOUS
  <2>2. j.embedded = Embedded[f] /\ j.recursion_depth = 0
    BY <1>3, <2>1 DEF new_ingest_job
  <2>3. Holds(j, g)
    <3>1. MaxDepth \in Nat /\ MaxDepth # 0
      BY IngestAssumption DEF FoundIn
    <3>2. \E k \in 1 .. Len(Embedded[f]) : Embedded[f][k] = g
      BY DEF FoundIn
    <3> QED  BY <2>2, <3>1, <3>2 DEF Holds
  <2>4. InPlay(j)'
    BY <1>3, <2>1 DEF InPlay, Held
  <2> QED  BY <2>3, <2>4 DEF Promised
<1>8. StartedIsKnown'
  <2>1. StartedFiles' \subseteq StartedFiles \cup {f}
    BY <1>1, <1>2, <1>3, <1>4 DEF StartedFiles, Started, ThisFile
  <2>2. StartedFiles \subseteq File
    BY IngestAssumption DEF StartedFiles
  <2>3. \A h \in File : FoundIn(h) \subseteq File
    BY IngestAssumption DEF FoundIn
  <2> SUFFICES ASSUME NEW h \in StartedFiles' \ failed'
               PROVE  Known(h)' /\ \A g \in FoundIn(h) :
                                      Known(g)' \/ Promised(g)'
    BY DEF StartedIsKnown
  <2>4. CASE h = f
    BY <1>5, <1>7, <2>4
  <2>5. CASE h # f
    <3>1. h \in StartedFiles \ failed /\ h \in File
      BY <1>3, <2>1, <2>2, <2>5
    <3> QED  BY <1>5, <1>6, <2>3, <3>1 DEF StartedIsKnown, Progress
  <2> QED  BY <2>4, <2>5
<1>9. NothingLeftOut'
  <2> SUFFICES ASSUME NEW h \in File \ failed', Tracked(h)', NEW U \in Units(h)'
               PROVE  \/ Ingested(h, U)' \/ ToBeSent(h, U)'
                      \/ ~Elsewhere(h, U)'
    BY DEF NothingLeftOut
  <2>1. CASE Tracked(h) /\ source_data_map'[h] = source_data_map[h]
    <3>1. U \in Units(h) /\ h \in File \ failed
      BY <1>3, <2>1 DEF Units
    <3>2. Ingested(h, U) \/ ~Elsewhere(h, U)
      BY <1>4, <2>1, <3>1 DEF NothingLeftOut, Progress, ToBeSent
    <3> QED  BY <1>3, <3>2 DEF Ingested, Elsewhere, Working, Job
  <2>2. CASE /\ h = f /\ ~Known(f)
             /\ source_data_map'[h].parts_total = Parts[f]
    <3>1. PICK p \in AllParts(f) : U = {p}
      BY <2>2 DEF Units
    <3>2. p \in Unsent'
      BY <1>3, <1>4, <3>1, PartsForm DEF Unsent, AllParts
    <3>3. ToBeSent(h, U)'
      BY <1>3, <1>4, <2>2, <3>1, <3>2 DEF ToBeSent
    <3> QED  BY <3>3
  <2> QED  BY <1>5, <2>1, <2>2
<1>10. FullIsDescribed'
  <2> SUFFICES ASSUME NEW h \in File, Tracked(h)', Full(h)'
               PROVE  \/ described'[h] # 0
                      \/ \E w \in Worker : At(w, "source_data")'
                                           /\ Job(w)'.file = h
    BY DEF FullIsDescribed
  <2>1. source_data_map'[h].parts_done # 0
        \/ source_data_map'[h].parts_total # Parts[f]
    BY PartsForm DEF Full
  <2>2. Tracked(h) /\ Full(h)
    BY <1>5, <2>1 DEF Full
  <2> QED  BY <1>3, <2>2 DEF FullIsDescribed, Progress, At, Job
<1>11. AllStarted'
  BY <1>3 DEF AllStarted
<1> QED  BY <1>8, <1>9, <1>10, <1>11 DEF Progress

(* What the adder was to push is in the queue.                             *)
LEMMA PushProgress ==
    ASSUME IInv, Progress, push_job,
           UNCHANGED <<trackerVars, dbVars, overtaken, failed, runs>>
    PROVE  Progress'
<1> USE DEF IInv
<1>1. /\ adder \in Pushers /\ adder.pc = "push"
      /\ adder'.pc = "pushed" /\ adder'.k = adder.k
      /\ adder'.part = adder.part /\ adder'.disable = adder.disable
      /\ job_queue' = Append(job_queue, adder.job)
      /\ UNCHANGED <<worker, source_data_map, preexisting, ingested,
                     described, failed>>
  BY DEF push_job, TypeOK, Idlers, Pushers, trackerVars, dbVars
<1>2. PICK j \in Jobs : j = adder.job
  BY <1>1 DEF Pushers
<1>3. PICK n \in Nat : n = Len(job_queue)
  <2>1. job_queue \in Seq(Jobs)
    BY DEF TypeOK
  <2> QED  BY <2>1, LenProperties
<1>4. /\ Len(job_queue') = n + 1 /\ job_queue'[n + 1] = j
      /\ \A i \in 1 .. n : job_queue'[i] = job_queue[i] /\ i \in 1 .. n + 1
      /\ n + 1 \in 1 .. n + 1
  BY <1>1, <1>2, <1>3, AppendProperties DEF TypeOK
<1>5. StartedFiles' = StartedFiles /\ ThisFile' = ThisFile
  BY <1>1 DEF StartedFiles, Started, Pushing, ThisFile
<1>6. \A g : Promised(g) => Promised(g)'
  <2>1. Queued(j)'
    BY <1>4 DEF Queued
  <2>2. \A i : Queued(i) => Queued(i)'
    BY <1>3, <1>4 DEF Queued
  <2>3. \A i : InPlay(i) => InPlay(i)'
    BY <1>1, <1>2, <2>1, <2>2 DEF InPlay, Held, OnStack
  <2> QED  BY <2>3 DEF Promised
<1>7. StartedIsKnown'
  BY <1>1, <1>5, <1>6 DEF StartedIsKnown, Progress, Known
<1>8. NothingLeftOut'
  <2> SUFFICES ASSUME NEW f \in File \ failed, Tracked(f), NEW U \in Units(f)
               PROVE  \/ Ingested(f, U) \/ ToBeSent(f, U)'
                      \/ ~Elsewhere(f, U)'
    BY <1>1 DEF NothingLeftOut, Tracked, Units, Ingested
  <2>1. Ingested(f, U) \/ ToBeSent(f, U) \/ ~Elsewhere(f, U)
    BY DEF NothingLeftOut, Progress
  <2>2. CASE ~Elsewhere(f, U)
    BY <1>1, <1>3, <1>4, <2>2 DEF Elsewhere, Working, Job
  <2>3. CASE ToBeSent(f, U)
    <3>1. PICK p \in Unsent : U = {p}
      BY <2>3 DEF ToBeSent
    <3>2. ThisFile = f /\ ~adder.disable /\ Pushing
      BY <2>3 DEF ToBeSent
    <3>3. CASE p = adder.part
      <4>1. adder.part \in Nat \ {0} /\ adder.disable \in BOOLEAN
        BY <1>1 DEF Pushers
      <4>2. Busy(j) /\ j.file = f /\ j.parts = U
        BY <1>2, <3>1, <3>2, <3>3, <4>1, NewJobForm
           DEF AdderPlace, Busy
      <4> QED  BY <1>4, <4>2 DEF Elsewhere
    <3>4. CASE p # adder.part
      <4>1. p \in Unsent'
        BY <1>1, <1>5, <3>1, <3>4 DEF Unsent
      <4> QED  BY <1>1, <1>5, <3>1, <3>2, <4>1 DEF ToBeSent, Pushing
    <3> QED  BY <3>3, <3>4
  <2> QED  BY <2>1, <2>2, <2>3
<1>9. FullIsDescribed'
  BY <1>1 DEF FullIsDescribed, Progress, Tracked, Full, At, Job
<1>10. AllStarted'
  BY <1>1 DEF AllStarted
<1> QED  BY <1>7, <1>8, <1>9, <1>10 DEF Progress

(* A new command has begun nothing.                                        *)
LEMMA NewCommandProgress ==
    ASSUME NewCommand
    PROVE  Progress'
<1>1. /\ adder' = [pc |-> "file", k |-> 1]
      /\ source_data_map' = [f \in File |-> Untracked]
  BY DEF NewCommand
<1>2. AllStarted'
  BY <1>1 DEF AllStarted
<1>3. StartedFiles' = {}
  BY <1>1, IngestAssumption DEF StartedFiles, Started, Pushing
<1>4. \A f \in File : ~Tracked(f)'
  BY <1>1 DEF Tracked, Untracked
<1> QED  BY <1>2, <1>3, <1>4
            DEF Progress, StartedIsKnown, NothingLeftOut, FullIsDescribed

(* A worker's step leaves what the adder has begun alone.                  *)
LEMMA WorkerProgress ==
    ASSUME IInv, Progress, UNCHANGED <<adder, failed>>,
           \A g \in File : Known(g) => Known(g)',
           \A g \in File : Promised(g) => Promised(g)' \/ Known(g)',
           NothingLeftOut', FullIsDescribed'
    PROVE  Progress'
<1>1. StartedFiles' = StartedFiles /\ StartedFiles \subseteq File
  BY IngestAssumption DEF StartedFiles, Started, Pushing
<1>2. \A f \in File : FoundIn(f) \subseteq File
  BY IngestAssumption DEF FoundIn
<1>3. StartedIsKnown'
  BY <1>1, <1>2 DEF StartedIsKnown, Progress
<1>4. AllStarted'
  BY DEF AllStarted, Progress
<1> QED  BY <1>3, <1>4 DEF Progress

(* The job that still counts a unit is another worker's, or in the queue.  *)
LEMMA StillThere ==
    ASSUME TypeOK, NEW w \in Worker, NEW r,
           worker' = [worker EXCEPT ![w] = r], job_queue' = job_queue,
           NEW f, NEW U, ~Elsewhere(f, U),
           ~(Working(w) /\ Busy(Job(w)) /\ Job(w).file = f
             /\ Job(w).parts = U)
    PROVE  ~Elsewhere(f, U)'
<1>1. CASE \E i \in 1 .. Len(job_queue) :
              Busy(job_queue[i]) /\ job_queue[i].file = f
              /\ job_queue[i].parts = U
  BY <1>1 DEF Elsewhere
<1>2. CASE \E v \in Worker : /\ Working(v) /\ Busy(Job(v))
                             /\ Job(v).file = f /\ Job(v).parts = U
  <2>1. PICK v \in Worker : /\ Working(v) /\ Busy(Job(v))
                            /\ Job(v).file = f /\ Job(v).parts = U
    BY <1>2
  <2>2. worker'[v] = worker[v]
    BY <2>1 DEF TypeOK
  <2>3. Working(v)' /\ Job(v)' = Job(v)
    BY <2>1, <2>2 DEF Working, Job
  <2> QED  BY <2>1, <2>3 DEF Elsewhere
<1> QED  BY <1>1, <1>2 DEF Elsewhere

(* The jobs in play when the top of a stack is replaced.                   *)
LEMMA StackReplaced ==
    ASSUME IInv, NEW w \in Worker, Working(w),
           NEW js \in Seq(Jobs), Becomes(w, js),
           UNCHANGED <<job_queue, adder>>
    PROVE  /\ \A j : InPlay(j) => InPlay(j)' \/ j = Job(w)
           /\ \A k \in 1 .. Len(js) : InPlay(js[k])'
<1> USE DEF IInv
<1>1. PICK s \in Seq(Jobs) : s = worker[w].stack /\ s # <<>>
                             /\ Job(w) = s[1]
  BY JobForm
<1>2. PICK t : t = js \o Tail(s)
  OBVIOUS
<1>3. /\ worker'[w].stack = t
      /\ \A v \in Worker \ {w} : worker'[v] = worker[v]
  <2>1. worker' = [worker EXCEPT ![w].stack = t]
    BY <1>1, <1>2 DEF Becomes
  <2> QED  BY <2>1 DEF TypeOK
<1>4. /\ Len(t) = Len(js) + (Len(s) - 1)
      /\ Len(js) \in Nat /\ Len(s) \in Nat /\ Len(s) # 0
      /\ \A k \in 1 .. Len(js) : t[k] = js[k]
      /\ \A i \in 2 .. Len(s) : t[Len(js) + (i - 1)] = s[i]
  <2>1. /\ Tail(s) \in Seq(Jobs) /\ Len(Tail(s)) = Len(s) - 1
        /\ \A i \in 1 .. Len(Tail(s)) : Tail(s)[i] = s[i + 1]
    BY <1>1, HeadTailProperties
  <2>2. PICK q \in Seq(Jobs) : q = Tail(s)
    BY <2>1
  <2>3. Len(s) \in Nat /\ Len(q) \in Nat /\ Len(js) \in Nat /\ Len(s) # 0
        /\ Len(q) = Len(s) - 1
    BY <1>1, <2>1, <2>2, LenProperties
  <2>4. /\ Len(js \o q) = Len(js) + Len(q)
        /\ \A i \in 1 .. Len(js) + Len(q) :
              (js \o q)[i] = IF i <= Len(js) THEN js[i] ELSE q[i - Len(js)]
    BY ConcatProperties
  <2>5. \A i \in 2 .. Len(s) : /\ i - 1 \in 1 .. Len(q)
                               /\ Len(js) + (i - 1) \in 1 .. Len(js) + Len(q)
                               /\ ~(Len(js) + (i - 1) <= Len(js))
                               /\ (Len(js) + (i - 1)) - Len(js) = i - 1
                               /\ (i - 1) + 1 = i
    BY <2>3
  <2>6. \A i \in 2 .. Len(s) : t[Len(js) + (i - 1)] = s[i]
    BY <1>2, <2>1, <2>2, <2>4, <2>5
  <2>7. \A k \in 1 .. Len(js) : k \in 1 .. Len(js) + Len(q) /\ k <= Len(js)
    BY <2>3
  <2>8. \A k \in 1 .. Len(js) : t[k] = js[k]
    BY <1>2, <2>2, <2>4, <2>7
  <2> QED  BY <1>2, <2>2, <2>3, <2>4, <2>6, <2>8
<1>5. ASSUME NEW k \in 1 .. Len(js) PROVE OnStack(w, js[k])'
  <2>1. k \in 1 .. Len(t) /\ t[k] = js[k]
    BY <1>4
  <2> QED  BY <1>3, <2>1 DEF OnStack
<1>6. ASSUME NEW j, OnStack(w, j), j # Job(w) PROVE OnStack(w, j)'
  <2>1. PICK i \in 1 .. Len(s) : s[i] = j
    BY <1>1, <1>6 DEF OnStack
  <2>2. i \in 2 .. Len(s)
    BY <1>1, <1>4, <1>6, <2>1
  <2>3. Len(js) + (i - 1) \in 1 .. Len(t)
    BY <1>4, <2>2
  <2> QED  BY <1>3, <1>4, <2>1, <2>2, <2>3 DEF OnStack
<1>7. \A v \in Worker \ {w} : \A j : OnStack(v, j) => OnStack(v, j)'
  BY <1>3 DEF OnStack
<1> QED  BY <1>5, <1>6, <1>7 DEF InPlay, Queued, Held

(* A job that gets another label promises the same.                        *)
LEMMA GotoPromises ==
    ASSUME IInv, NEW w \in Worker, Working(w),
           NEW label \in {"track", "source_data", "recursive", "blank",
                          "recurse"},
           Goto(w, label), UNCHANGED <<job_queue, adder>>
    PROVE  \A g : Promised(g) => Promised(g)'
<1>1. PICK j \in Jobs : j = Job(w)
  BY JobForm DEF IInv
<1>2. PICK i : i = [j EXCEPT !.pc = label]
  OBVIOUS
<1>3. i \in Jobs /\ i.embedded = j.embedded
      /\ i.recursion_depth = j.recursion_depth
  BY <1>2 DEF Jobs
<1>4. <<i>> \in Seq(Jobs) /\ Len(<<i>>) = 1 /\ <<i>>[1] = i
      /\ 1 \in 1 .. Len(<<i>>)
  BY <1>3
<1>5. Becomes(w, <<i>>)
  BY <1>1, <1>2 DEF Goto
<1>6. InPlay(i)' /\ \A k : InPlay(k) => InPlay(k)' \/ k = j
  BY <1>1, <1>4, <1>5, StackReplaced
<1>7. \A g : Holds(j, g) => Holds(i, g)
  BY <1>3 DEF Holds
<1> QED  BY <1>6, <1>7 DEF Promised

(* A worker that counts no blocks and writes no source data.               *)
LEMMA QuietProgress ==
    ASSUME IInv, Progress, NEW w \in Worker, NEW r,
           worker' = [worker EXCEPT ![w] = r],
           ~(Working(w) /\ Busy(Job(w))), ~At(w, "source_data"),
           \A g : Promised(g) => Promised(g)',
           UNCHANGED <<job_queue, adder, failed, source_data_map, preexisting,
                       ingested, described>>
    PROVE  Progress'
<1> USE DEF IInv
<1>1. \A g : Known(g) => Known(g)'
  BY DEF Known
<1>2. NothingLeftOut'
  <2> SUFFICES ASSUME NEW f \in File \ failed, Tracked(f), NEW U \in Units(f)
               PROVE  \/ Ingested(f, U) \/ ToBeSent(f, U)
                      \/ ~Elsewhere(f, U)'
    BY DEF NothingLeftOut, Tracked, Units, Ingested, ToBeSent, Pushing,
           ThisFile, Unsent
  <2>1. Ingested(f, U) \/ ToBeSent(f, U) \/ ~Elsewhere(f, U)
    BY DEF NothingLeftOut, Progress
  <2>2. ~Elsewhere(f, U) => ~Elsewhere(f, U)'
    BY StillThere
  <2> QED  BY <2>1, <2>2
<1>3. FullIsDescribed'
  <2>1. \A v \in Worker : At(v, "source_data") =>
           At(v, "source_data")' /\ Job(v)' = Job(v)
    <3>1. \A v \in Worker \ {w} : worker'[v] = worker[v]
      BY DEF TypeOK
    <3> QED  BY <3>1 DEF At, Job
  <2> QED  BY <2>1 DEF FullIsDescribed, Progress, Tracked, Full
<1> QED  BY <1>1, <1>2, <1>3, WorkerProgress

(* Steps of a worker that store no block and track no part take nothing    *)
(* away from what is still under way.                                      *)
LEMMA QuietStepsProgress ==
    ASSUME IInv, Progress, NEW w \in Worker,
           \/ /\ is_done(w) \/ (pop(w) /\ job_queue = <<>>)
              /\ UNCHANGED <<trackerVars, dbVars, overtaken, failed, runs>>
           \/ IngestHashes(w) /\ Job(w).disable_ingest_hashes
           \/ RecurseName(w) \/ BlankRecursed(w) \/ EndJob(w)
    PROVE  Progress'
<1> USE DEF IInv
<1>1. CASE (is_done(w) \/ (pop(w) /\ job_queue = <<>>))
           /\ UNCHANGED <<trackerVars, dbVars, overtaken, failed, runs>>
  <2>1. /\ worker[w].pc \in {"is_done", "pop"}
        /\ UNCHANGED <<job_queue, adder, failed, source_data_map, preexisting,
                       ingested, described>>
    BY <1>1 DEF is_done, pop, trackerVars, dbVars
  <2>2. PICK l : worker' = [worker EXCEPT ![w].pc = l]
    BY <1>1 DEF is_done, pop
  <2>3. PICK r : r = [worker[w] EXCEPT !.pc = l]
    OBVIOUS
  <2>4. worker' = [worker EXCEPT ![w] = r]
    BY <2>2, <2>3
  <2>5. r.stack = worker[w].stack
    <3>1. worker[w] \in [pc : {"is_done", "pop", "work", "exit"},
                         stack : Seq(Jobs)]
      BY DEF TypeOK
    <3> QED  BY <2>3, <3>1
  <2>6. \A v \in Worker : worker'[v].stack = worker[v].stack
    BY <2>4, <2>5 DEF TypeOK
  <2>7. \A g : Promised(g) => Promised(g)'
    <3>1. \A j : InPlay(j) => InPlay(j)'
      BY <2>1, <2>6 DEF InPlay, Queued, OnStack, Held
    <3> QED  BY <3>1 DEF Promised
  <2>8. ~Working(w) /\ ~At(w, "source_data")
    BY <2>1 DEF Working, At
  <2> QED  BY <2>1, <2>4, <2>7, <2>8, QuietProgress
<1>2. ASSUME Working(w), NEW label \in {"recursive", "blank", "recurse"},
             Goto(w, label), ~Busy(Job(w)), Job(w).pc # "source_data",
             UNCHANGED <<job_queue, adder, failed, source_data_map,
                         preexisting, ingested, described>>
      PROVE  Progress'
  <2>1. \A g : Promised(g) => Promised(g)'
    BY <1>2, GotoPromises
  <2>2. PICK r : worker' = [worker EXCEPT ![w] = r]
    BY <1>2 DEF Goto, Becomes
  <2>3. ~At(w, "source_data")
    BY <1>2 DEF At
  <2> QED  BY <1>2, <2>1, <2>2, <2>3, QuietProgress
<1>3. CASE IngestHashes(w) /\ Job(w).disable_ingest_hashes
  BY <1>2, <1>3 DEF IngestHashes, At, Working, Busy, queueVars, trackerVars
<1>4. CASE RecurseName(w) \/ BlankRecursed(w)
  BY <1>2, <1>4 DEF RecurseName, BlankRecursed, At, Working, Busy, queueVars,
                    trackerVars
<1>5. CASE EndJob(w)
  <2>1. /\ Working(w) /\ ~Busy(Job(w)) /\ ~At(w, "source_data")
        /\ UNCHANGED <<job_queue, adder, failed, source_data_map, preexisting,
                       ingested, described>>
    BY <1>5 DEF EndJob, At, Working, Busy, queueVars, trackerVars, dbVars
  <2>2. PICK j \in Jobs : j = Job(w)
    BY <2>1, JobForm
  <2>3. \A g : ~Holds(j, g)
    <3>1. j.embedded = <<>> \/ j.recursion_depth >= MaxDepth
      BY <1>5, <2>2 DEF EndJob
    <3>2. j.recursion_depth \in Nat /\ MaxDepth \in Nat
      BY IngestAssumption DEF Jobs
    <3>3. Len(<<>>) = 0 /\ 1 .. 0 = {}
      OBVIOUS
    <3> QED  BY <3>1, <3>2, <3>3 DEF Holds
  <2>4. CASE Len(worker[w].stack) = 1
    <3>1. worker' = [worker EXCEPT ![w] = Waiting]
      BY <1>5, <2>4 DEF EndJob, Finished
    <3>2. \A i : OnStack(w, i) => i = j
      <4>1. \A k \in 1 .. Len(worker[w].stack) : k = 1
        BY <2>4
      <4>2. Job(w) = worker[w].stack[1]
        BY <2>1, JobForm
      <4> QED  BY <2>2, <4>1, <4>2 DEF OnStack
    <3>3. \A v \in Worker \ {w} : worker'[v] = worker[v]
      BY <3>1 DEF TypeOK
    <3>4. \A i : InPlay(i) => InPlay(i)' \/ i = j
      BY <2>1, <3>2, <3>3 DEF InPlay, Queued, Held, OnStack
    <3>5. \A g : Promised(g) => Promised(g)'
      BY <2>3, <3>4 DEF Promised
    <3> QED  BY <2>1, <3>1, <3>5, QuietProgress
  <2>5. CASE Len(worker[w].stack) # 1
    <3>1. Becomes(w, <<>>)
      BY <1>5, <2>5 DEF EndJob
    <3>2. PICK r : worker' = [worker EXCEPT ![w] = r]
      BY <3>1 DEF Becomes
    <3>3. \A i : InPlay(i) => InPlay(i)' \/ i = j
      <4>1. <<>> \in Seq(Jobs)
        OBVIOUS
      <4> QED  BY <2>1, <2>2, <3>1, <4>1, StackReplaced
    <3>4. \A g : Promised(g) => Promised(g)'
      BY <2>3, <3>3 DEF Promised
    <3> QED  BY <2>1, <3>2, <3>4, QuietProgress
  <2> QED  BY <2>4, <2>5
<1> QED  BY <1>1, <1>3, <1>4, <1>5

(* The job that a worker takes is counted, and looked into, by it.         *)
LEMMA PopProgress ==
    ASSUME IInv, Progress, NEW w \in Worker, pop(w), job_queue # <<>>,
           UNCHANGED <<trackerVars, dbVars, overtaken, failed, runs>>
    PROVE  Progress'
<1> USE DEF IInv
<1>1. /\ worker[w].pc = "pop"
      /\ worker' = [worker EXCEPT ![w] = [pc |-> "work",
                                          stack |-> <<Head(job_queue)>>]]
      /\ job_queue' = Tail(job_queue)
      /\ UNCHANGED <<adder, source_data_map, preexisting, ingested, described,
                     failed>>
  BY DEF pop, trackerVars, dbVars
<1>2. PICK j, n : /\ n = Len(job_queue) /\ n \in Nat
                  /\ j = job_queue[1] /\ j = Head(job_queue)
                  /\ Len(job_queue') = n - 1
                  /\ \A i \in 1 .. n - 1 : job_queue'[i] = job_queue[i + 1]
  <2>1. job_queue \in Seq(Jobs)
    BY DEF TypeOK
  <2>2. Len(job_queue) \in Nat
    BY <2>1, LenProperties
  <2>3. /\ Head(job_queue) = job_queue[1]
        /\ Len(Tail(job_queue)) = Len(job_queue) - 1
        /\ \A i \in 1 .. Len(Tail(job_queue)) :
              Tail(job_queue)[i] = job_queue[i + 1]
    BY <2>1, HeadTailProperties
  <2> QED  BY <1>1, <2>2, <2>3
<1>3. /\ worker'[w].pc = "work" /\ worker'[w].stack = <<j>>
      /\ \A v \in Worker \ {w} : worker'[v] = worker[v]
  BY <1>1, <1>2 DEF TypeOK
<1>4. Working(w)' /\ Job(w)' = j /\ ~Working(w) /\ worker[w].stack = <<>>
  BY <1>1, <1>3 DEF Working, Job, Stacks
<1>5. \A v \in Worker \ {w} : /\ Working(v)' <=> Working(v)
                              /\ Job(v)' = Job(v)
                              /\ \A l : At(v, l)' <=> At(v, l)
  BY <1>3 DEF Working, Job, At
<1>6. \A i \in 1 .. n :
         job_queue[i] = j
         \/ \E k \in 1 .. Len(job_queue') : job_queue'[k] = job_queue[i]
  <2> SUFFICES ASSUME NEW i \in 1 .. n, i # 1
               PROVE  \E k \in 1 .. Len(job_queue') :
                         job_queue'[k] = job_queue[i]
    BY <1>2
  <2>1. i - 1 \in 1 .. n - 1 /\ (i - 1) + 1 = i
    BY <1>2
  <2> QED  BY <1>2, <2>1
<1>7. \A g : Promised(g) => Promised(g)'
  <2>1. OnStack(w, j)'
    <3>1. 1 \in 1 .. Len(<<j>>) /\ <<j>>[1] = j
      OBVIOUS
    <3> QED  BY <1>3, <3>1 DEF OnStack
  <2>2. \A i : Queued(i) => Queued(i)' \/ i = j
    BY <1>2, <1>6 DEF Queued
  <2>3. \A i : ~OnStack(w, i)
    <3>1. Len(worker[w].stack) = 0 /\ 1 .. 0 = {}
      BY <1>4
    <3> QED  BY <3>1 DEF OnStack
  <2>4. \A v \in Worker \ {w} : \A i : OnStack(v, i) => OnStack(v, i)'
    BY <1>3 DEF OnStack
  <2>5. \A i : Held(i) => Held(i)'
    BY <1>1 DEF Held
  <2>6. \A i : InPlay(i) => InPlay(i)'
    BY <2>1, <2>2, <2>3, <2>4, <2>5 DEF InPlay
  <2> QED  BY <2>6 DEF Promised
<1>8. NothingLeftOut'
  <2> SUFFICES ASSUME NEW f \in File \ failed, Tracked(f), NEW U \in Units(f)
               PROVE  \/ Ingested(f, U) \/ ToBeSent(f, U)
                      \/ ~Elsewhere(f, U)'
    BY <1>1 DEF NothingLeftOut, Tracked, Units, Ingested, ToBeSent, Pushing,
                ThisFile, Unsent
  <2>1. Ingested(f, U) \/ ToBeSent(f, U) \/ ~Elsewhere(f, U)
    BY DEF NothingLeftOut, Progress
  <2>2. ASSUME NEW i \in 1 .. Len(job_queue), Busy(job_queue[i]),
               job_queue[i].file = f, job_queue[i].parts = U
        PROVE  ~Elsewhere(f, U)'
    <3>1. CASE job_queue[i] = j
      BY <1>4, <2>2, <3>1 DEF Elsewhere
    <3>2. CASE job_queue[i] # j
      <4>1. PICK k \in 1 .. Len(job_queue') : job_queue'[k] = job_queue[i]
        BY <1>2, <1>6, <3>2
      <4> QED  BY <2>2, <4>1 DEF Elsewhere
    <3> QED  BY <3>1, <3>2
  <2>3. ASSUME NEW v \in Worker, Working(v), Busy(Job(v)),
               Job(v).file = f, Job(v).parts = U
        PROVE  ~Elsewhere(f, U)'
    <3>1. v # w
      BY <1>4, <2>3
    <3> QED  BY <1>5, <2>3, <3>1 DEF Elsewhere
  <2> QED  BY <2>1, <2>2, <2>3 DEF Elsewhere
<1>9. FullIsDescribed'
  <2>1. \A v \in Worker : At(v, "source_data") =>
           At(v, "source_data")' /\ Job(v)' = Job(v)
    BY <1>1, <1>5 DEF At
  <2> QED  BY <1>1, <2>1 DEF FullIsDescribed, Progress, Tracked, Full
<1>10. \A g : Known(g) => Known(g)'
  BY <1>1 DEF Known
<1> QED  BY <1>1, <1>7, <1>8, <1>9, <1>10, WorkerProgress

(* The blocks of a part are counted.                                       *)
LEMMA IngestHashesProgress ==
    ASSUME IInv, Progress, NEW w \in Worker, IngestHashes(w),
           ~Job(w).disable_ingest_hashes
    PROVE  Progress'
<1> USE DEF IInv
<1>1. /\ Working(w) /\ Job(w).pc = "hashes" /\ Goto(w, "track")
      /\ UNCHANGED <<job_queue, adder, source_data_map, preexisting, described,
                     failed>>
  BY DEF IngestHashes, At, Working, queueVars, trackerVars
<1>2. PICK j \in Jobs : j = Job(w)
  BY <1>1, JobForm
<1>3. PICK f \in File, U \in SUBSET Nat : f = j.file /\ U = j.parts
  BY DEF Jobs
<1>4. /\ Busy(j) /\ Tracked(f) /\ U \in Units(f)
      /\ \A p \in U : ingested[f][p] = 0
  BY <1>1, <1>2, <1>3 DEF Apart, JobOK, Busy
<1>5. /\ U \subseteq AllParts(f)
      /\ \A V \in Units(f) : V \subseteq AllParts(f)
                             /\ (V # U => V \cap U = {})
  <2>1. source_data_map[f].parts_total \in {1, Parts[f]}
    BY <1>3, <1>4 DEF Counted
  <2> QED  BY <1>3, <1>4, <2>1, UnitsForm
<1>6. PICK g : /\ g = [p \in AllParts(f) |->
                          ingested[f][p] + (IF p \in U THEN 1 ELSE 0)]
               /\ ingested' = [ingested EXCEPT ![f] = g]
  BY <1>2, <1>3 DEF IngestHashes
<1>7. ingested[f] \in [AllParts(f) -> Nat]
  BY <1>3 DEF TypeOK
<1>8. /\ \A p \in U : g[p] = 1
      /\ \A p \in AllParts(f) \ U : g[p] = ingested[f][p]
  BY <1>4, <1>5, <1>6, <1>7
<1>9. /\ ingested'[f] = g
      /\ \A h \in File : h # f => ingested'[h] = ingested[h]
  <2>1. ingested = [h \in File |-> ingested[h]]
    BY DEF TypeOK
  <2> QED  BY <1>3, <1>6, <2>1
<1>10. Ingested(f, U)'
  BY <1>8, <1>9 DEF Ingested
<1>11. \A h \in File : \A V \in Units(h) : Ingested(h, V) => Ingested(h, V)'
  <2> SUFFICES ASSUME NEW h \in File, NEW V \in Units(h), Ingested(h, V)
               PROVE  Ingested(h, V)'
    OBVIOUS
  <2>1. CASE h # f
    BY <1>9, <2>1 DEF Ingested
  <2>2. CASE h = f /\ V # U
    BY <1>5, <1>8, <1>9, <2>2 DEF Ingested
  <2>3. CASE h = f /\ V = U
    BY <1>10, <2>3
  <2> QED  BY <2>1, <2>2, <2>3
<1>12. PICK r : worker' = [worker EXCEPT ![w] = r]
  BY <1>1 DEF Goto, Becomes
<1>13. NothingLeftOut'
  <2> SUFFICES ASSUME NEW h \in File \ failed, Tracked(h), NEW V \in Units(h)
               PROVE  \/ Ingested(h, V)' \/ ToBeSent(h, V)
                      \/ ~Elsewhere(h, V)'
    BY <1>1 DEF NothingLeftOut, Tracked, Units, ToBeSent, Pushing, ThisFile,
                Unsent
  <2>1. Ingested(h, V) \/ ToBeSent(h, V) \/ ~Elsewhere(h, V)
    BY DEF NothingLeftOut, Progress
  <2>2. CASE h = f /\ V = U
    BY <1>10, <2>2
  <2>3. CASE ~(h = f /\ V = U)
    <3>1. ~Elsewhere(h, V) => ~Elsewhere(h, V)'
      BY <1>1, <1>2, <1>3, <1>12, <2>3, StillThere
    <3> QED  BY <1>11, <2>1, <3>1
  <2> QED  BY <2>2, <2>3
<1>14. FullIsDescribed'
  <2>1. \A v \in Worker : At(v, "source_data") =>
           At(v, "source_data")' /\ Job(v)' = Job(v)
    <3>1. \A v \in Worker \ {w} : worker'[v] = worker[v]
      BY <1>12 DEF TypeOK
    <3> QED  BY <1>1, <3>1 DEF At, Job
  <2> QED  BY <1>1, <2>1 DEF FullIsDescribed, Progress, Tracked, Full
<1>15. \A h : (Promised(h) => Promised(h)') /\ (Known(h) => Known(h)')
  BY <1>1, GotoPromises DEF Known
<1> QED  BY <1>1, <1>13, <1>14, <1>15, WorkerProgress

(* The unit that a job reports is counted; the last report is followed by  *)
(* the source data.                                                        *)
LEMMA track_sourceProgress ==
    ASSUME IInv, Progress, NEW w \in Worker, track_source(w)
    PROVE  Progress'
<1> USE DEF IInv
<1>1. /\ At(w, "track") /\ Working(w) /\ Job(w).pc = "track"
      /\ UNCHANGED <<job_queue, adder, preexisting, ingested, described,
                     failed>>
  BY DEF track_source, At, Working, queueVars, dbVars
<1>2. PICK j \in Jobs : j = Job(w)
  BY <1>1, JobForm
<1>3. PICK f \in File, U \in SUBSET Nat : f = j.file /\ U = j.parts
  BY DEF Jobs
<1>4. Tracked(f) /\ U \in Units(f) /\ \A p \in U : ingested[f][p] = 1
  BY <1>1, <1>2, <1>3, TrackForm
<1>5. PICK t \in Tracks : t = source_data_map[f]
  BY <1>3, <1>4 DEF TypeOK, Tracked, Untracked
<1>6. PICK u : /\ u = [t EXCEPT !.parts_done = t.parts_done + 1]
               /\ source_data_map' = [source_data_map EXCEPT ![f] = u]
  BY <1>2, <1>3, <1>5 DEF track_source
<1>7. u.tracked = t.tracked /\ u.parts_total = t.parts_total
      /\ u.parts_done = t.parts_done + 1
  BY <1>5, <1>6 DEF Tracks
<1>8. /\ source_data_map'[f] = u
      /\ \A h \in File : h # f => source_data_map'[h] = source_data_map[h]
  BY <1>3, <1>6 DEF TypeOK
<1>9. \A h \in File : /\ Tracked(h)' <=> Tracked(h)
                      /\ Units(h)' = Units(h)
  BY <1>5, <1>7, <1>8 DEF Tracked, Units
<1>10. PICK label \in {"source_data", "recursive"} :
          /\ Goto(w, label)
          /\ IsFinalPart(f) => label = "source_data"
  <2>1. PICK label : label = IF IsFinalPart(f) THEN "source_data"
                                               ELSE "recursive"
    OBVIOUS
  <2>2. Goto(w, label)
    BY <1>2, <1>3, <2>1 DEF track_source
  <2> QED  BY <2>1, <2>2
<1>11. PICK r, i :
          /\ i \in Jobs /\ worker' = [worker EXCEPT ![w] = r]
          /\ IsWorker(r) /\ Stacked(r) /\ r.pc = "work"
          /\ i = Head(r.stack) /\ i.pc = label /\ i.file = f
  BY <1>1, <1>2, <1>3, <1>10, RelabelForm
<1>12. Job(w)' = i /\ \A l : At(w, l)' <=> l = label
  <2>1. worker'[w] = r
    BY <1>11 DEF TypeOK
  <2> QED  BY <1>11, <2>1 DEF At, Job
<1>13. NothingLeftOut'
  <2> SUFFICES ASSUME NEW h \in File \ failed, Tracked(h), NEW V \in Units(h)
               PROVE  \/ Ingested(h, V) \/ ToBeSent(h, V)
                      \/ ~Elsewhere(h, V)'
    BY <1>1, <1>9 DEF NothingLeftOut, Ingested, ToBeSent, Pushing, ThisFile,
                      Unsent
  <2>1. Ingested(h, V) \/ ToBeSent(h, V) \/ ~Elsewhere(h, V)
    BY DEF NothingLeftOut, Progress
  <2>2. CASE h = f /\ V = U
    BY <1>4, <2>2 DEF Ingested
  <2>3. CASE ~(h = f /\ V = U)
    <3>1. ~Elsewhere(h, V) => ~Elsewhere(h, V)'
      BY <1>1, <1>2, <1>3, <1>11, <2>3, StillThere
    <3> QED  BY <2>1, <3>1
  <2> QED  BY <2>2, <2>3
<1>14. FullIsDescribed'
  <2> SUFFICES ASSUME NEW h \in File, Tracked(h)', Full(h)'
               PROVE  \/ described[h] # 0
                      \/ \E v \in Worker : At(v, "source_data")'
                                           /\ Job(v)'.file = h
    BY <1>1 DEF FullIsDescribed
  <2>1. CASE h = f
    <3>1. IsFinalPart(f)
      BY <1>5, <1>7, <1>8, <2>1 DEF Full, IsFinalPart
    <3> QED  BY <1>10, <1>11, <1>12, <2>1, <3>1
  <2>2. CASE h # f
    <3>1. Tracked(h) /\ Full(h)
      BY <1>8, <1>9, <2>2 DEF Full
    <3>2. \A v \in Worker : At(v, "source_data") =>
             At(v, "source_data")' /\ Job(v)' = Job(v)
      <4>1. \A v \in Worker \ {w} : worker'[v] = worker[v]
        BY <1>11 DEF TypeOK
      <4> QED  BY <1>1, <4>1 DEF At, Job
    <3> QED  BY <3>1, <3>2 DEF FullIsDescribed, Progress
  <2> QED  BY <2>1, <2>2
<1>15. \A h \in File : Known(h) => Known(h)'
  BY <1>1, <1>9 DEF Known, Tracked
<1>16. \A h : Promised(h) => Promised(h)'
  BY <1>1, <1>10, GotoPromises
<1> QED  BY <1>1, <1>13, <1>14, <1>15, <1>16, WorkerProgress

(* The source data is written.                                             *)
LEMMA WriteSourceDataProgress ==
    ASSUME IInv, Progress, NEW w \in Worker, WriteSourceData(w)
    PROVE  Progress'
<1> USE DEF IInv
<1>1. /\ At(w, "source_data") /\ Working(w) /\ ~Busy(Job(w))
      /\ Goto(w, "recursive")
      /\ described' = [described EXCEPT ![Job(w).file] = @ + 1]
      /\ UNCHANGED <<job_queue, adder, source_data_map, preexisting, ingested,
                     failed>>
  BY DEF WriteSourceData, At, Working, Busy, queueVars, trackerVars
<1>2. PICK f \in File : f = Job(w).file
  BY <1>1, JobForm DEF Jobs
<1>3. /\ described'[f] # 0
      /\ \A h \in File : described[h] # 0 => described'[h] # 0
  BY <1>1, <1>2 DEF TypeOK
<1>4. PICK r : worker' = [worker EXCEPT ![w] = r]
  BY <1>1 DEF Goto, Becomes
<1>5. NothingLeftOut'
  <2> SUFFICES ASSUME NEW h \in File \ failed, Tracked(h), NEW U \in Units(h)
               PROVE  \/ Ingested(h, U) \/ ToBeSent(h, U)
                      \/ ~Elsewhere(h, U)'
    BY <1>1 DEF NothingLeftOut, Tracked, Units, Ingested, ToBeSent, Pushing,
                ThisFile, Unsent
  <2>1. Ingested(h, U) \/ ToBeSent(h, U) \/ ~Elsewhere(h, U)
    BY DEF NothingLeftOut, Progress
  <2>2. ~Elsewhere(h, U) => ~Elsewhere(h, U)'
    BY <1>1, <1>4, StillThere
  <2> QED  BY <2>1, <2>2
<1>6. FullIsDescribed'
  <2> SUFFICES ASSUME NEW h \in File, Tracked(h), Full(h)
               PROVE  \/ described'[h] # 0
                      \/ \E v \in Worker : At(v, "source_data")'
                                           /\ Job(v)'.file = h
    BY <1>1 DEF FullIsDescribed, Tracked, Full
  <2>1. CASE described[h] # 0
    BY <1>3, <2>1
  <2>2. ASSUME NEW v \in Worker, At(v, "source_data"), Job(v).file = h
        PROVE  \/ described'[h] # 0
               \/ At(v, "source_data")' /\ Job(v)'.file = h
    <3>1. CASE v = w
      BY <1>2, <1>3, <2>2, <3>1
    <3>2. CASE v # w
      <4>1. worker'[v] = worker[v]
        BY <1>4, <3>2 DEF TypeOK
      <4> QED  BY <2>2, <4>1 DEF At, Job
    <3> QED  BY <3>1, <3>2
  <2> QED  BY <2>1, <2>2 DEF FullIsDescribed, Progress
<1>7. \A h : (Promised(h) => Promised(h)') /\ (Known(h) => Known(h)')
  BY <1>1, GotoPromises DEF Known
<1> QED  BY <1>1, <1>5, <1>6, <1>7, WorkerProgress

(* Compressed data that was found becomes a job of its own; the job around *)
(* it keeps the rest.                                                      *)
LEMMA RecurseProgress ==
    ASSUME IInv, Progress, NEW w \in Worker, Recurse(w)
    PROVE  Progress'
<1> USE DEF IInv
<1>1. /\ At(w, "recurse") /\ Working(w) /\ Job(w).pc = "recurse"
      /\ UNCHANGED <<job_queue, adder, preexisting, ingested, described,
                     failed>>
  BY DEF Recurse, At, Working, queueVars, dbVars
<1>2. PICK j \in Jobs : j = Job(w)
  BY <1>1, JobForm
<1>3. PICK s \in Seq(Compressed) : s = j.embedded /\ s # <<>>
  BY <1>1, <1>2 DEF Jobs, Stacks
<1>4. PICK e \in Seq(Compressed), f \in File, n \in Nat :
         /\ f = Head(s) /\ e = Tail(s) /\ n = j.recursion_depth + 1
         /\ f = s[1] /\ Len(e) = Len(s) - 1 /\ Len(s) \in Nat
         /\ \A k \in 1 .. Len(e) : e[k] = s[k + 1]
  <2>1. /\ Head(s) \in Compressed /\ Tail(s) \in Seq(Compressed)
        /\ Head(s) = s[1] /\ Len(Tail(s)) = Len(s) - 1
        /\ \A k \in 1 .. Len(Tail(s)) : Tail(s)[k] = s[k + 1]
    BY <1>3, HeadTailProperties
  <2>2. Len(s) \in Nat
    BY LenProperties
  <2>3. PICK n \in Nat : n = j.recursion_depth + 1
    BY DEF Jobs
  <2>4. Head(s) \in File
    BY <2>1 DEF Compressed
  <2> QED  BY <2>1, <2>2, <2>3, <2>4
<1>5. PICK d \in BOOLEAN : d = Known(f)
  BY DEF Known, TypeOK, Untracked, Tracks
<1>6. PICK i \in Jobs :
         /\ i = new_ingest_job(f, AllParts(f), d, n)
         /\ i.pc = "hashes" /\ i.file = f /\ i.parts = AllParts(f)
         /\ i.disable_ingest_hashes = d
  BY <1>4, <1>5, PartsForm, NewJobForm
<1>7. PICK b : b = [j EXCEPT !.pc = "recursive", !.embedded = e]
  OBVIOUS
<1>8. b \in Jobs /\ b.embedded = e /\ b.recursion_depth = j.recursion_depth
  BY <1>4, <1>7 DEF Jobs
<1>9. add_source(f, 1) /\ Becomes(w, <<i, b>>)
  BY <1>2, <1>3, <1>4, <1>5, <1>6, <1>7 DEF Recurse
<1>10. /\ \A g \in File : Known(g) => Known(g)'
       /\ Known(f)'
       /\ \A g \in File : Tracked(g)' =>
             \/ Tracked(g) /\ source_data_map'[g] = source_data_map[g]
             \/ /\ g = f /\ ~Known(f)
                /\ source_data_map'[g].parts_total = 1
                /\ source_data_map'[g].parts_done = 0
  BY <1>1, <1>4, <1>9, AddSourceForm
<1>11. \A g : Promised(g) => Promised(g)' \/ g = f
  <2>1. <<i, b>> \in Seq(Jobs) /\ Len(<<i, b>>) = 2 /\ <<i, b>>[2] = b
        /\ 2 \in 1 .. Len(<<i, b>>)
    BY <1>6, <1>8
  <2>2. InPlay(b)' /\ \A k : InPlay(k) => InPlay(k)' \/ k = j
    BY <1>1, <1>2, <1>9, <2>1, StackReplaced
  <2>3. \A g : Holds(j, g) => Holds(b, g) \/ g = f
    <3> SUFFICES ASSUME NEW g, Holds(j, g), g # f PROVE Holds(b, g)
      OBVIOUS
    <3>1. PICK k \in 1 .. Len(s) : s[k] = g
      BY <1>3 DEF Holds
    <3>2. k - 1 \in 1 .. Len(e) /\ (k - 1) + 1 = k
      BY <1>4, <3>1
    <3>3. e[k - 1] = g
      BY <1>4, <3>1, <3>2
    <3> QED  BY <1>8, <3>2, <3>3 DEF Holds
  <2> QED  BY <2>2, <2>3 DEF Promised
<1>12. PICK r : worker' = [worker EXCEPT ![w] = r]
  BY <1>9 DEF Becomes
<1>13. Working(w)' /\ Job(w)' = i
  <2>1. PICK t : t = <<i, b>> \o Tail(worker[w].stack)
    OBVIOUS
  <2>2. PICK q \in Seq(Jobs) : q = worker[w].stack /\ q # <<>>
    BY <1>1, JobForm
  <2>3. Tail(q) \in Seq(Jobs) /\ <<i, b>> \in Seq(Jobs)
    BY <1>6, <1>8, <2>2
  <2>4. Head(<<i, b>> \o Tail(q)) = i
    <3>1. PICK x \in Seq(Jobs) : x = Tail(q)
      BY <2>3
    <3>2. /\ <<i, b>> \o x \in Seq(Jobs)
          /\ Len(<<i, b>> \o x) = 2 + Len(x) /\ Len(x) \in Nat
          /\ \A k \in 1 .. 2 + Len(x) :
                (<<i, b>> \o x)[k] = IF k <= 2 THEN <<i, b>>[k] ELSE x[k - 2]
      BY <2>3, ConcatProperties, LenProperties
    <3>3. (<<i, b>> \o x)[1] = i
      BY <3>2
    <3>4. <<i, b>> \o x # <<>>
      BY <3>2
    <3> QED  BY <3>1, <3>2, <3>3, <3>4
  <2>5. worker' = [worker EXCEPT ![w] = [worker[w] EXCEPT !.stack = t]]
    BY <1>9, <2>1 DEF Becomes
  <2>6. worker[w] \in [pc : {"is_done", "pop", "work", "exit"},
                       stack : Seq(Jobs)]
    BY DEF TypeOK
  <2>7. worker'[w].stack = t /\ worker'[w].pc = worker[w].pc
    BY <2>5, <2>6 DEF TypeOK
  <2> QED  BY <1>1, <2>1, <2>2, <2>4, <2>7 DEF Working, Job
<1>14. NothingLeftOut'
  <2> SUFFICES ASSUME NEW h \in File \ failed, Tracked(h)', NEW U \in Units(h)'
               PROVE  \/ Ingested(h, U) \/ ToBeSent(h, U)
                      \/ ~Elsewhere(h, U)'
    BY <1>1 DEF NothingLeftOut, Ingested, ToBeSent, Pushing, ThisFile, Unsent
  <2>1. CASE Tracked(h) /\ source_data_map'[h] = source_data_map[h]
    <3>1. U \in Units(h)
      BY <2>1 DEF Units
    <3>2. Ingested(h, U) \/ ToBeSent(h, U) \/ ~Elsewhere(h, U)
      BY <2>1, <3>1 DEF NothingLeftOut, Progress
    <3>3. ~Busy(Job(w))
      BY <1>1 DEF Busy
    <3>4. ~Elsewhere(h, U) => ~Elsewhere(h, U)'
      BY <1>1, <1>12, <3>3, StillThere
    <3> QED  BY <3>2, <3>4
  <2>2. CASE h = f /\ ~Known(f) /\ source_data_map'[h].parts_total = 1
    <3>1. Parts[f] = 1 => {{p} : p \in AllParts(f)} = {AllParts(f)}
      BY DEF AllParts
    <3>2. U = AllParts(f)
      BY <2>2, <3>1 DEF Units
    <3>3. Busy(i)
      BY <1>5, <1>6, <2>2 DEF Busy
    <3> QED  BY <1>6, <1>13, <2>2, <3>2, <3>3 DEF Elsewhere
  <2> QED  BY <1>10, <2>1, <2>2
<1>15. FullIsDescribed'
  <2> SUFFICES ASSUME NEW h \in File, Tracked(h)', Full(h)'
               PROVE  \/ described[h] # 0
                      \/ \E v \in Worker : At(v, "source_data")'
                                           /\ Job(v)'.file = h
    BY <1>1 DEF FullIsDescribed
  <2>1. Tracked(h) /\ Full(h)
    BY <1>10 DEF Full
  <2>2. \A v \in Worker : At(v, "source_data") =>
           At(v, "source_data")' /\ Job(v)' = Job(v)
    <3>1. \A v \in Worker \ {w} : worker'[v] = worker[v]
      BY <1>12 DEF TypeOK
    <3> QED  BY <1>1, <3>1 DEF At, Job
  <2> QED  BY <2>1, <2>2 DEF FullIsDescribed, Progress
<1> QED  BY <1>1, <1>10, <1>11, <1>14, <1>15, WorkerProgress

(* Every step of every thread, a new command and a crash.                  *)
LEMMA NextProgress ==
    ASSUME IInv, Progress, [Next \/ Crash]_vars
    PROVE  Progress'
<1>1. CASE Adder
  <2>1. CASE AdderQueue
    BY <1>1, <2>1, BetweenFilesProgress, PushProgress
       DEF AdderQueue, QueueAdder
  <2> QED  BY <1>1, <2>1, BetweenFilesProgress, AddSourceProgress DEF Adder
<1>2. ASSUME NEW w \in Worker, WorkerStep(w) PROVE Progress'
  <2>1. CASE WorkerQueue(w)
    <3>1. CASE is_done(w)
      BY <2>1, <3>1, QuietStepsProgress DEF WorkerQueue
    <3>2. CASE pop(w)
      BY <2>1, <3>2, QuietStepsProgress, PopProgress DEF WorkerQueue
    <3> QED  BY <2>1, <3>1, <3>2 DEF WorkerQueue, QueueWorker
  <2>2. CASE IngestHashes(w)
    BY <2>2, QuietStepsProgress, IngestHashesProgress
  <2>3. CASE RecurseName(w) \/ BlankRecursed(w) \/ EndJob(w)
    BY <2>3, QuietStepsProgress
  <2> QED  BY <1>2, <2>1, <2>2, <2>3, track_sourceProgress,
              WriteSourceDataProgress, RecurseProgress DEF WorkerStep
<1>3. CASE UNCHANGED vars
  <2>1. AdderMoves /\ adder' = adder /\ failed' = failed
    BY <1>3 DEF vars, queueVars, trackerVars, dbVars, AdderMoves, IInv, TypeOK
  <2>2. AllStarted' /\ StartedFiles' = StartedFiles
    BY <2>1 DEF Progress, AllStarted, StartedFiles, Started, Pushing
  <2>3. /\ \A j : Held(j) => Held(j)'
        /\ \A f, U : ToBeSent(f, U) => ToBeSent(f, U)'
    BY <2>1 DEF Held, ToBeSent, Pushing, Unsent, ThisFile
  <2> QED  BY <2>1, <2>2, <2>3, AdderMovesProgress
<1> QED  BY <1>1, <1>2, <1>3, NewCommandProgress
            DEF Next, Step, IngestAgain, Crash

(* At the end there is no job left to promise anything.                    *)
LEMMA EndIsComplete ==
    ASSUME IInv, Progress, adder.pc = "joined",
           NEW f \in NamedFiles \ failed,
           NEW g \in ({f} \cup (FoundIn(f) \ failed)) \ preexisting
    PROVE  Complete(g) /\ described[g] = 1
<1> USE DEF IInv
<1>1. /\ \A w \in Worker : worker[w].pc = "exit" /\ worker[w].stack = <<>>
      /\ job_queue = <<>> /\ Worker # {}
  BY JobQueueAssumption DEF Drained, Stacks, Working
<1>2. Len(<<>>) = 0 /\ 1 .. 0 = {}
  OBVIOUS
<1>3. \A h : ~Promised(h)
  <2>1. \A j : ~InPlay(j)
    BY <1>1, <1>2 DEF InPlay, Queued, Held, OnStack
  <2> QED  BY <2>1 DEF Promised
<1>4. \A h, U : Elsewhere(h, U) /\ ~ToBeSent(h, U) /\ ~Tracking(h, U)
  BY <1>1, <1>2 DEF Elsewhere, ToBeSent, Tracking, Pushing, Working, At
<1>5. f \in File /\ g \in File /\ g \notin failed
  BY IngestAssumption DEF NamedFiles, FoundIn
<1>6. f \in StartedFiles \ failed
  <2>1. adder.k > Len(filenames)
    BY DEF Progress, AllStarted
  <2>2. adder.k \in Nat /\ Len(filenames) \in Nat
    BY IngestAssumption DEF TypeOK, Idlers, Pushers
  <2>3. \A k \in 1 .. Len(filenames) : Started(k)
    BY <2>1, <2>2 DEF Started
  <2> QED  BY <2>3 DEF StartedFiles, NamedFiles
<1>7. Tracked(g)
  BY <1>3, <1>6 DEF Progress, StartedIsKnown, Known, Tracked
<1>8. source_data_map[g].parts_total \in {1, Parts[g]}
      /\ source_data_map[g].parts_done = Cardinality(DoneUnits(g))
  BY <1>5, <1>7 DEF Counted
<1>9. \A U \in Units(g) : Ingested(g, U)
  BY <1>4, <1>5, <1>7 DEF Progress, NothingLeftOut
<1>10. DoneUnits(g) = Units(g)
  BY <1>4, <1>9 DEF DoneUnits, Ingested
<1>11. Full(g)
  BY <1>5, <1>8, <1>10, UnitsForm DEF Full
<1>12. Complete(g)
  BY <1>5, <1>7, <1>11, FullIsComplete
<1>13. described[g] # 0
  BY <1>1, <1>5, <1>7, <1>11 DEF Progress, FullIsDescribed, At
<1>14. described[g] \in Nat /\ described[g] <= 1
  <2>1. described \in [File -> Nat]
    BY DEF TypeOK
  <2>2. described[g] \in Nat
    BY <1>5, <2>1
  <2>3. DescribedIsComplete
    BY DEF IInv
  <2>4. g \in File
    BY <1>5
  <2>5. described[g] <= 1
    BY <2>3, <2>4, Zenon DEF DescribedIsComplete
  <2> QED  BY <2>2, <2>5
<1> QED  BY <1>12, <1>13, <1>14

-----------------------------------------------------------------------------
(***************************************************************************)
(* The source data.  A blank record comes after the real one only when     *)
(* somebody added the source while another thread owed its blank record,   *)
(* and then that thread, or the one that added it, found the content in    *)
(* compressed data.                                                        *)
(***************************************************************************)
Naming(w) == At(w, "blank") \/ At(w, "recurse")

IDsFirst ==
    /\ adder.pc \in {"blank", "add_source"} => ThisFile \in sources
    /\ \A w \in Worker : Naming(w) => Head(Job(w).embedded) \in sources
    /\ \A f \in File : Known(f) => f \in sources

BlankBeforeReal ==
    /\ source_data \in [File -> {"none", "blank", "real"}]
    /\ \A f \in File : described[f] # 0 =>
          /\ source_data[f] # "none"
          /\ source_data[f] = "real" \/ f \in overtaken
    /\ \A f \in File : Known(f) /\ OwesBlank(f) => f \in overtaken
    /\ overtaken \subseteq Compressed

DataInv == IDsFirst /\ BlankBeforeReal

(* What a worker is naming was found in compressed data.                   *)
LEMMA NamingForm ==
    ASSUME IInv, NEW w \in Worker, Naming(w)
    PROVE  Head(Job(w).embedded) \in Compressed
           /\ Head(Job(w).embedded) \in File
<1>1. Working(w) /\ Job(w).embedded # <<>>
  BY DEF IInv, Stacks, Naming, At, Working
<1>2. PICK s \in Seq(Compressed) : s = Job(w).embedded
  BY <1>1, JobForm DEF IInv, Jobs
<1>3. Head(s) \in Compressed
  BY <1>1, <1>2
<1> QED  BY <1>2, <1>3 DEF Compressed

(* A worker whose innermost call goes to another label.                    *)
LEMMA GotoAt ==
    ASSUME IInv, NEW w \in Worker, Working(w), NEW label, Goto(w, label),
           label \in {"track", "source_data", "recursive", "blank",
                      "recurse"},
           label \in {"blank", "recurse"} => Job(w).embedded # <<>>,
           label = "track" => ~Job(w).disable_ingest_hashes
    PROVE  /\ \A v \in Worker \ {w} : worker'[v] = worker[v]
           /\ \A l : At(w, l)' <=> l = label
           /\ Job(w)'.embedded = Job(w).embedded
<1>1. PICK r : /\ worker' = [worker EXCEPT ![w] = r] /\ r.pc = "work"
               /\ Head(r.stack) = [Job(w) EXCEPT !.pc = label]
  BY GotoForm
<1>2. worker'[w] = r /\ \A v \in Worker \ {w} : worker'[v] = worker[v]
  BY <1>1 DEF IInv, TypeOK
<1>3. PICK j \in Jobs : j = Job(w)
  BY JobForm DEF IInv
<1>4. PICK i : i = [j EXCEPT !.pc = label]
  OBVIOUS
<1>5. i.pc = label /\ i.embedded = j.embedded
  BY <1>4 DEF Jobs
<1>6. Job(w)' = i
  BY <1>1, <1>2, <1>3, <1>4 DEF Job
<1> QED  BY <1>1, <1>2, <1>3, <1>5, <1>6 DEF At

(* Steps that neither make an ID nor write source data, and after which    *)
(* nobody is between the two who was not there before.                     *)
LEMMA QuietData ==
    ASSUME IInv, DataInv,
           UNCHANGED <<source_data, described, overtaken>>,
           sources \subseteq sources',
           \A f \in File : Known(f)' => Known(f),
           adder' = adder \/ adder'.pc \notin {"blank", "add_source"},
           \A v \in Worker : worker'[v] = worker[v] \/ ~Naming(v)'
    PROVE  DataInv'
<1>1. IDsFirst'
  <2>1. adder'.pc \in {"blank", "add_source"} => ThisFile' \in sources'
    BY DEF DataInv, IDsFirst, ThisFile
  <2>2. \A v \in Worker : Naming(v)' => Head(Job(v)'.embedded) \in sources'
    BY DEF DataInv, IDsFirst, Naming, At, Job
  <2>3. \A f \in File : Known(f)' => f \in sources'
    BY DEF DataInv, IDsFirst
  <2> QED  BY <2>1, <2>2, <2>3 DEF IDsFirst
<1>2. \A f : OwesBlank(f)' => OwesBlank(f)
  BY DEF OwesBlank, Naming, ThisFile, At, Job
<1>3. BlankBeforeReal'
  BY <1>2 DEF DataInv, BlankBeforeReal
<1> QED  BY <1>1, <1>3 DEF DataInv

(* What the first command starts from.                                     *)
LEMMA InitData == Init => DataInv
<1> SUFFICES ASSUME Init PROVE DataInv
  OBVIOUS
<1>1. \A f \in File : ~Known(f)
  BY DEF Init, Known, Untracked
<1>2. \A w \in Worker : ~Naming(w)
  BY DEF Init, QueueInit, Waiting, Naming, At
<1> QED  BY <1>1, <1>2 DEF Init, DataInv, IDsFirst, BlankBeforeReal

(* The steps of the adder that insert no name.                             *)
LEMMA AdderQuietData ==
    ASSUME IInv, DataInv,
           \/ SkipFile \/ ReadPart \/ ReadPartFails \/ EndFile \/ EndFiles
           \/ AdderQueue
    PROVE  DataInv'
<1>1. /\ UNCHANGED <<source_data, described, overtaken, sources, worker>>
      /\ UNCHANGED <<source_data_map, preexisting>>
  BY DEF SkipFile, ReadPart, ReadPartFails, EndFile, EndFiles, AdderQueue,
         QueueAdder, push_size, push_job, done_adding, join, trackerVars,
         dbVars
<1>2. adder'.pc \notin {"blank", "add_source"}
  <2>1. adder \in Idlers \cup Pushers
    BY DEF IInv, TypeOK
  <2>2. CASE SkipFile \/ ReadPartFails \/ EndFile \/ EndFiles
    BY <2>2 DEF SkipFile, ReadPartFails, EndFile, EndFiles
  <2>3. CASE ReadPart
    <3>1. adder \in Pushers
      BY <2>1, <2>3 DEF ReadPart, Idlers
    <3>2. adder'.pc = "size"
      BY <2>3, <3>1 DEF ReadPart, Pushers
    <3> QED  BY <3>2
  <2>4. CASE AdderQueue
    <3>1. \A l : [adder EXCEPT !.pc = l].pc = l
      BY <2>1 DEF Idlers, Pushers
    <3> QED  BY <2>4, <3>1 DEF AdderQueue, QueueAdder, push_size, push_job,
                               done_adding, join
  <2> QED  BY <2>2, <2>3, <2>4
<1>3. \A f \in File : Known(f)' => Known(f)
  BY <1>1 DEF Known
<1> QED  BY <1>1, <1>2, <1>3, QuietData

(* The file is named: the one that makes its ID owes the blank record, and *)
(* nobody can have added the source before.                                *)
LEMMA HashFileData ==
    ASSUME IInv, DataInv, HashFile
    PROVE  DataInv'
<1>1. PICK f \in File : f = ThisFile
  <2>1. adder.k \in 1 .. Len(filenames)
    BY IngestAssumption DEF HashFile, IInv, TypeOK, Idlers, Pushers
  <2> QED  BY <2>1, IngestAssumption DEF ThisFile
<1>2. /\ adder'.k = adder.k /\ ThisFile' = f
      /\ adder'.pc = "blank" => f \notin sources
      /\ adder.pc = "file" /\ sources' = sources \cup {f}
      /\ UNCHANGED <<worker, source_data_map, preexisting, source_data,
                     described, overtaken>>
  BY <1>1 DEF HashFile, is_new_id, ThisFile, trackerVars
<1>3. \A g \in File : Known(g)' <=> Known(g)
  BY <1>2 DEF Known
<1>4. \A w \in Worker : (Naming(w)' <=> Naming(w)) /\ Job(w)' = Job(w)
  BY <1>2 DEF Naming, At, Job
<1>5. IDsFirst'
  BY <1>2, <1>3, <1>4 DEF DataInv, IDsFirst
<1>6. \A g \in File : OwesBlank(g)' => OwesBlank(g) \/ ~Known(g)
  <2>1. f \notin sources => ~Known(f)
    BY DEF DataInv, IDsFirst
  <2> QED  BY <1>2, <2>1 DEF OwesBlank, At, Job
<1>7. BlankBeforeReal'
  BY <1>2, <1>3, <1>6 DEF DataInv, BlankBeforeReal
<1> QED  BY <1>5, <1>7 DEF DataInv

(* A blank record is written: what it may replace is known, and so was     *)
(* added while it was owed.                                                *)
LEMMA BlankData ==
    ASSUME IInv, DataInv, NEW f \in File, OwesBlank(f), insert_blank(f),
           UNCHANGED <<sources, source_data_map, preexisting, described,
                       overtaken>>,
           \A g \in File : OwesBlank(g)' => OwesBlank(g)
    PROVE  BlankBeforeReal'
<1>1. \A g \in File : Known(g)' <=> Known(g)
  BY DEF Known
<1>2. source_data' \in [File -> {"none", "blank", "real"}]
      /\ source_data'[f] = "blank"
      /\ \A g \in File : g # f => source_data'[g] = source_data[g]
  BY DEF insert_blank, DataInv, BlankBeforeReal
<1>3. described[f] # 0 => f \in overtaken
  BY DEF DataInv, BlankBeforeReal, IInv, DataLast
<1> QED  BY <1>1, <1>2, <1>3 DEF DataInv, BlankBeforeReal

LEMMA BlankFileData ==
    ASSUME IInv, DataInv, BlankFile
    PROVE  DataInv'
<1>1. PICK f \in File : f = ThisFile
  <2>1. adder.k \in 1 .. Len(filenames)
    BY IngestAssumption DEF BlankFile, IInv, TypeOK, Idlers, Pushers,
                            AdderPlace
  <2> QED  BY <2>1, IngestAssumption DEF ThisFile
<1>2. /\ adder.pc = "blank" /\ adder'.pc = "add_source" /\ ThisFile' = f
      /\ insert_blank(f)
      /\ UNCHANGED <<worker, source_data_map, preexisting, sources,
                     described, overtaken>>
  BY <1>1 DEF BlankFile, ThisFile, trackerVars
<1>3. \A w \in Worker : (Naming(w)' <=> Naming(w)) /\ Job(w)' = Job(w)
  BY <1>2 DEF Naming, At, Job
<1>4. IDsFirst'
  BY <1>1, <1>2, <1>3 DEF DataInv, IDsFirst, Known
<1>5. OwesBlank(f) /\ \A g \in File : OwesBlank(g)' => OwesBlank(g)
  BY <1>1, <1>2 DEF OwesBlank, At, Job
<1>6. BlankBeforeReal'
  BY <1>2, <1>5, BlankData
<1> QED  BY <1>4, <1>6 DEF DataInv

(* A source is added: if its blank record is owed, it is overtaken.        *)
LEMMA AddedData ==
    ASSUME IInv, DataInv, NEW f \in File, NEW n, add_source(f, n),
           f \in sources, OwesBlank(f) => f \in Compressed,
           UNCHANGED <<sources, preexisting, source_data, described>>,
           \A g \in File : OwesBlank(g)' => OwesBlank(g)
    PROVE  BlankBeforeReal' /\ \A g \in File : Known(g)' => g \in sources'
<1>1. \A g \in File : Known(g)' => Known(g) \/ g = f
  BY DEF add_source, Known, IInv, TypeOK
<1>2. overtaken \subseteq overtaken' /\ overtaken' \subseteq Compressed
      /\ (~Known(f) /\ OwesBlank(f) => f \in overtaken')
  BY DEF add_source, DataInv, BlankBeforeReal
<1>3. \A g \in File : Known(g)' => g \in sources'
  BY <1>1 DEF DataInv, IDsFirst
<1> QED  BY <1>1, <1>2, <1>3 DEF DataInv, BlankBeforeReal

LEMMA AddSourceData ==
    ASSUME IInv, DataInv, AddSource
    PROVE  DataInv'
<1>1. PICK f \in File : f = ThisFile
  <2>1. adder.k \in 1 .. Len(filenames)
    BY IngestAssumption DEF AddSource, IInv, TypeOK, Idlers, Pushers,
                            AdderPlace
  <2> QED  BY <2>1, IngestAssumption DEF ThisFile
<1>2. /\ adder.pc = "add_source" /\ adder'.pc = "size"
      /\ add_source(f, Parts[f])
      /\ UNCHANGED <<worker, preexisting, sources, source_data, described>>
  BY <1>1 DEF AddSource, dbVars
<1>3. \A w \in Worker : (Naming(w)' <=> Naming(w)) /\ Job(w)' = Job(w)
  BY <1>2 DEF Naming, At, Job
<1>4. \A g \in File : OwesBlank(g)' => OwesBlank(g)
  BY <1>2 DEF OwesBlank, At, Job
<1>5. OwesBlank(f) => f \in Compressed
  BY <1>2, NamingForm DEF OwesBlank, Naming
<1>6. f \in sources
  BY <1>1, <1>2 DEF DataInv, IDsFirst
<1>7. BlankBeforeReal' /\ \A g \in File : Known(g)' => g \in sources'
  BY <1>2, <1>4, <1>5, <1>6, AddedData
<1>8. IDsFirst'
  BY <1>2, <1>3, <1>7 DEF DataInv, IDsFirst
<1> QED  BY <1>7, <1>8 DEF DataInv

(* The steps of a worker that insert no name and write no source data.     *)
LEMMA WorkerQuietData ==
    ASSUME IInv, DataInv, NEW w \in Worker,
           \/ WorkerQueue(w) \/ IngestHashes(w) \/ track_source(w) \/ EndJob(w)
    PROVE  DataInv'
<1>1. /\ UNCHANGED <<source_data, described, overtaken, adder>>
      /\ sources \subseteq sources'
      /\ \A f \in File : Known(f)' => Known(f)
  <2>1. CASE WorkerQueue(w) \/ IngestHashes(w) \/ EndJob(w)
    <3>1. /\ UNCHANGED <<source_data, described, overtaken, adder>>
          /\ UNCHANGED <<source_data_map, preexisting>>
          /\ sources \subseteq sources'
      BY <2>1 DEF WorkerQueue, QueueWorker, is_done, pop, IngestHashes, EndJob,
                  trackerVars, dbVars
    <3> QED  BY <3>1 DEF Known
  <2>2. CASE track_source(w)
    <3>1. /\ UNCHANGED <<sources, source_data, described, overtaken, adder,
                         preexisting>>
          /\ Tracked(Job(w).file)
          /\ source_data_map' =
                [source_data_map EXCEPT ![Job(w).file].parts_done = @ + 1]
      BY <2>2 DEF track_source, TrackAsserts, Tracked, dbVars
    <3>2. \A f \in File : Known(f)' => Known(f)
      BY <3>1 DEF Known, Tracked, IInv, TypeOK
    <3> QED  BY <3>1, <3>2
  <2> QED  BY <2>1, <2>2
<1>2. \A v \in Worker : worker'[v] = worker[v] \/ ~Naming(v)'
  <2>1. CASE is_done(w)
    <3>1. \A v \in Worker : worker'[v].pc = "work" => worker'[v] = worker[v]
      BY <2>1 DEF is_done, IInv, TypeOK
    <3> QED  BY <3>1 DEF Naming, At
  <2>2. CASE pop(w)
    <3>1. CASE job_queue = <<>>
      <4>1. \A v \in Worker : worker'[v].pc = "work" => worker'[v] = worker[v]
        BY <2>2, <3>1 DEF pop, IInv, TypeOK
      <4> QED  BY <4>1 DEF Naming, At
    <3>2. CASE job_queue # <<>>
      <4>1. Head(job_queue).pc = "hashes"
        <5>1. PICK q \in Seq(Jobs) : q = job_queue
          BY DEF IInv, TypeOK
        <5>2. Head(q) = q[1] /\ 1 \in 1 .. Len(q)
          BY <3>2, <5>1
        <5> QED  BY <5>1, <5>2 DEF IInv, Stacks
      <4>2. PICK j : j = Head(job_queue)
        OBVIOUS
      <4>3. /\ worker'[w] = [pc |-> "work", stack |-> <<j>>]
            /\ \A v \in Worker \ {w} : worker'[v] = worker[v]
        BY <2>2, <3>2, <4>2 DEF pop, IInv, TypeOK
      <4>4. Job(w)' = j
        BY <4>3 DEF Job
      <4> QED  BY <4>1, <4>2, <4>3, <4>4 DEF Naming, At
    <3> QED  BY <3>1, <3>2
  <2>3. CASE IngestHashes(w) \/ track_source(w)
    <3>1. PICK l \in {"track", "source_data", "recursive"} :
             Goto(w, l) /\ (l = "track" => ~Job(w).disable_ingest_hashes)
      BY <2>3 DEF IngestHashes, track_source
    <3>2. Working(w)
      BY <2>3 DEF IngestHashes, track_source, At, Working
    <3> QED  BY <3>1, <3>2, GotoAt DEF Naming
  <2>4. CASE EndJob(w)
    <3>1. Working(w)
      BY <2>4 DEF EndJob, At, Working
    <3>2. CASE Len(worker[w].stack) = 1
      <4>1. \A v \in Worker : worker'[v].pc = "work" => worker'[v] = worker[v]
        BY <2>4, <3>2 DEF EndJob, Finished, Waiting, IInv, TypeOK
      <4> QED  BY <4>1 DEF Naming, At
    <3>3. CASE Len(worker[w].stack) # 1
      <4>1. PICK s \in Seq(Jobs) : s = worker[w].stack /\ s # <<>>
        BY <3>1, JobForm DEF IInv
      <4>2. Len(s) \in Nat /\ Len(s) >= 2
        <5>1. Len(s) \in Nat \ {0}
          BY <4>1
        <5>2. Len(s) # 1
          BY <3>3, <4>1
        <5>3. \A n \in Nat \ {0} : n # 1 => n \in Nat /\ n >= 2
          OBVIOUS
        <5> QED  BY <5>1, <5>2, <5>3, Zenon
      <4>3. s[2].pc = "recursive"
        BY <4>1, <4>2 DEF IInv, Stacks
      <4>4. PICK t \in Seq(Jobs) : t = Tail(s) /\ t # <<>> /\ Head(t) = s[2]
        <5>1. /\ Tail(s) \in Seq(Jobs) /\ Len(Tail(s)) = Len(s) - 1
              /\ \A k \in 1 .. Len(Tail(s)) : Tail(s)[k] = s[k + 1]
          BY <4>1, HeadTailProperties
        <5>2. PICK t \in Seq(Jobs) : t = Tail(s)
          BY <5>1
        <5>3. Len(t) >= 1 /\ t[1] = s[2]
          <6>1. 1 \in 1 .. Len(t) /\ 1 + 1 = 2
            BY <4>2, <5>1, <5>2
          <6> QED  BY <5>1, <5>2, <6>1
        <5>4. t # <<>> /\ Head(t) = t[1]
          BY <5>3
        <5> QED  BY <5>2, <5>3, <5>4
      <4>5. <<>> \o t = t
        BY <4>4, ConcatEmptySeq
      <4>6. worker' = [worker EXCEPT ![w].stack = t]
        BY <2>4, <3>3, <4>1, <4>4, <4>5 DEF EndJob, Becomes
      <4>7. worker'[w].stack = t
            /\ \A v \in Worker \ {w} : worker'[v] = worker[v]
        BY <4>6 DEF IInv, TypeOK
      <4> QED  BY <4>3, <4>4, <4>7 DEF Naming, At, Job
    <3> QED  BY <3>2, <3>3
  <2> QED  BY <2>1, <2>2, <2>3, <2>4 DEF WorkerQueue, QueueWorker
<1> QED  BY <1>1, <1>2, QuietData

LEMMA WriteSourceDataData ==
    ASSUME IInv, DataInv, NEW w \in Worker, WriteSourceData(w)
    PROVE  DataInv'
<1>1. Working(w) /\ Goto(w, "recursive")
  BY DEF WriteSourceData, At, Working
<1>2. PICK f \in File : f = Job(w).file
  BY <1>1, JobForm DEF IInv, Jobs
<1>3. /\ source_data' = [source_data EXCEPT ![f] = "real"]
      /\ described' = [described EXCEPT ![f] = @ + 1]
      /\ sources' = sources \cup {f}
      /\ UNCHANGED <<adder, source_data_map, preexisting, overtaken>>
  BY <1>2 DEF WriteSourceData, trackerVars
<1>4. /\ \A v \in Worker \ {w} : worker'[v] = worker[v]
      /\ ~Naming(w)'
  BY <1>1, GotoAt DEF Naming
<1>5. IDsFirst'
  <2>1. \A v \in Worker : Naming(v)' => Naming(v) /\ Job(v)' = Job(v)
    BY <1>4 DEF Naming, At, Job
  <2> QED  BY <1>3, <2>1 DEF DataInv, IDsFirst, Known, ThisFile
<1>6. \A g : OwesBlank(g)' => OwesBlank(g)
  BY <1>3, <1>4 DEF OwesBlank, Naming, At, Job, ThisFile
<1>7. /\ source_data' \in [File -> {"none", "blank", "real"}]
      /\ source_data'[f] = "real"
      /\ \A g \in File : g # f => /\ source_data'[g] = source_data[g]
                                  /\ described'[g] = described[g]
  BY <1>3 DEF DataInv, BlankBeforeReal, IInv, TypeOK
<1>8. BlankBeforeReal'
  BY <1>3, <1>6, <1>7 DEF DataInv, BlankBeforeReal, Known
<1> QED  BY <1>5, <1>8 DEF DataInv

(* Compressed data is named: as HashFile.                                  *)
LEMMA RecurseNameData ==
    ASSUME IInv, DataInv, NEW w \in Worker, RecurseName(w)
    PROVE  DataInv'
<1>1. PICK f \in File : f = Head(Job(w).embedded) /\ Job(w).embedded # <<>>
  <2>1. Working(w) /\ Job(w).embedded # <<>>
    BY DEF RecurseName, At, Working
  <2>2. PICK s \in Seq(Compressed) : s = Job(w).embedded
    BY <2>1, JobForm DEF IInv, Jobs
  <2>3. Head(s) \in Compressed
    BY <2>1, <2>2
  <2> QED  BY <2>1, <2>2, <2>3 DEF Compressed
<1>2. PICK l \in {"blank", "recurse"} :
         Goto(w, l) /\ (l = "blank" => f \notin sources)
  BY <1>1 DEF RecurseName, is_new_id
<1>3. /\ sources' = sources \cup {f} /\ Working(w)
      /\ UNCHANGED <<adder, source_data_map, preexisting, source_data,
                     described, overtaken>>
  BY <1>1 DEF RecurseName, At, Working, trackerVars
<1>4. /\ \A v \in Worker \ {w} : worker'[v] = worker[v]
      /\ \A k : At(w, k)' <=> k = l
      /\ Job(w)'.embedded = Job(w).embedded
  BY <1>1, <1>2, <1>3, GotoAt
<1>5. \A v \in Worker \ {w} : Job(v)' = Job(v) /\ \A k : At(v, k)' <=> At(v, k)
  BY <1>4 DEF At, Job
<1>6. IDsFirst'
  BY <1>1, <1>3, <1>4, <1>5 DEF DataInv, IDsFirst, Naming, Known, ThisFile
<1>7. \A g \in File : OwesBlank(g)' => OwesBlank(g) \/ ~Known(g)
  <2>1. f \notin sources => ~Known(f)
    BY DEF DataInv, IDsFirst
  <2> QED  BY <1>1, <1>2, <1>3, <1>4, <1>5, <2>1 DEF OwesBlank, ThisFile
<1>8. BlankBeforeReal'
  BY <1>3, <1>7 DEF DataInv, BlankBeforeReal, Known
<1> QED  BY <1>6, <1>8 DEF DataInv

LEMMA BlankRecursedData ==
    ASSUME IInv, DataInv, NEW w \in Worker, BlankRecursed(w)
    PROVE  DataInv'
<1>1. At(w, "blank") /\ Naming(w) /\ Working(w) /\ Job(w).embedded # <<>>
  BY DEF BlankRecursed, Naming, At, Working, IInv, Stacks
<1>2. PICK f \in File : f = Head(Job(w).embedded)
  BY <1>1, NamingForm
<1>3. /\ Goto(w, "recurse") /\ insert_blank(f)
      /\ UNCHANGED <<adder, source_data_map, preexisting, sources,
                     described, overtaken>>
  BY <1>2 DEF BlankRecursed, trackerVars
<1>4. /\ \A v \in Worker \ {w} : worker'[v] = worker[v]
      /\ \A k : At(w, k)' <=> k = "recurse"
      /\ Job(w)'.embedded = Job(w).embedded
  BY <1>1, <1>3, GotoAt
<1>5. \A v \in Worker \ {w} : Job(v)' = Job(v) /\ \A k : At(v, k)' <=> At(v, k)
  BY <1>4 DEF At, Job
<1>6. IDsFirst'
  BY <1>1, <1>3, <1>4, <1>5 DEF DataInv, IDsFirst, Naming, Known, ThisFile
<1>7. OwesBlank(f) /\ \A g \in File : OwesBlank(g)' => OwesBlank(g)
  BY <1>1, <1>2, <1>3, <1>4, <1>5 DEF OwesBlank, ThisFile
<1>8. BlankBeforeReal'
  BY <1>3, <1>7, BlankData
<1> QED  BY <1>6, <1>8 DEF DataInv

LEMMA RecurseData ==
    ASSUME IInv, DataInv, NEW w \in Worker, Recurse(w)
    PROVE  DataInv'
<1>1. Naming(w) /\ At(w, "recurse") /\ Working(w)
  BY DEF Recurse, Naming, At, Working
<1>2. PICK f \in File : f = Head(Job(w).embedded) /\ f \in Compressed
  BY <1>1, NamingForm
<1>3. PICK i, b :
         /\ i.pc = "hashes" /\ Becomes(w, <<i, b>>)
         /\ add_source(f, 1)
         /\ UNCHANGED <<adder, preexisting, sources, source_data, described>>
  <2>1. PICK b : b = [Job(w) EXCEPT !.pc = "recursive", !.embedded = Tail(@)]
    OBVIOUS
  <2>2. PICK i : /\ i = new_ingest_job(f, AllParts(f), Known(f),
                                       Job(w).recursion_depth + 1)
                 /\ i.pc = "hashes"
    <3>1. PICK d, n : d = Known(f) /\ n = Job(w).recursion_depth + 1
      OBVIOUS
    <3>2. PICK e : e = IF 1 \in AllParts(f) THEN Embedded[f] ELSE <<>>
      OBVIOUS
    <3>3. new_ingest_job(f, AllParts(f), d, n) =
             [pc |-> "hashes", file |-> f, parts |-> AllParts(f),
              disable_ingest_hashes |-> d, embedded |-> e,
              recursion_depth |-> n]
      BY <3>2 DEF new_ingest_job
    <3>4. new_ingest_job(f, AllParts(f), d, n).pc = "hashes"
      BY <3>3
    <3> QED  BY <3>1, <3>4
  <2>3. Becomes(w, <<i, b>>) /\ add_source(f, 1)
    BY <1>2, <2>1, <2>2 DEF Recurse
  <2> QED  BY <2>2, <2>3 DEF Recurse, dbVars
<1>4. PICK s \in Seq(Jobs) : s = worker[w].stack /\ s # <<>>
  BY <1>1, JobForm DEF IInv
<1>5. PICK t : t = <<i, b>> \o Tail(s)
  OBVIOUS
<1>6. worker'[w].stack = t /\ \A v \in Worker \ {w} : worker'[v] = worker[v]
  BY <1>3, <1>4, <1>5 DEF Becomes, IInv, TypeOK
<1>7. Job(w)' = i
  <2>1. Tail(s) \in Seq(Jobs)
    BY <1>4
  <2>2. PICK x \in Seq(Jobs) : x = Tail(s)
    BY <2>1
  <2>3. Head(<<i, b>> \o x) = i
    OBVIOUS
  <2> QED  BY <1>5, <1>6, <2>2, <2>3 DEF Job
<1>8. \A v \in Worker : Naming(v)' => v # w /\ Naming(v) /\ Job(v)' = Job(v)
  BY <1>3, <1>6, <1>7 DEF Naming, At, Job
<1>9. \A g : OwesBlank(g)' => OwesBlank(g)
  BY <1>3, <1>6, <1>7 DEF OwesBlank, At, Job, ThisFile
<1>10. f \in sources
  BY <1>1, <1>2 DEF DataInv, IDsFirst
<1>11. BlankBeforeReal' /\ \A g \in File : Known(g)' => g \in sources'
  BY <1>2, <1>3, <1>9, <1>10, AddedData
<1>12. IDsFirst'
  BY <1>3, <1>8, <1>11 DEF DataInv, IDsFirst, ThisFile
<1> QED  BY <1>11, <1>12 DEF DataInv

(* A new command, also after a crash: what has an ID is preexisting.       *)
LEMMA NewCommandData ==
    ASSUME IInv, DataInv, NewCommand
    PROVE  DataInv'
<1>1. /\ \A f \in File : Known(f)' => f \in sources
      /\ adder'.pc = "file" /\ \A w \in Worker : worker'[w].pc = "is_done"
      /\ UNCHANGED <<sources, source_data, described, overtaken>>
  BY DEF NewCommand, Known, Untracked, Waiting, dbVars
<1>2. \A f : ~OwesBlank(f)'
  BY <1>1 DEF OwesBlank, At
<1>3. IDsFirst'
  BY <1>1 DEF IDsFirst, Naming, At
<1>4. BlankBeforeReal'
  BY <1>1, <1>2 DEF DataInv, BlankBeforeReal
<1> QED  BY <1>3, <1>4 DEF DataInv

(* Every step of every thread, a new command and a crash.                  *)
LEMMA NextData ==
    ASSUME IInv, DataInv, [Next \/ Crash]_vars
    PROVE  DataInv'
<1>1. CASE Adder
  BY <1>1, AdderQuietData, HashFileData, BlankFileData, AddSourceData
     DEF Adder
<1>2. ASSUME NEW w \in Worker, WorkerStep(w) PROVE DataInv'
  BY <1>2, WorkerQuietData, WriteSourceDataData, RecurseNameData,
     BlankRecursedData, RecurseData DEF WorkerStep
<1>3. CASE UNCHANGED vars
  <2>1. /\ UNCHANGED <<source_data, described, overtaken, sources>>
        /\ UNCHANGED <<source_data_map, preexisting, adder, worker>>
    BY <1>3 DEF vars, trackerVars, dbVars
  <2>2. \A f \in File : Known(f)' => Known(f)
    BY <2>1 DEF Known
  <2> QED  BY <2>1, <2>2, QuietData
<1> QED  BY <1>1, <1>2, <1>3, NewCommandData
            DEF Next, Step, IngestAgain, Crash

(* When a command ends, every file that it could read and what was         *)
(* compressed in it is in the database with its source data, which only    *)
(* for content found in compressed data, and added by one thread while     *)
(* another owed its blank record, may be that blank record                 *)
(* (libhashdb.cpp:303).                                                    *)
THEOREM EverythingIsIngested == CrashSpec => []IngestCompletes
<1>1. Init => Progress
  <2> SUFFICES ASSUME Init PROVE Progress
    OBVIOUS
  <2>1. adder = [pc |-> "file", k |-> 1]
        /\ source_data_map = [f \in File |-> Untracked]
    BY DEF Init
  <2>2. AllStarted
    BY <2>1 DEF AllStarted
  <2>3. StartedFiles = {}
    BY <2>1, IngestAssumption DEF StartedFiles, Started, Pushing
  <2>4. \A f \in File : ~Tracked(f)
    BY <2>1 DEF Tracked, Untracked
  <2> QED  BY <2>2, <2>3, <2>4
              DEF Progress, StartedIsKnown, NothingLeftOut, FullIsDescribed
<1>2. IInv /\ Progress /\ [Next \/ Crash]_vars => Progress'
  BY NextProgress
<1>3. Init => DataInv
  BY InitData
<1>4. IInv /\ DataInv /\ [Next \/ Crash]_vars => DataInv'
  BY NextData
<1>5. IInv /\ Progress /\ DataInv => IngestCompletes
  <2> SUFFICES ASSUME IInv, Progress, DataInv, adder.pc = "joined",
                      NEW f \in NamedFiles \ failed,
                      NEW g \in ({f} \cup (FoundIn(f) \ failed)) \ preexisting
               PROVE  /\ Complete(g) /\ described[g] = 1
                      /\ \/ source_data[g] = "real"
                         \/ /\ source_data[g] = "blank"
                            /\ g \in overtaken \cap Compressed
    BY DEF IngestCompletes
  <2>1. Complete(g) /\ described[g] = 1
    BY EndIsComplete
  <2>2. g \in File
    BY IngestAssumption DEF NamedFiles, FoundIn
  <2> QED  BY <2>1, <2>2 DEF DataInv, BlankBeforeReal
<1> QED  BY <1>1, <1>2, <1>3, <1>4, <1>5, Invariance, PTL DEF CrashSpec
=============================================================================
