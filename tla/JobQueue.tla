------------------------------ MODULE JobQueue ------------------------------
(***************************************************************************)
(* The job queue and the thread pool that ingest and scan_media share: one *)
(* thread, the adder, pushes jobs; each worker runs jobs until the queue   *)
(* is done.  push reads the size and adds the job under two separate       *)
(* locks, and run calls is_done and pop under two separate locks, so these *)
(* are separate steps.  A spin with sched_yield leaves the state as it is. *)
(*                                                                         *)
(* What the adder does between two pushes, and what a worker does with a   *)
(* job, is in the modules that extend this one: the adder is handed over   *)
(* with pc = "pushed", a worker with pc = "work".                          *)
(***************************************************************************)
EXTENDS Naturals, Sequences

CONSTANTS
    Worker,         \* the threads of the pool
    max_queue_size  \* the queue holds this many jobs

ASSUME JobQueueAssumption ==
    /\ Worker # {}
    /\ max_queue_size \in Nat \ {0}

VARIABLES
    job_queue,       \* the jobs in the queue, first in first out
    is_done_adding,  \* no job will be pushed any more
    adder,           \* the adder's pc and locals
    worker           \* worker[w]: pc and stack of jobs (a job may nest jobs)

queueVars == <<job_queue, is_done_adding>>

Waiting == [pc |-> "is_done", stack |-> <<>>]

(* push: wait until the queue has space. *)
push_size ==
    /\ adder.pc = "size"
    /\ Len(job_queue) < max_queue_size
    /\ adder' = [adder EXCEPT !.pc = "push"]
    /\ UNCHANGED <<job_queue, is_done_adding, worker>>

(* A faulty variant of the next definition. *)
push_job_Overwrites ==
    /\ adder.pc = "push"
    /\ job_queue' = <<adder.job>>
    /\ adder' = [adder EXCEPT !.pc = "pushed"]
    /\ UNCHANGED <<is_done_adding, worker>>

(* push: add the job. *)
push_job ==
    /\ adder.pc = "push"
    /\ job_queue' = Append(job_queue, adder.job)
    /\ adder' = [adder EXCEPT !.pc = "pushed"]
    /\ UNCHANGED <<is_done_adding, worker>>

(* A faulty variant of the next definition. *)
done_adding_NotSet ==
    /\ adder.pc = "no_more"
    /\ adder' = [adder EXCEPT !.pc = "joining"]
    /\ UNCHANGED <<job_queue, is_done_adding, worker>>

(* done_adding, then the destructor of the thread pool waits for the       *)
(* workers.                                                                *)
done_adding ==
    /\ adder.pc = "no_more"
    /\ is_done_adding' = TRUE
    /\ adder' = [adder EXCEPT !.pc = "joining"]
    /\ UNCHANGED <<job_queue, worker>>

join ==
    /\ adder.pc = "joining"
    /\ \A w \in Worker : worker[w].pc = "exit"
    /\ adder' = [adder EXCEPT !.pc = "joined"]
    /\ UNCHANGED <<job_queue, is_done_adding, worker>>

(* A faulty variant of the next definition. *)
is_done_IgnoresQueue(w) ==
    /\ worker[w].pc = "is_done"
    /\ worker' = [worker EXCEPT ![w].pc =
                     IF is_done_adding THEN "exit" ELSE "pop"]
    /\ UNCHANGED <<job_queue, is_done_adding, adder>>

is_done(w) ==
    /\ worker[w].pc = "is_done"
    /\ worker' = [worker EXCEPT ![w].pc =
                     IF is_done_adding /\ job_queue = <<>> THEN "exit"
                                                           ELSE "pop"]
    /\ UNCHANGED <<job_queue, is_done_adding, adder>>

(* pop, and "queue is active but empty" when it returns NULL.              *)
pop(w) ==
    /\ worker[w].pc = "pop"
    /\ IF job_queue = <<>>
       THEN /\ worker' = [worker EXCEPT ![w].pc = "is_done"]
            /\ UNCHANGED job_queue
       ELSE /\ worker' = [worker EXCEPT
                             ![w] = [pc |-> "work",
                                     stack |-> <<Head(job_queue)>>]]
            /\ job_queue' = Tail(job_queue)
    /\ UNCHANGED <<is_done_adding, adder>>

QueueInit ==
    /\ job_queue = <<>>
    /\ is_done_adding = FALSE
    /\ worker = [w \in Worker |-> Waiting]

(* The steps of the queue itself. *)
QueueAdder == push_size \/ push_job \/ done_adding \/ join
QueueWorker(w) == is_done(w) \/ pop(w)

(* The worker has run its job. *)
Finished(w) == worker' = [worker EXCEPT ![w] = Waiting]

-----------------------------------------------------------------------------
(* The destructor of the queue meets "program error if queue is not        *)
(* empty" when the workers were joined and a job is left in it.            *)
QueueDrained == adder.pc = "joined" => job_queue = <<>>
=============================================================================
