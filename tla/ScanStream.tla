----------------------------- MODULE ScanStream -----------------------------
(***************************************************************************)
(* scan_stream_t: the caller puts arrays of unscanned data in, the scan    *)
(* threads scan them and put the results back, and the caller gets the     *)
(* results.  Each queue operation holds the queue's mutex and is one step. *)
(*                                                                         *)
(* An array is what its scan gives: nothing, when no hash in it matches or *)
(* the array is cut short, or a result.  (put_unscanned drops an empty     *)
(* array; that call changes nothing.)                                      *)
(***************************************************************************)
EXTENDS Integers, Sequences, FiniteSets

CONSTANTS
    Thread,    \* the scan threads
    Array,     \* the arrays that the caller puts, each once
    Matching   \* the arrays that give a result that is not empty

ASSUME ScanStreamAssumption ==
    /\ Matching \subseteq Array
    /\ IsFiniteSet(Array)
    /\ IsFiniteSet(Thread)

VARIABLES
    unscanned, scanned,   \* the two queues
    unscanned_submitted,  \* number of arrays put
    scanned_submitted,    \* number of results put back
    done,                 \* the stream is being closed
    thread,               \* thread[t]: pc, and the array it scans
    caller,               \* what the caller does next
    received,             \* the results that get returned, in order
    submitted             \* history: the arrays that were put

queue == <<unscanned, scanned, unscanned_submitted, scanned_submitted>>
vars == <<queue, done, thread, caller, received, submitted>>

Init ==
    /\ unscanned = <<>> /\ scanned = <<>>
    /\ unscanned_submitted = 0 /\ scanned_submitted = 0
    /\ done = FALSE
    /\ thread = [t \in Thread |-> [pc |-> "loop"]]
    /\ caller = "open"
    /\ received = <<>>
    /\ submitted = {}

(* A faulty variant of the next definition. *)
empty_QueuesOnly == unscanned = <<>> /\ scanned = <<>>

empty ==
    /\ unscanned = <<>>
    /\ scanned = <<>>
    /\ unscanned_submitted = scanned_submitted

-----------------------------------------------------------------------------
(***************************************************************************)
(* The caller.                                                             *)
(***************************************************************************)
put(a) ==
    /\ caller \in {"open", "drained"}
    /\ a \notin submitted
    /\ submitted' = submitted \cup {a}
    /\ unscanned' = Append(unscanned, a)
    /\ unscanned_submitted' = unscanned_submitted + 1
    /\ caller' = "open"
    /\ UNCHANGED <<scanned, scanned_submitted, done, thread, received>>

(* A faulty variant of the next definition. *)
get_Peeks ==
    /\ caller = "open"
    /\ scanned # <<>>
    /\ received' = Append(received, Head(scanned))
    /\ UNCHANGED <<queue, done, thread, caller, submitted>>

(* get returns a result; when it returns "" nothing changes. *)
get ==
    /\ caller = "open"
    /\ scanned # <<>>
    /\ received' = Append(received, Head(scanned))
    /\ scanned' = Tail(scanned)
    /\ UNCHANGED <<unscanned, unscanned_submitted, scanned_submitted, done,
                   thread, caller, submitted>>

(* The caller sees empty() = true. *)
see_empty ==
    /\ caller = "open"
    /\ empty
    /\ caller' = "drained"
    /\ UNCHANGED <<queue, done, thread, received, submitted>>

(* The destructor: tell the threads, and wait for them. *)
close ==
    /\ caller = "drained"
    /\ done' = TRUE
    /\ caller' = "closing"
    /\ UNCHANGED <<queue, thread, received, submitted>>

join ==
    /\ caller = "closing"
    /\ \A t \in Thread : thread[t].pc = "exit"
    /\ caller' = "closed"
    /\ UNCHANGED <<queue, done, thread, received, submitted>>

-----------------------------------------------------------------------------
(***************************************************************************)
(* A scan thread: run.                                                     *)
(***************************************************************************)
loop(t) ==
    /\ thread[t].pc = "loop"
    /\ thread' = [thread EXCEPT ![t].pc = IF done THEN "exit" ELSE "get"]
    /\ UNCHANGED <<queue, done, caller, received, submitted>>

get_unscanned(t) ==
    /\ thread[t].pc = "get"
    /\ IF unscanned = <<>>
       THEN /\ thread' = [thread EXCEPT ![t] = [pc |-> "loop"]]
            /\ UNCHANGED unscanned
       ELSE /\ thread' = [thread EXCEPT
                             ![t] = [pc |-> "scan", array |-> Head(unscanned)]]
            /\ unscanned' = Tail(unscanned)
    /\ UNCHANGED <<scanned, unscanned_submitted, scanned_submitted, done,
                   caller, received, submitted>>

scan(t) ==
    /\ thread[t].pc = "scan"
    /\ thread' = [thread EXCEPT ![t].pc = "put"]
    /\ UNCHANGED <<queue, done, caller, received, submitted>>

(* Faulty variants of the next definition: an empty result is dropped      *)
(* before it is counted; the wrong results are dropped.                    *)
put_scanned_CountsResults(t) ==
    LET a == thread[t].array IN
    /\ thread[t].pc = "put"
    /\ scanned_submitted' = IF a \in Matching THEN scanned_submitted + 1
                            ELSE scanned_submitted
    /\ scanned' = IF a \in Matching THEN Append(scanned, a) ELSE scanned
    /\ thread' = [thread EXCEPT ![t] = [pc |-> "loop"]]
    /\ UNCHANGED <<unscanned, unscanned_submitted, done, caller, received,
                   submitted>>

put_scanned_DropsResults(t) ==
    LET a == thread[t].array IN
    /\ thread[t].pc = "put"
    /\ scanned_submitted' = scanned_submitted + 1
    /\ scanned' = IF a \in Matching THEN scanned ELSE Append(scanned, a)
    /\ thread' = [thread EXCEPT ![t] = [pc |-> "loop"]]
    /\ UNCHANGED <<unscanned, unscanned_submitted, done, caller, received,
                   submitted>>

(* The result is counted "even if empty", and pushed if it is not.         *)
put_scanned(t) ==
    LET a == thread[t].array IN
    /\ thread[t].pc = "put"
    /\ scanned_submitted' = scanned_submitted + 1
    /\ scanned' = IF a \in Matching THEN Append(scanned, a) ELSE scanned
    /\ thread' = [thread EXCEPT ![t] = [pc |-> "loop"]]
    /\ UNCHANGED <<unscanned, unscanned_submitted, done, caller, received,
                   submitted>>

Run(t) == loop(t) \/ get_unscanned(t) \/ scan(t) \/ put_scanned(t)

Next ==
    \/ \E a \in Array : put(a)
    \/ get \/ see_empty \/ close \/ join
    \/ \E t \in Thread : Run(t)

(* The scan threads are scheduled again and again, and the caller gets     *)
(* results until empty() is true and then closes the stream.               *)
Fairness ==
    /\ \A t \in Thread : WF_vars(Run(t))
    /\ WF_vars(get) /\ WF_vars(see_empty) /\ WF_vars(close) /\ WF_vars(join)

Spec == Init /\ [][Next]_vars /\ Fairness

-----------------------------------------------------------------------------
In(s) == {s[k] : k \in 1 .. Len(s)}

BusyThreads == {t \in Thread : thread[t].pc \in {"scan", "put"}}

ThreadState == [pc : {"loop", "get", "exit"}]
               \cup [pc : {"scan", "put"}, array : Array]

(* The queues hold arrays and the counters count.                          *)
TypeOK ==
    /\ unscanned \in Seq(Array)
    /\ scanned \in Seq(Array)
    /\ received \in Seq(Array)
    /\ unscanned_submitted \in Nat
    /\ scanned_submitted \in Nat
    /\ done \in BOOLEAN
    /\ thread \in [Thread -> ThreadState]
    /\ caller \in {"open", "drained", "closing", "closed"}
    /\ submitted \subseteq Array

(***************************************************************************)
(* empty(): "there is no scanned data available to retrieve, no unscanned  *)
(* data scheduled for scanning, and the scanner threads are not busy".  A  *)
(* thread that holds an array is in neither queue; only the two counters   *)
(* tell.  So every result has reached the caller.                          *)
(***************************************************************************)
EmptyMeansDone ==
    empty => /\ BusyThreads = {}
             /\ submitted \cap Matching \subseteq In(received)

(***************************************************************************)
(* A result reaches the caller once, and only for an array that was put.   *)
(***************************************************************************)
ReceivedOnce ==
    /\ In(received) \subseteq submitted \cap Matching
    /\ \A j, k \in 1 .. Len(received) : received[j] = received[k] => j = k

(***************************************************************************)
(* Every array that matches reaches the caller as a result, and the caller *)
(* sees empty() = true in the end and all threads stop: the counter of     *)
(* results also counts those that are empty (scan_queue.hpp:134).          *)
(***************************************************************************)
Delivered ==
    /\ \A a \in Matching : a \in submitted ~> a \in In(received)
    /\ <>(caller = "closed")
=============================================================================
