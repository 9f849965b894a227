-------------------------- MODULE ScanStreamProofs --------------------------
(***************************************************************************)
(* Proofs about ScanStream, for any number of scan threads and of arrays.  *)
(***************************************************************************)
EXTENDS ScanStream, FiniteSetTheorems, SequenceTheorems, TLAPS

(* An array that was put and not yet counted as scanned is in the queue or *)
(* with a thread: the counters differ by exactly those.                    *)
CountersAgree ==
    unscanned_submitted =
        scanned_submitted + Len(unscanned) + Cardinality(BusyThreads)

(* The arrays that the threads hold. *)
Held == {thread[t].array : t \in BusyThreads}

(* Where an array that gives a result can be.                              *)
Somewhere == In(unscanned) \cup Held \cup In(scanned) \cup In(received)

NothingLost == submitted \cap Matching \subseteq Somewhere

(* The inductive invariant. *)
IInv == TypeOK /\ CountersAgree /\ NothingLost

-----------------------------------------------------------------------------
(* What the queue operations do to the elements of a queue. *)
LEMMA InAppend ==
    ASSUME NEW S, NEW s \in Seq(S), NEW a \in S
    PROVE  /\ Append(s, a) \in Seq(S)
           /\ Len(Append(s, a)) = Len(s) + 1
           /\ In(Append(s, a)) = In(s) \cup {a}
BY DEF In

(* The elements of a queue are its head and those of its tail. *)
LEMMA InTail ==
    ASSUME NEW S, NEW s \in Seq(S), s # <<>>
    PROVE  /\ Head(s) \in S
           /\ Tail(s) \in Seq(S)
           /\ Len(Tail(s)) = Len(s) - 1
           /\ Len(s) \in Nat \ {0}
           /\ In(s) = In(Tail(s)) \cup {Head(s)}
<1>1. /\ Head(s) \in S /\ Tail(s) \in Seq(S) /\ Len(Tail(s)) = Len(s) - 1
      /\ Len(s) \in Nat \ {0} /\ Head(s) = s[1]
      /\ \A k \in 1 .. Len(s) - 1 : Tail(s)[k] = s[k + 1]
  BY HeadTailProperties, EmptySeq
<1>2. In(Tail(s)) \cup {Head(s)} \subseteq In(s)
  BY <1>1 DEF In
<1>3. ASSUME NEW k \in 1 .. Len(s) PROVE s[k] \in In(Tail(s)) \cup {Head(s)}
  <2>1. CASE k = 1
    BY <1>1, <2>1
  <2>2. CASE k # 1
    <3>1. k - 1 \in 1 .. Len(s) - 1 /\ Tail(s)[k - 1] = s[k]
      BY <1>1, <2>2
    <3>2. QED
      BY <1>1, <3>1 DEF In
  <2>3. QED
    BY <2>1, <2>2
<1>4. QED
  BY <1>1, <1>2, <1>3 DEF In

(* The threads that hold an array can be counted. *)
LEMMA BusyFinite ==
    /\ IsFiniteSet(BusyThreads)
    /\ Cardinality(BusyThreads) \in Nat
<1>1. BusyThreads \subseteq Thread
  BY DEF BusyThreads
<1>2. QED
  BY <1>1, ScanStreamAssumption, FS_Subset, FS_CardinalityType

(* A step that leaves the queues, the counters and the histories alone and *)
(* no thread's array changes keeps the invariant.                          *)
LEMMA QuietStep ==
    ASSUME IInv, TypeOK', UNCHANGED <<queue, received, submitted>>,
           BusyThreads' = BusyThreads,
           \A t \in BusyThreads : thread'[t].array = thread[t].array
    PROVE  IInv'
<1>1. Held' = Held
  BY DEF Held
<1>2. CountersAgree' /\ NothingLost'
  BY <1>1 DEF IInv, CountersAgree, NothingLost, Somewhere, queue
<1>3. QED
  BY <1>2 DEF IInv

-----------------------------------------------------------------------------
(* The queues start empty and no thread holds an array. *)
LEMMA InitIInv == Init => IInv
<1> SUFFICES ASSUME Init PROVE IInv
  OBVIOUS
<1>1. BusyThreads = {}
  BY DEF Init, BusyThreads
<1>2. TypeOK
  <2>1. [pc |-> "loop"] \in ThreadState
    BY DEF ThreadState
  <2>2. thread \in [Thread -> ThreadState]
    BY <2>1 DEF Init
  <2>3. <<>> \in Seq(Array)
    OBVIOUS
  <2>4. QED
    BY <2>2, <2>3 DEF Init, TypeOK
<1>3. CountersAgree
  BY <1>1, FS_EmptySet DEF Init, CountersAgree
<1>4. NothingLost
  BY DEF Init, NothingLost
<1>5. QED
  BY <1>2, <1>3, <1>4 DEF IInv

(* put counts the array that it appends. *)
LEMMA PutIInv == ASSUME IInv, NEW a \in Array, put(a) PROVE IInv'
<1>1. /\ unscanned' \in Seq(Array) /\ Len(unscanned') = Len(unscanned) + 1
      /\ In(unscanned') = In(unscanned) \cup {a}
  BY InAppend DEF IInv, TypeOK, put
<1>2. BusyThreads' = BusyThreads /\ Held' = Held
  BY DEF put, BusyThreads, Held
<1>3. TypeOK'
  BY <1>1 DEF IInv, TypeOK, put
<1>4. CountersAgree'
  BY <1>1, <1>2, BusyFinite DEF IInv, TypeOK, CountersAgree, put
<1>5. NothingLost'
  BY <1>1, <1>2 DEF IInv, NothingLost, Somewhere, put, In
<1>6. QED
  BY <1>3, <1>4, <1>5 DEF IInv

(* get moves a result from the queue to the caller. *)
LEMMA GetIInv == ASSUME IInv, get PROVE IInv'
<1>1. /\ scanned \in Seq(Array) /\ scanned # <<>> /\ received \in Seq(Array)
      /\ scanned' = Tail(scanned)
      /\ received' = Append(received, Head(scanned))
  BY DEF IInv, TypeOK, get
<1>2. /\ Head(scanned) \in Array /\ scanned' \in Seq(Array)
      /\ In(scanned) = In(scanned') \cup {Head(scanned)}
  BY <1>1, InTail
<1>3. /\ received' \in Seq(Array)
      /\ In(received') = In(received) \cup {Head(scanned)}
  BY <1>1, <1>2, InAppend
<1>4. BusyThreads' = BusyThreads /\ Held' = Held
  BY DEF get, BusyThreads, Held
<1>5. TypeOK'
  BY <1>2, <1>3 DEF IInv, TypeOK, get
<1>6. CountersAgree'
  BY <1>4 DEF IInv, CountersAgree, get
<1>7. NothingLost'
  <2>1. Somewhere' = In(unscanned)' \cup Held'
                       \cup In(scanned') \cup In(received')
    BY DEF Somewhere, In
  <2>2. In(unscanned)' = In(unscanned)
    BY DEF get, In
  <2>3. Somewhere \subseteq Somewhere'
    BY <1>2, <1>3, <1>4, <2>1, <2>2 DEF Somewhere
  <2>4. QED
    BY <2>3 DEF IInv, NothingLost, get
<1>8. QED
  BY <1>5, <1>6, <1>7 DEF IInv

(* The other steps of the caller touch neither queues nor threads. *)
LEMMA CallerIInv ==
    ASSUME IInv, see_empty \/ close \/ join
    PROVE  IInv'
<1>1. UNCHANGED <<queue, thread, received, submitted>>
  BY DEF see_empty, close, join
<1>2. TypeOK'
  BY <1>1 DEF IInv, TypeOK, queue, see_empty, close, join
<1>3. BusyThreads' = BusyThreads
  BY <1>1 DEF BusyThreads
<1>4. QED
  BY <1>1, <1>2, <1>3, QuietStep

(* A thread is idle, or holds an array. *)
LEMMA ThreadForms ==
    ASSUME TypeOK, NEW t \in Thread
    PROVE  /\ thread[t].pc \in {"loop", "get", "exit"} =>
                 thread[t] \in [pc : {"loop", "get", "exit"}]
           /\ thread[t].pc \in {"scan", "put"} =>
                 thread[t] \in [pc : {"scan", "put"}, array : Array]
BY DEF TypeOK, ThreadState

(* A thread leaves the loop only to ask for an array, or for good. *)
LEMMA LoopIInv == ASSUME IInv, NEW t \in Thread, loop(t) PROVE IInv'
<1> DEFINE next == IF done THEN "exit" ELSE "get"
<1>1. thread[t] \in [pc : {"loop", "get", "exit"}]
  BY ThreadForms DEF IInv, loop
<1>2. /\ thread \in [Thread -> ThreadState]
      /\ thread' = [thread EXCEPT ![t].pc = next]
      /\ next \in {"exit", "get"}
      /\ UNCHANGED <<queue, done, caller, received, submitted>>
  BY DEF IInv, TypeOK, loop
<1> HIDE DEF next
<1>3. /\ thread'[t].pc = next
      /\ thread'[t] \in [pc : {"loop", "get", "exit"}]
      /\ \A u \in Thread \ {t} : thread'[u] = thread[u]
  BY <1>1, <1>2
<1>4. thread' \in [Thread -> ThreadState]
  BY <1>2, <1>3 DEF ThreadState
<1>5. TypeOK'
  BY <1>2, <1>4 DEF IInv, TypeOK, queue
<1>6. t \notin BusyThreads /\ t \notin BusyThreads'
  BY <1>2, <1>3 DEF loop, BusyThreads
<1>7. BusyThreads' = BusyThreads
  BY <1>3, <1>6 DEF BusyThreads
<1>8. \A u \in BusyThreads : thread'[u].array = thread[u].array
  BY <1>3, <1>6 DEF BusyThreads
<1>9. QED
  BY <1>2, <1>5, <1>7, <1>8, QuietStep

(* scan keeps the array. *)
LEMMA ScanIInv == ASSUME IInv, NEW t \in Thread, scan(t) PROVE IInv'
<1>1. thread[t] \in [pc : {"scan", "put"}, array : Array]
  BY ThreadForms DEF IInv, scan
<1>2. /\ thread \in [Thread -> ThreadState]
      /\ thread' = [thread EXCEPT ![t].pc = "put"]
      /\ UNCHANGED <<queue, done, caller, received, submitted>>
  BY DEF IInv, TypeOK, scan
<1>3. /\ thread'[t].pc = "put" /\ thread'[t].array = thread[t].array
      /\ thread'[t] \in [pc : {"scan", "put"}, array : Array]
      /\ \A u \in Thread \ {t} : thread'[u] = thread[u]
  BY <1>1, <1>2
<1>4. thread' \in [Thread -> ThreadState]
  BY <1>2, <1>3 DEF ThreadState
<1>5. TypeOK'
  BY <1>2, <1>4 DEF IInv, TypeOK, queue
<1>6. t \in BusyThreads /\ t \in BusyThreads'
  BY <1>3 DEF scan, BusyThreads
<1>7. BusyThreads' = BusyThreads
  BY <1>3, <1>6 DEF BusyThreads
<1>8. \A u \in BusyThreads : thread'[u].array = thread[u].array
  BY <1>3 DEF BusyThreads
<1>9. QED
  BY <1>2, <1>5, <1>7, <1>8, QuietStep

(* get_unscanned moves an array from the queue to the thread, if there is  *)
(* one.                                                                    *)
LEMMA GetUnscannedIInv ==
    ASSUME IInv, NEW t \in Thread, get_unscanned(t) PROVE IInv'
<1>0. /\ thread \in [Thread -> ThreadState] /\ unscanned \in Seq(Array)
      /\ thread[t].pc = "get" /\ t \notin BusyThreads
      /\ UNCHANGED <<scanned, unscanned_submitted, scanned_submitted, done,
                     caller, received, submitted>>
  BY DEF IInv, TypeOK, get_unscanned, BusyThreads
<1>1. CASE unscanned = <<>>
  <2>1. /\ thread' = [thread EXCEPT ![t] = [pc |-> "loop"]]
        /\ UNCHANGED unscanned
    BY <1>1 DEF get_unscanned
  <2>2. [pc |-> "loop"] \in ThreadState
    BY DEF ThreadState
  <2>3. thread' \in [Thread -> ThreadState] /\ thread'[t].pc = "loop"
        /\ \A u \in Thread \ {t} : thread'[u] = thread[u]
    BY <1>0, <2>1, <2>2
  <2>4. TypeOK'
    BY <1>0, <2>1, <2>3 DEF IInv, TypeOK
  <2>5. BusyThreads' = BusyThreads
    BY <1>0, <2>3 DEF BusyThreads
  <2>6. \A u \in BusyThreads : thread'[u].array = thread[u].array
    BY <1>0, <2>3 DEF BusyThreads
  <2>7. QED
    BY <1>0, <2>1, <2>4, <2>5, <2>6, QuietStep DEF queue
<1>2. CASE unscanned # <<>>
  <2> DEFINE a == Head(unscanned)
  <2>1. /\ thread' = [thread EXCEPT ![t] = [pc |-> "scan", array |-> a]]
        /\ unscanned' = Tail(unscanned)
    BY <1>2 DEF get_unscanned
  <2>2. /\ a \in Array /\ unscanned' \in Seq(Array)
        /\ Len(unscanned') = Len(unscanned) - 1 /\ Len(unscanned) \in Nat \ {0}
        /\ In(unscanned) = In(unscanned') \cup {a}
    BY <1>0, <1>2, <2>1, InTail
  <2> HIDE DEF a
  <2>3. [pc |-> "scan", array |-> a] \in ThreadState
    BY <2>2 DEF ThreadState
  <2>4. /\ thread' \in [Thread -> ThreadState]
        /\ thread'[t].pc = "scan" /\ thread'[t].array = a
        /\ \A u \in Thread \ {t} : thread'[u] = thread[u]
    BY <1>0, <2>1, <2>3
  <2>5. TypeOK'
    BY <1>0, <2>2, <2>4 DEF IInv, TypeOK
  <2>6. BusyThreads' = BusyThreads \cup {t}
    BY <1>0, <2>4 DEF BusyThreads
  <2>7. Cardinality(BusyThreads') = Cardinality(BusyThreads) + 1
    BY <1>0, <2>6, BusyFinite, FS_AddElement
  <2>8. CountersAgree'
    BY <1>0, <2>2, <2>7, BusyFinite DEF IInv, TypeOK, CountersAgree
  <2>9. Held' = Held \cup {a}
    <3>1. \A u \in BusyThreads : thread'[u].array = thread[u].array
      BY <1>0, <2>4 DEF BusyThreads
    <3>2. QED
      BY <2>4, <2>6, <3>1 DEF Held
  <2>10. Somewhere \subseteq Somewhere'
    <3>1. Somewhere' = In(unscanned') \cup Held'
                         \cup In(scanned') \cup In(received')
      BY DEF Somewhere, In
    <3>2. QED
      BY <1>0, <2>2, <2>9, <3>1 DEF Somewhere
  <2>11. NothingLost'
    BY <1>0, <2>10 DEF IInv, NothingLost
  <2>12. QED
    BY <2>5, <2>8, <2>11 DEF IInv
<1>3. QED
  BY <1>1, <1>2

(* put_scanned counts the thread's array and pushes what it gives. *)
LEMMA PutScannedIInv ==
    ASSUME IInv, NEW t \in Thread, put_scanned(t) PROVE IInv'
<1> DEFINE a == thread[t].array
<1>1. thread[t] \in [pc : {"scan", "put"}, array : Array]
  BY ThreadForms DEF IInv, put_scanned
<1>2. /\ a \in Array /\ thread \in [Thread -> ThreadState]
      /\ t \in BusyThreads /\ scanned \in Seq(Array)
      /\ scanned_submitted' = scanned_submitted + 1
      /\ scanned' = IF a \in Matching THEN Append(scanned, a) ELSE scanned
      /\ thread' = [thread EXCEPT ![t] = [pc |-> "loop"]]
      /\ UNCHANGED <<unscanned, unscanned_submitted, done, caller, received,
                     submitted>>
  BY <1>1 DEF IInv, TypeOK, put_scanned, BusyThreads
<1> HIDE DEF a
<1>3. /\ scanned' \in Seq(Array)
      /\ In(scanned) \subseteq In(scanned')
      /\ a \in Matching => a \in In(scanned')
  BY <1>2, InAppend
<1>4. [pc |-> "loop"] \in ThreadState
  BY DEF ThreadState
<1>5. /\ thread' \in [Thread -> ThreadState] /\ thread'[t].pc = "loop"
      /\ \A u \in Thread \ {t} : thread'[u] = thread[u]
  BY <1>2, <1>4
<1>6. TypeOK'
  BY <1>2, <1>3, <1>5 DEF IInv, TypeOK
<1>7. BusyThreads' = BusyThreads \ {t}
  BY <1>2, <1>5 DEF BusyThreads
<1>8. Cardinality(BusyThreads') = Cardinality(BusyThreads) - 1
  BY <1>2, <1>7, BusyFinite, FS_RemoveElement
<1>9. CountersAgree'
  <2>1. Len(unscanned) \in Nat
    BY DEF IInv, TypeOK
  <2>2. QED
    BY <1>2, <1>8, <2>1, BusyFinite DEF IInv, TypeOK, CountersAgree
<1>10. Held \subseteq Held' \cup {a}
  <2>1. \A u \in BusyThreads \ {t} : thread'[u].array = thread[u].array
    BY <1>5 DEF BusyThreads
  <2>2. QED
    BY <1>7, <2>1 DEF Held, a
<1>11. NothingLost'
  <2>1. Somewhere' = In(unscanned') \cup Held'
                       \cup In(scanned') \cup In(received')
    BY DEF Somewhere, In
  <2>2. Somewhere \cap Matching \subseteq Somewhere'
    BY <1>2, <1>3, <1>10, <2>1 DEF Somewhere
  <2>3. QED
    BY <1>2, <2>2 DEF IInv, NothingLost
<1>12. QED
  BY <1>6, <1>9, <1>11 DEF IInv

(* Every step keeps the invariant. *)
LEMMA NextIInv == IInv /\ [Next]_vars => IInv'
<1>1. ASSUME IInv, Next PROVE IInv'
  BY <1>1, PutIInv, GetIInv, CallerIInv, LoopIInv, GetUnscannedIInv, ScanIInv,
     PutScannedIInv
  DEF Next, Run
<1>2. ASSUME IInv, UNCHANGED vars PROVE IInv'
  <2>1. UNCHANGED <<queue, done, thread, caller, received, submitted>>
    BY <1>2 DEF vars
  <2>2. TypeOK' /\ BusyThreads' = BusyThreads
    BY <1>2, <2>1 DEF IInv, TypeOK, BusyThreads, queue
  <2>3. QED
    BY <1>2, <2>1, <2>2, QuietStep
<1>3. QED
  BY <1>1, <1>2

(* The invariant holds in every reachable state. *)
LEMMA Invariance == Spec => []IInv
BY InitIInv, NextIInv, PTL DEF Spec

(* The counters never disagree with the queues and the threads: counting   *)
(* every result "even if empty" is what makes empty() right.               *)
LEMMA EmptyFromIInv == IInv => EmptyMeansDone
<1> SUFFICES ASSUME IInv, empty
             PROVE  /\ BusyThreads = {}
                    /\ submitted \cap Matching \subseteq In(received)
  BY DEF EmptyMeansDone
<1>1. Cardinality(BusyThreads) = 0
  BY BusyFinite DEF IInv, TypeOK, CountersAgree, empty
<1>2. BusyThreads = {}
  BY <1>1, BusyFinite, FS_EmptySet
<1>3. Held = {} /\ In(unscanned) = {} /\ In(scanned) = {}
  BY <1>2 DEF Held, In, empty
<1>4. QED
  BY <1>2, <1>3 DEF IInv, NothingLost, Somewhere

(***************************************************************************)
(* For any number of threads and arrays: when empty() of scan_stream_t     *)
(* says true, no thread is busy and the caller has got every result.       *)
(***************************************************************************)
THEOREM EmptyTellsTruth == Spec => []EmptyMeansDone
BY Invariance, EmptyFromIInv, PTL

-----------------------------------------------------------------------------
(***************************************************************************)
(* ReceivedOnce.  It is not inductive: a result is received twice if the   *)
(* queue of results holds it twice, which it does if two threads hold the  *)
(* same array, and so on back to put.  So: an array is in one place only.  *)
(***************************************************************************)
Distinct(s) == \A j, k \in 1 .. Len(s) : s[j] = s[k] => j = k

EachOnce ==
    /\ Distinct(unscanned) /\ Distinct(scanned) /\ Distinct(received)
    /\ \A t, u \in BusyThreads : thread[t].array = thread[u].array => t = u

InOnePlace ==
    /\ In(unscanned) \cap (Held \cup In(scanned) \cup In(received)) = {}
    /\ Held \cap (In(scanned) \cup In(received)) = {}
    /\ In(scanned) \cap In(received) = {}

Known ==
    /\ In(unscanned) \cup Held \subseteq submitted
    /\ In(scanned) \cup In(received) \subseteq submitted \cap Matching

(* The second inductive invariant. *)
OnceInv == TypeOK /\ EachOnce /\ InOnePlace /\ Known

(* An element that is appended to a queue that lacks it is there once. *)
LEMMA DistinctAppend ==
    ASSUME NEW S, NEW s \in Seq(S), NEW a \in S, Distinct(s), a \notin In(s)
    PROVE  Distinct(Append(s, a))
BY DEF Distinct, In

(* The element that is taken from a queue is no longer in it. *)
LEMMA DistinctTail ==
    ASSUME NEW S, NEW s \in Seq(S), s # <<>>, Distinct(s)
    PROVE  /\ Distinct(Tail(s))
           /\ Head(s) \notin In(Tail(s))
<1>1. /\ Len(Tail(s)) = Len(s) - 1 /\ Len(s) \in Nat \ {0}
      /\ Head(s) = s[1]
      /\ \A k \in 1 .. Len(s) - 1 : Tail(s)[k] = s[k + 1]
  BY HeadTailProperties, EmptySeq
<1>2. \A k \in 1 .. Len(s) - 1 : k + 1 \in 1 .. Len(s) /\ k + 1 # 1
  BY <1>1
<1>3. Head(s) \notin In(Tail(s))
  BY <1>1, <1>2 DEF Distinct, In
<1>4. ASSUME NEW j \in 1 .. Len(Tail(s)), NEW k \in 1 .. Len(Tail(s)),
             Tail(s)[j] = Tail(s)[k]
      PROVE  j = k
  <2>1. s[j + 1] = s[k + 1]
    BY <1>1, <1>4
  <2>2. j + 1 = k + 1
    BY <1>1, <1>2, <2>1 DEF Distinct
  <2>3. QED
    BY <1>1, <2>2
<1>5. QED
  BY <1>3, <1>4 DEF Distinct

(* A step that moves no array. *)
LEMMA QuietOnce ==
    ASSUME OnceInv, TypeOK', UNCHANGED <<queue, received, submitted>>,
           BusyThreads' = BusyThreads,
           \A t \in BusyThreads : thread'[t].array = thread[t].array
    PROVE  OnceInv'
<1>1. Held' = Held
  BY DEF Held
<1>2. InOnePlace' /\ Known'
  <2>1. UNCHANGED <<In(unscanned), In(scanned), In(received), submitted>>
    BY DEF queue, In
  <2>2. QED
    BY <1>1, <2>1 DEF OnceInv, InOnePlace, Known
<1>3. EachOnce'
  BY DEF OnceInv, EachOnce, queue, Distinct
<1>4. QED
  BY <1>2, <1>3 DEF OnceInv

(* The queues start empty. *)
LEMMA InitOnce == Init => OnceInv
<1> SUFFICES ASSUME Init PROVE OnceInv
  OBVIOUS
<1>1. TypeOK
  BY InitIInv DEF IInv
<1>2. BusyThreads = {} /\ Held = {}
  BY DEF Init, BusyThreads, Held
<1>3. /\ In(unscanned) = {} /\ In(scanned) = {} /\ In(received) = {}
      /\ Distinct(unscanned) /\ Distinct(scanned) /\ Distinct(received)
  BY DEF Init, In, Distinct
<1>4. QED
  BY <1>1, <1>2, <1>3 DEF OnceInv, EachOnce, InOnePlace, Known

(* put appends an array that was never put before. *)
LEMMA PutOnce ==
    ASSUME OnceInv, TypeOK', NEW a \in Array, put(a) PROVE OnceInv'
<1>1. /\ a \notin submitted /\ submitted' = submitted \cup {a}
      /\ unscanned \in Seq(Array) /\ unscanned' = Append(unscanned, a)
      /\ UNCHANGED <<scanned, thread, received>>
  BY DEF OnceInv, TypeOK, put
<1>2. /\ In(unscanned') = In(unscanned) \cup {a}
      /\ UNCHANGED <<In(scanned), In(received), Held, BusyThreads>>
  BY <1>1, InAppend DEF In, Held, BusyThreads
<1>3. a \notin In(unscanned) \cup Held \cup In(scanned) \cup In(received)
  BY <1>1 DEF OnceInv, Known
<1>4. EachOnce'
  <2>1. Distinct(unscanned')
    BY <1>1, <1>3, DistinctAppend DEF OnceInv, EachOnce
  <2>2. QED
    BY <1>1, <1>2, <2>1 DEF OnceInv, EachOnce, Distinct
<1>5. In(unscanned)' = In(unscanned')
  BY DEF In
<1>6. InOnePlace'
  BY <1>2, <1>3, <1>5 DEF OnceInv, InOnePlace
<1>7. Known'
  BY <1>1, <1>2, <1>5 DEF OnceInv, Known
<1>8. QED
  BY <1>4, <1>6, <1>7 DEF OnceInv

(* get takes the result out of the queue. *)
LEMMA GetOnce == ASSUME OnceInv, TypeOK', get PROVE OnceInv'
<1> DEFINE a == Head(scanned)
<1>1. /\ scanned \in Seq(Array) /\ scanned # <<>> /\ received \in Seq(Array)
      /\ scanned' = Tail(scanned) /\ received' = Append(received, a)
      /\ UNCHANGED <<unscanned, thread, submitted>>
      /\ Distinct(scanned) /\ Distinct(received)
  BY DEF OnceInv, TypeOK, EachOnce, get
<1>2. /\ a \in Array /\ In(scanned) = In(scanned') \cup {a}
      /\ Distinct(scanned') /\ a \notin In(scanned')
  BY <1>1, InTail, DistinctTail
<1> HIDE DEF a
<1>3. /\ UNCHANGED <<In(unscanned), Held, BusyThreads>>
      /\ In(scanned)' = In(scanned') /\ In(received)' = In(received')
  BY <1>1 DEF In, Held, BusyThreads
<1>4. a \notin In(unscanned) \cup Held \cup In(received)
  BY <1>2 DEF OnceInv, InOnePlace
<1>5. /\ In(received') = In(received) \cup {a}
      /\ Distinct(received')
  BY <1>1, <1>2, <1>4, InAppend, DistinctAppend
<1>6. EachOnce'
  BY <1>1, <1>2, <1>3, <1>5 DEF OnceInv, EachOnce, Distinct
<1>7. InOnePlace'
  BY <1>2, <1>3, <1>4, <1>5 DEF OnceInv, InOnePlace
<1>8. Known'
  BY <1>1, <1>2, <1>3, <1>5 DEF OnceInv, Known
<1>9. QED
  BY <1>6, <1>7, <1>8 DEF OnceInv

(* get_unscanned takes the array out of the queue: one thread gets it. *)
LEMMA GetUnscannedOnce ==
    ASSUME OnceInv, TypeOK', NEW t \in Thread, get_unscanned(t),
           unscanned # <<>>
    PROVE  OnceInv'
<1> DEFINE a == Head(unscanned)
<1>1. /\ thread \in [Thread -> ThreadState] /\ unscanned \in Seq(Array)
      /\ thread' = [thread EXCEPT ![t] = [pc |-> "scan", array |-> a]]
      /\ unscanned' = Tail(unscanned)
      /\ t \notin BusyThreads /\ Distinct(unscanned)
      /\ UNCHANGED <<scanned, received, submitted>>
  BY DEF OnceInv, TypeOK, EachOnce, get_unscanned, BusyThreads
<1>2. /\ a \in Array /\ In(unscanned) = In(unscanned') \cup {a}
      /\ Distinct(unscanned') /\ a \notin In(unscanned')
  BY <1>1, InTail, DistinctTail
<1> HIDE DEF a
<1>3. /\ UNCHANGED <<In(scanned), In(received)>>
      /\ In(unscanned)' = In(unscanned')
  BY <1>1 DEF In
<1>4. /\ thread'[t].pc = "scan" /\ thread'[t].array = a
      /\ \A u \in Thread \ {t} : thread'[u] = thread[u]
  BY <1>1
<1>5. BusyThreads' = BusyThreads \cup {t}
  BY <1>4 DEF BusyThreads
<1>6. \A u \in BusyThreads : u # t /\ thread'[u].array = thread[u].array
  BY <1>1, <1>4 DEF BusyThreads
<1>7. Held' = Held \cup {a}
  BY <1>4, <1>5, <1>6 DEF Held
<1>8. a \notin Held \cup In(scanned) \cup In(received) /\ a \in submitted
  BY <1>2 DEF OnceInv, InOnePlace, Known
<1>9. EachOnce'
  <2>1. \A u \in BusyThreads : thread[u].array # a
    BY <1>8 DEF Held
  <2>2. \A u, v \in BusyThreads' :
           thread'[u].array = thread'[v].array => u = v
    BY <1>4, <1>5, <1>6, <2>1 DEF OnceInv, EachOnce
  <2>3. QED
    BY <1>1, <1>2, <2>2 DEF OnceInv, EachOnce, Distinct
<1>10. InOnePlace'
  BY <1>2, <1>3, <1>7, <1>8 DEF OnceInv, InOnePlace
<1>11. Known'
  BY <1>1, <1>2, <1>3, <1>7, <1>8 DEF OnceInv, Known
<1>12. QED
  BY <1>9, <1>10, <1>11 DEF OnceInv

(* put_scanned hands over the thread's array, or drops it. *)
LEMMA PutScannedOnce ==
    ASSUME OnceInv, TypeOK', NEW t \in Thread, put_scanned(t) PROVE OnceInv'
<1> DEFINE a == thread[t].array
<1>1. thread[t] \in [pc : {"scan", "put"}, array : Array]
  BY ThreadForms DEF OnceInv, put_scanned
<1>2. /\ a \in Array /\ thread \in [Thread -> ThreadState]
      /\ t \in BusyThreads /\ scanned \in Seq(Array) /\ Distinct(scanned)
      /\ scanned' = IF a \in Matching THEN Append(scanned, a) ELSE scanned
      /\ thread' = [thread EXCEPT ![t] = [pc |-> "loop"]]
      /\ UNCHANGED <<unscanned, received, submitted>>
  BY <1>1 DEF OnceInv, TypeOK, EachOnce, put_scanned, BusyThreads
<1>3. a \in Held
  BY <1>2 DEF Held
<1>4. \A u \in BusyThreads \ {t} : thread[u].array # a
  BY <1>2 DEF OnceInv, EachOnce
<1> HIDE DEF a
<1>5. /\ thread'[t].pc = "loop"
      /\ \A u \in Thread \ {t} : thread'[u] = thread[u]
  BY <1>2
<1>6. BusyThreads' = BusyThreads \ {t}
  BY <1>2, <1>5 DEF BusyThreads
<1>7. \A u \in BusyThreads' : thread'[u].array = thread[u].array
  BY <1>5, <1>6 DEF BusyThreads
<1>8. Held' \subseteq Held \ {a}
  BY <1>4, <1>6, <1>7 DEF Held
<1>9. /\ UNCHANGED <<In(unscanned), In(received)>>
      /\ In(scanned)' = In(scanned')
  BY <1>2 DEF In
<1>10. a \in submitted
       /\ a \notin In(unscanned) \cup In(scanned) \cup In(received)
  BY <1>3 DEF OnceInv, InOnePlace, Known
<1>11. /\ Distinct(scanned')
       /\ In(scanned') \subseteq In(scanned) \cup ({a} \cap Matching)
  BY <1>2, <1>10, InAppend, DistinctAppend
<1>12. EachOnce'
  <2>1. \A u, v \in BusyThreads' :
           thread'[u].array = thread'[v].array => u = v
    BY <1>6, <1>7 DEF OnceInv, EachOnce
  <2>2. QED
    BY <1>2, <1>11, <2>1 DEF OnceInv, EachOnce, Distinct
<1>13. InOnePlace'
  BY <1>8, <1>9, <1>10, <1>11 DEF OnceInv, InOnePlace
<1>14. Known'
  BY <1>2, <1>8, <1>9, <1>10, <1>11 DEF OnceInv, Known
<1>15. QED
  BY <1>12, <1>13, <1>14 DEF OnceInv

(* The steps of the caller that move no array. *)
LEMMA CallerOnce ==
    ASSUME OnceInv, TypeOK', see_empty \/ close \/ join \/ UNCHANGED vars
    PROVE  OnceInv'
<1>1. UNCHANGED <<queue, thread, received, submitted>>
  BY DEF see_empty, close, join, vars
<1>2. QED
  BY <1>1, QuietOnce DEF BusyThreads

(* The steps of a thread that move no array. *)
LEMMA ThreadOnce ==
    ASSUME OnceInv, TypeOK', NEW t \in Thread,
           loop(t) \/ scan(t) \/ (get_unscanned(t) /\ unscanned = <<>>)
    PROVE  OnceInv'
<1>1. CASE loop(t) \/ (get_unscanned(t) /\ unscanned = <<>>)
  <2>1. /\ thread \in [Thread -> ThreadState]
        /\ UNCHANGED <<queue, received, submitted>>
        /\ thread[t].pc \in {"loop", "get"}
    BY <1>1 DEF OnceInv, TypeOK, loop, get_unscanned, queue
  <2>2. thread[t] \in [pc : {"loop", "get", "exit"}]
    BY <2>1, ThreadForms DEF OnceInv
  <2>3. /\ thread'[t].pc \in {"loop", "get", "exit"}
        /\ \A u \in Thread \ {t} : thread'[u] = thread[u]
    BY <1>1, <2>1, <2>2 DEF loop, get_unscanned
  <2>4. BusyThreads' = BusyThreads /\ t \notin BusyThreads
    BY <2>1, <2>3 DEF BusyThreads
  <2>5. \A u \in BusyThreads : thread'[u].array = thread[u].array
    BY <2>3, <2>4 DEF BusyThreads
  <2>6. QED
    BY <2>1, <2>4, <2>5, QuietOnce
<1>2. CASE scan(t)
  <2>1. /\ thread[t] \in [pc : {"scan", "put"}, array : Array]
        /\ thread \in [Thread -> ThreadState]
        /\ thread' = [thread EXCEPT ![t].pc = "put"]
        /\ UNCHANGED <<queue, received, submitted>>
    BY <1>2, ThreadForms DEF OnceInv, TypeOK, scan
  <2>2. /\ thread'[t].pc = "put" /\ thread'[t].array = thread[t].array
        /\ \A u \in Thread \ {t} : thread'[u] = thread[u]
    BY <2>1
  <2>3. BusyThreads' = BusyThreads
    BY <1>2, <2>2 DEF scan, BusyThreads
  <2>4. \A u \in BusyThreads : thread'[u].array = thread[u].array
    BY <2>2 DEF BusyThreads
  <2>5. QED
    BY <2>1, <2>3, <2>4, QuietOnce
<1>3. QED
  BY <1>1, <1>2

(* Every step keeps each array in one place. *)
LEMMA NextOnce == OnceInv /\ TypeOK' /\ [Next]_vars => OnceInv'
<1> SUFFICES ASSUME OnceInv, TypeOK', [Next]_vars PROVE OnceInv'
  OBVIOUS
<1>1. ASSUME NEW t \in Thread, Run(t) PROVE OnceInv'
  <2>1. CASE loop(t) \/ scan(t)
    BY <2>1, ThreadOnce
  <2>2. CASE get_unscanned(t) /\ unscanned = <<>>
    BY <2>2, ThreadOnce
  <2>3. CASE get_unscanned(t) /\ unscanned # <<>>
    BY <2>3, GetUnscannedOnce
  <2>4. CASE put_scanned(t)
    BY <2>4, PutScannedOnce
  <2>5. QED
    BY <1>1, <2>1, <2>2, <2>3, <2>4 DEF Run
<1>2. QED
  BY <1>1, PutOnce, GetOnce, CallerOnce DEF Next

(***************************************************************************)
(* For any number of threads and arrays: the caller of scan_stream_t gets  *)
(* a result at most once, and only for an array that it put and that has   *)
(* matches.                                                                *)
(***************************************************************************)
THEOREM ResultsOnce == Spec => []ReceivedOnce
<1>1. IInv => TypeOK
  BY DEF IInv
<1>2. OnceInv => ReceivedOnce
  BY DEF OnceInv, EachOnce, Known, ReceivedOnce, Distinct
<1>3. QED
  BY <1>1, <1>2, Invariance, InitOnce, NextOnce, PTL DEF Spec
=============================================================================
