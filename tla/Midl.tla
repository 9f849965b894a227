-------------------------------- MODULE Midl --------------------------------
(***************************************************************************)
(* The ID lists of liblmdb (midl.c): page numbers of freed and reclaimed   *)
(* pages, in descending order, and the list of dirty pages (ID2), in       *)
(* ascending order.  An ID list is its IDs and its capacity, ids[-1];      *)
(* ids[0], the length, is Len of the IDs.                                  *)
(***************************************************************************)
EXTENDS Integers, Sequences

CONSTANTS
    UmMax,   \* MDB_IDL_UM_MAX, 2^17 - 1
    Round,   \* to what mdb_midl_need rounds the size of a list up, 256
    Small    \* SMALL: up to here mdb_midl_sort inserts, 8

Idl(ids, room) == [ids |-> ids, room |-> room]

Swap(s, i, j) == [s EXCEPT ![i] = s[j], ![j] = s[i]]

-----------------------------------------------------------------------------
(* Search: the position of id, or the first position whose ID is beyond    *)
(* it.  Before(x) says that x comes before id in the order of the list.    *)

RECURSIVE Bisect(_, _, _, _, _)
Bisect(ids, before, id, base, n) ==
    IF n = 0 THEN base + 1
    ELSE LET pivot  == n \div 2
             cursor == base + pivot + 1
         IN IF ids[cursor] = id THEN cursor
            ELSE IF before[ids[cursor]]
            THEN Bisect(ids, before, id, cursor, n - pivot - 1)
            ELSE Bisect(ids, before, id, base, pivot)

IdsOf(s) == {s[i] : i \in DOMAIN s}

mdb_midl_search(ids, id) ==
    Bisect(ids, [x \in IdsOf(ids) |-> x > id], id, 0, Len(ids))

mdb_mid2l_search(ids, id) ==
    Bisect(ids, [x \in IdsOf(ids) |-> x < id], id, 0, Len(ids))

-----------------------------------------------------------------------------
(* Adding.                                                                 *)

mdb_midl_grow(list, num) == [list EXCEPT !.room = @ + num]

mdb_midl_shrink(list) ==
    IF list.room > UmMax THEN [list EXCEPT !.room = UmMax] ELSE list

mdb_midl_need(list, num) ==
    LET want == num + Len(list.ids)
    IN IF want <= list.room THEN list
       ELSE [list EXCEPT !.room =
                 ((want + want \div 4 + Round + 2) \div Round) * Round - 2]

AppendId(list, id) == [list EXCEPT !.ids = Append(@, id)]

mdb_midl_append(list, id) ==
    AppendId(IF Len(list.ids) >= list.room
             THEN mdb_midl_grow(list, UmMax) ELSE list, id)

mdb_midl_append_list(list, app) ==
    [(IF Len(list.ids) + Len(app) >= list.room
      THEN mdb_midl_grow(list, Len(app)) ELSE list)
     EXCEPT !.ids = @ \o app]

(* n | MDB_IDL_UM_MAX: the room for more than n IDs. *)
OrUmMax(n) == (n \div (UmMax + 1)) * (UmMax + 1) + UmMax

(* The range is written from its end: id is the last of the list. *)
mdb_midl_append_range(list, id, n) ==
    [(IF Len(list.ids) + n > list.room
      THEN mdb_midl_grow(list, OrUmMax(n)) ELSE list)
     EXCEPT !.ids = @ \o [k \in 1 .. n |-> id + n - k]]

(* An ID2 list: duplicates and a full list are refused. *)
Refused == -1

mdb_mid2l_insert(ids, id) ==
    LET x == mdb_mid2l_search(ids, id)
    IN IF (x <= Len(ids) /\ ids[x] = id) \/ Len(ids) >= UmMax
       THEN <<Refused>>
       ELSE SubSeq(ids, 1, x - 1) \o <<id>> \o SubSeq(ids, x, Len(ids))

-----------------------------------------------------------------------------
(* Merging: both lists are read from their ends, the larger IDs of idl     *)
(* move up, and the place before the first ID holds a delimiter that no ID *)
(* exceeds.  i and j are the IDs left, k the place to fill.                *)

RECURSIVE XMerge(_, _, _, _, _)
XMerge(idl, merge, i, j, k) ==
    IF i = 0 THEN idl
    ELSE IF j > 0 /\ idl[j] < merge[i]
    THEN XMerge([idl EXCEPT ![k] = idl[j]], merge, i, j - 1, k - 1)
    ELSE XMerge([idl EXCEPT ![k] = merge[i]], merge, i - 1, j, k - 1)

(* The caller has made room (mdb_midl_need). *)
mdb_midl_xmerge(idl, merge) ==
    XMerge(idl \o merge, merge, Len(merge), Len(idl),
           Len(idl) + Len(merge))

-----------------------------------------------------------------------------
(* Sorting: quicksort with the median of three, insertion for short parts. *)

(* The inner loop of the insertion: a moves down to its place. *)
RECURSIVE Insert(_, _, _)
Insert(ids, a, i) ==
    IF i < 1 THEN [ids EXCEPT ![1] = a]
    ELSE IF ids[i] >= a THEN [ids EXCEPT ![i + 1] = a]
    ELSE Insert([ids EXCEPT ![i + 1] = ids[i]], a, i - 1)

(* A faulty variant of the next definition. *)
RECURSIVE InsertionSort_StopsEarly(_, _, _)
InsertionSort_StopsEarly(ids, j, ir) ==
    IF j >= ir THEN ids
    ELSE InsertionSort_StopsEarly(Insert(ids, ids[j], j - 1), j + 1, ir)

RECURSIVE InsertionSort(_, _, _)
InsertionSort(ids, j, ir) ==
    IF j > ir THEN ids
    ELSE InsertionSort(Insert(ids, ids[j], j - 1), j + 1, ir)

SwapIfLess(ids, i, j) == IF ids[i] < ids[j] THEN Swap(ids, i, j) ELSE ids

(* The median of left, center and right goes to l + 1, between the others. *)
Median(ids, l, ir) ==
    SwapIfLess(
        SwapIfLess(
            SwapIfLess(Swap(ids, (l + ir) \div 2, l + 1), l, ir),
            l + 1, ir),
        l, l + 1)

(* The scans from both ends stop at an ID that is not beyond the median.   *)
(* They have no other bound: an index outside 1 .. Len(ids) would be a     *)
(* read beyond the list.                                                   *)
RECURSIVE ScanUp(_, _, _)
ScanUp(ids, a, i) == IF ids[i] > a THEN ScanUp(ids, a, i + 1) ELSE i

RECURSIVE ScanDown(_, _, _)
ScanDown(ids, a, j) == IF ids[j] < a THEN ScanDown(ids, a, j - 1) ELSE j

RECURSIVE Partition(_, _, _, _)
Partition(ids, a, i0, j0) ==
    LET i == ScanUp(ids, a, i0 + 1)
        j == ScanDown(ids, a, j0 - 1)
    IN IF j < i THEN [ids |-> ids, i |-> i, j |-> j]
       ELSE Partition(Swap(ids, i, j), a, i, j)

(* What is left of [l, ir] after the partition: the longer part is pushed, *)
(* the shorter sorted next.                                                *)
RECURSIVE QuickSort(_, _, _, _)
QuickSort(ids, l, ir, stack) ==
    IF ir - l < Small
    THEN LET done == InsertionSort(ids, l + 1, ir)
         IN IF stack = <<>> THEN done
            ELSE QuickSort(done, Head(stack)[1], Head(stack)[2], Tail(stack))
    ELSE LET mid  == Median(ids, l, ir)
             a    == mid[l + 1]
             p    == Partition(mid, a, l + 1, ir)
             next == [p.ids EXCEPT ![l + 1] = p.ids[p.j], ![p.j] = a]
         IN IF ir - p.i + 1 >= p.j - l
            THEN QuickSort(next, l, p.j - 1, <<<<p.i, ir>>>> \o stack)
            ELSE QuickSort(next, p.i, ir, <<<<l, p.j - 1>>>> \o stack)

mdb_midl_sort(ids) == QuickSort(ids, 1, Len(ids), <<>>)
=============================================================================
