------------------------------ MODULE SortedMap ------------------------------
(***************************************************************************)
(* What lmdb.h promises of one database in a write transaction: a sorted   *)
(* set of <<key, value>> items and a cursor that walks it in order, while  *)
(* the items change under it.  LmdbTree implements it.                     *)
(***************************************************************************)
EXTENDS Integers

CONSTANTS
    Key,
    Puts          \* the items that callers write

VARIABLES
    dup,          \* a key may have more than one value
    items,        \* the items of the database
    pos           \* where the cursor is

vars == <<dup, items, pos>>

Values == {p[2] : p \in Puts}

Nowhere == [kind |-> "none", item |-> <<0, 0>>, passed |-> FALSE]
AtEnd == [Nowhere EXCEPT !.kind = "end"]
On(i) == [kind |-> "at", item |-> i, passed |-> FALSE]
(* The item of the cursor was deleted: the next one is that of key k.      *)
Before(k) == [kind |-> "before", item |-> <<k, 0>>, passed |-> FALSE]

Less(i, j) == i[1] < j[1] \/ (i[1] = j[1] /\ i[2] < j[2])
Least(S) == CHOOSE i \in S : \A j \in S : i = j \/ Less(i, j)

Of(k) == {i \in items : i[1] = k}
After(i) == {j \in items : Less(i, j)}
AfterKey(k) == {j \in items : k < j[1]}

(* A cursor on the last value of its key may count the key as passed: it   *)
(* then leaves out the values that are put there later.                    *)
Come(i) ==
    \/ pos' = On(i)
    \/ /\ \A j \in items' : j[1] = i[1] => j[2] <= i[2]
       /\ pos' = [On(i) EXCEPT !.passed = TRUE]

ToLeast(S, otherwise) ==
    /\ IF S = {} THEN pos' = otherwise ELSE Come(Least(S))
    /\ UNCHANGED <<dup, items>>

With(k, v) == (IF dup THEN items ELSE items \ Of(k)) \cup {<<k, v>>}

Init == dup \in BOOLEAN /\ items = {} /\ pos = Nowhere

(* A write through another cursor.                                         *)
Put(k, v) ==
    /\ items' = With(k, v)
    /\ pos' = IF pos.kind = "at" /\ pos.item \notin With(k, v)
              THEN [pos EXCEPT !.item = <<k, v>>] ELSE pos
    /\ UNCHANGED dup

CursorPut(k, v) ==
    /\ items' = With(k, v)
    /\ Come(<<k, v>>)
    /\ UNCHANGED dup

(* The value of the item changes and keeps its place among the values.     *)
Replace(v) ==
    LET i == pos.item
        new == <<i[1], v>>
    IN  /\ pos.kind = "at"
        /\ new \in Puts
        /\ \A j \in Of(i[1]) \ {i} : j # new /\ (Less(j, i) <=> Less(j, new))
        /\ items' = (items \ {i}) \cup {new}
        /\ pos' = [pos EXCEPT !.item = new]
        /\ UNCHANGED dup

Delete(k) ==
    /\ ~dup /\ Of(k) # {}
    /\ items' = items \ Of(k)
    /\ pos' = IF items' = {} THEN Nowhere
              ELSE IF pos.kind \in {"none", "end"} \/ pos.item[1] # k THEN pos
              ELSE IF AfterKey(k) = {} THEN AtEnd
              ELSE Before(Least(AfterKey(k))[1])
    /\ UNCHANGED dup

CursorDelete == pos.kind = "at" /\ Delete(pos.item[1])

Seek(k) == ToLeast(Of(k), Nowhere)

First == ToLeast(items, Nowhere)

(* The next item, whatever was put or deleted in between.                  *)
NextItem ==
    \/ pos.kind = "none" /\ First
    \/ pos.kind = "before" /\ ToLeast(Of(pos.item[1]), AtEnd)
    \/ /\ pos.kind = "at"
       /\ ToLeast(IF pos.passed THEN AfterKey(pos.item[1])
                  ELSE After(pos.item), AtEnd)

NextKey ==
    \/ pos.kind = "none" /\ First
    \/ pos.kind = "before" /\ ToLeast(Of(pos.item[1]), AtEnd)
    \/ pos.kind = "at" /\ ToLeast(AfterKey(pos.item[1]), AtEnd)

NextValue ==
    /\ pos.kind = "at"
    /\ LET more == After(pos.item) \cap Of(pos.item[1])
       IN  IF pos.passed THEN UNCHANGED vars
           ELSE ToLeast(IF more = {} THEN {pos.item} ELSE more, pos)

FirstValue == pos.kind = "at" /\ ToLeast(Of(pos.item[1]), pos)

Next ==
    \/ \E p \in Puts : Put(p[1], p[2]) \/ CursorPut(p[1], p[2])
    \/ \E v \in Values : Replace(v)
    \/ \E k \in Key : Delete(k) \/ Seek(k)
    \/ CursorDelete
    \/ First \/ NextItem \/ NextKey \/ NextValue \/ FirstValue

Spec == Init /\ [][Next]_vars
=============================================================================
