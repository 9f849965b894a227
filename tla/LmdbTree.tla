------------------------------ MODULE LmdbTree ------------------------------
(***************************************************************************)
(* The B+tree of one liblmdb database inside one write transaction: pages  *)
(* that split, borrow from a neighbour and merge, and the cursors that     *)
(* must keep their place while another cursor changes the tree.            *)
(*                                                                         *)
(* hashdb keeps a cursor open in lmdb_context_t and writes through it and  *)
(* through mdb_put; freelist_save deletes and writes in the free database. *)
(* Databases with MDB_DUPSORT are only added to, so a key is deleted only  *)
(* when ~dupsort.  A page holds PageRoom units; how many a node takes      *)
(* depends on its key and on its data.  The duplicates of a key are one    *)
(* sorted sequence (the sub-page), the position in it the sub-cursor.      *)
(* Page numbers are names: a new page takes the least one not in use.      *)
(***************************************************************************)
EXTENDS Integers, Sequences, FiniteSets, FiniteSetsExt, SequencesExt

CONSTANTS
    Key,          \* keys, positive numbers: 0 is the empty key of a branch
    BigKeys,      \* the keys that take one unit more
    Puts,         \* the pairs <<key, value>> that callers write
    PageRoom,     \* units of a page
    MaxPages,     \* bound on page numbers
    MaxDepth      \* bound on the depth (CURSOR_STACK in the code)

ASSUME TreeAssumption ==
    /\ Key \subseteq Nat \ {0}
    /\ PageRoom \in Nat /\ MaxDepth \in Nat /\ MaxPages \in Nat
    (* me_nodemax: a page has room for two nodes *)
    /\ \A p \in Puts :
          2 * (1 + (IF p[1] \in BigKeys THEN 1 ELSE 0)
                 + (IF p[2] > 1 THEN 1 ELSE 0)) <= PageRoom

VARIABLES
    dupsort,      \* the database has MDB_DUPSORT
    tree,         \* pages, the MDB_db record, and full: MDB_PAGE_FULL
    cursor        \* the cursor its user keeps open

vars == <<dupsort, tree, cursor>>

EmptyKey == 0
LastKey == Max(Key) + 1   \* search for it ends at the last leaf
P_INVALID == 0

Levels == 1..MaxDepth

(* mdb_cursor_init *)
NoSub == [init |-> FALSE, eof |-> FALSE, ki |-> 0]
NewCursor == [init |-> FALSE, eof |-> FALSE, del |-> FALSE, snum |-> 0,
              pg |-> [l \in Levels |-> 0], ki |-> [l \in Levels |-> 0],
              x |-> NoSub]

EmptyTree == [root |-> P_INVALID, depth |-> 0, entries |-> 0,
              pages |-> [p \in {} |-> 0], full |-> FALSE]

-----------------------------------------------------------------------------
(* Nodes and pages.                                                        *)

Num(p) == Len(p.nodes)

KeyRoom(k) == IF k \in BigKeys THEN 2 ELSE 1

(* A second duplicate, or a long value, takes one unit more.               *)
DataRoom(d) == IF Len(d) > 1 \/ (~dupsort /\ d[1] > 1) THEN 1 ELSE 0

NodeRoom(leaf, n) == KeyRoom(n.key) + IF leaf THEN DataRoom(n.data) ELSE 0

RoomOf(leaf, nodes) ==
    FoldSeq(LAMBDA n, sum : NodeRoom(leaf, n) + sum, 0, nodes)

Used(p) == RoomOf(p.leaf, p.nodes)
Left(p) == PageRoom - Used(p)

(* mdb_page_new, mdb_page_alloc: the least page number out of use.         *)
NewPgno(t) == Min((1..MaxPages) \ DOMAIN t.pages)

AddPage(t, pg, p) ==
    [t EXCEPT !.pages = [q \in DOMAIN @ \cup {pg} |->
                            IF q = pg THEN p ELSE @[q]]]

DropPage(t, pg) ==
    [t EXCEPT !.pages = [q \in DOMAIN @ \ {pg} |-> @[q]]]

(* mdb_node_add: a page without room marks the transaction MDB_TXN_ERROR.  *)
NodeAdd(t, pg, i, n) ==
    IF Left(t.pages[pg]) < NodeRoom(t.pages[pg].leaf, n)
    THEN [t EXCEPT !.full = TRUE]
    ELSE [t EXCEPT !.pages[pg].nodes = InsertAt(@, i + 1, n)]

(* mdb_node_del *)
NodeDel(t, pg, i) == [t EXCEPT !.pages[pg].nodes = RemoveAt(@, i + 1)]

Pgno(c) == c.pg[c.snum]
Ki(c) == c.ki[c.snum]
Node(t, c) == t.pages[Pgno(c)].nodes[Ki(c) + 1]
Child(t, pg, i) == t.pages[pg].nodes[i + 1].data

RECURSIVE Halve(_, _, _, _, _, _)
Halve(nodes, k, low, high, i, cmp) ==
    IF low > high THEN [i |-> IF cmp > 0 THEN i + 1 ELSE i, exact |-> FALSE]
    ELSE LET m == (low + high) \div 2
             d == k - nodes[m + 1].key
         IN  IF d = 0 THEN [i |-> m, exact |-> TRUE]
             ELSE Halve(nodes, k, IF d > 0 THEN m + 1 ELSE low,
                        IF d < 0 THEN m - 1 ELSE high, m, d)

(* mdb_node_search: the least node whose key is at least k.  The first key *)
(* of a branch is empty and never compared.                                *)
NodeSearch(p, k) ==
    LET low == IF p.leaf THEN 0 ELSE 1
    IN  IF low > Num(p) - 1 THEN [i |-> 0, exact |-> Num(p) > 0]
        ELSE Halve(p.nodes, k, low, Num(p) - 1, 0, 0)

-----------------------------------------------------------------------------
(* Moving a cursor.                                                        *)

Push(c, pg) == [c EXCEPT !.snum = c.snum + 1, !.pg[c.snum + 1] = pg,
                         !.ki[c.snum + 1] = 0]

SetKi(c, i) == [c EXCEPT !.ki[c.snum] = i]

(* mdb_page_search_root: down to the leaf for k; EmptyKey leads to the     *)
(* first leaf and LastKey to the last one.                                 *)
RECURSIVE SearchRoot(_, _, _)
SearchRoot(t, c, k) ==
    LET p == t.pages[Pgno(c)]
        s == NodeSearch(p, k)
        i == IF k = EmptyKey THEN 0
             ELSE IF k = LastKey \/ s.i >= Num(p) THEN Num(p) - 1
             ELSE IF s.exact THEN s.i ELSE s.i - 1
    IN  IF p.leaf THEN [c EXCEPT !.init = TRUE, !.eof = FALSE]
        ELSE SearchRoot(t, Push(SetKi(c, i), p.nodes[i + 1].data), k)

(* mdb_page_search, in a tree that is not empty *)
PageSearch(t, c, k) ==
    SearchRoot(t, [c EXCEPT !.snum = 1, !.pg[1] = t.root, !.ki[1] = 0], k)

(* mdb_page_search_lowest: the lowest key below page pg *)
RECURSIVE LowestKey(_, _)
LowestKey(t, pg) ==
    IF t.pages[pg].leaf THEN t.pages[pg].nodes[1].key
    ELSE LowestKey(t, Child(t, pg, 0))

RECURSIVE DownTo(_, _, _, _)
DownTo(t, c, snum, right) ==
    IF c.snum = snum THEN c
    ELSE LET pg == Child(t, Pgno(c), Ki(c))
         IN  DownTo(t, SetKi(Push(c, pg),
                             IF right THEN 0 ELSE Num(t.pages[pg]) - 1),
                    snum, right)

HasSibling(t, c, l, right) ==
    IF right THEN c.ki[l] + 1 < Num(t.pages[c.pg[l]]) ELSE c.ki[l] > 0

(* mdb_cursor_sibling: the page beside the top one, through the deepest    *)
(* parent that has one.                                                    *)
ParentsWith(t, c, right) ==
    {l \in 1..(c.snum - 1) : HasSibling(t, c, l, right)}

Sibling(t, c, right) ==
    LET l == Max(ParentsWith(t, c, right))
    IN  DownTo(t, [c EXCEPT !.snum = l, !.ki[l] = @ + IF right THEN 1 ELSE -1],
               c.snum, right)

(* mdb_xcursor_init1: the sub-cursor of a key with duplicates *)
AtFirstDup(t, c) ==
    IF Len(Node(t, c).data) > 1
    THEN [c EXCEPT !.x = [NoSub EXCEPT !.init = TRUE]] ELSE c

Result(c, found) == [c |-> c, found |-> found]

(* mdb_cursor_set, once the key is found at c.                             *)
Found(t, c) ==
    Result(AtFirstDup(t, [c EXCEPT !.init = TRUE, !.eof = FALSE]), TRUE)

(* mdb_cursor_set *)
Set(t, c0, k) ==
    LET c == [c0 EXCEPT !.x = NoSub]
        p == t.pages[Pgno(c)]
        InPage(d) ==
            LET s == NodeSearch(t.pages[Pgno(d)], k)
            IN  IF s.exact THEN Found(t, SetKi(d, s.i))
                ELSE Result(SetKi(d, s.i), FALSE)
        Searched == IF t.root = P_INVALID THEN Result(c, FALSE)
                    ELSE InPage(PageSearch(t, c, k))
    IN  IF ~c.init THEN Searched
        ELSE IF k = p.nodes[1].key THEN Found(t, SetKi(c, 0))
        ELSE IF k < p.nodes[1].key
             THEN IF c.snum = 1 THEN Result(SetKi(c, 0), FALSE) ELSE Searched
        ELSE IF k = Last(p.nodes).key THEN Found(t, SetKi(c, Num(p) - 1))
        ELSE IF k < Last(p.nodes).key
             THEN IF Ki(c) < Num(p) /\ Node(t, c).key = k
                  THEN Found(t, c) ELSE InPage(c)
        ELSE IF ParentsWith(t, c, TRUE) = {}
             THEN Result(SetKi(c, Num(p)), FALSE)
        ELSE Searched

(* mdb_cursor_first *)
First(t, c) ==
    IF t.root = P_INVALID THEN Result([c EXCEPT !.x = NoSub], FALSE)
    ELSE LET d == IF ~c.init \/ c.snum > 1 THEN PageSearch(t, c, EmptyKey)
                  ELSE c
         IN  Result(AtFirstDup(t, SetKi([d EXCEPT !.init = TRUE,
                                                  !.eof = FALSE], 0)), TRUE)

(* mdb_cursor_next, the part that leaves the key *)
NextKey(t, c) ==
    LET p == t.pages[Pgno(c)]
    IN  IF c.del THEN Result(AtFirstDup(t, [c EXCEPT !.del = FALSE]), TRUE)
        ELSE IF Ki(c) + 1 < Num(p)
             THEN Result(AtFirstDup(t, SetKi(c, Ki(c) + 1)), TRUE)
        ELSE IF ParentsWith(t, c, TRUE) = {}
             THEN Result([c EXCEPT !.eof = TRUE], FALSE)
        ELSE Result(AtFirstDup(t, Sibling(t, c, TRUE)), TRUE)

(* mdb_cursor_next: MDB_NEXT, MDB_NEXT_DUP and MDB_NEXT_NODUP *)
NextItem(t, c, op) ==
    LET d == Node(t, c).data
    IN  IF c.eof THEN Result(c, FALSE)
        ELSE IF Len(d) > 1 /\ op # "NEXT_NODUP"
             THEN IF ~c.x.eof /\ c.x.ki + 1 < Len(d)
                  THEN Result([c EXCEPT !.x.ki = @ + 1], TRUE)
                  ELSE IF op = "NEXT_DUP"
                       THEN Result([c EXCEPT !.x.eof = TRUE], FALSE)
                       ELSE NextKey(t, [c EXCEPT !.x.eof = TRUE])
        ELSE IF op = "NEXT_DUP" THEN Result([c EXCEPT !.x = NoSub], FALSE)
        ELSE NextKey(t, IF Len(d) > 1 THEN c ELSE [c EXCEPT !.x = NoSub])

-----------------------------------------------------------------------------
(* A change works on s: the tree, the cursors by number, and which of them *)
(* the transaction tracks (mt_cursors).  1 is the user's, 2 that of the    *)
(* operation; greater numbers are the temporary cursors mn.                *)

User == 1
Op == 2
Temps == 3..8

State(t, c, tracked) ==
    [t |-> t, c |-> [i \in {User, Op} \cup Temps |->
                        IF i = User THEN c ELSE NewCursor],
     tracked |-> tracked]

Page(s, pg) == s.t.pages[pg]
Top(s, i) == s.c[i].snum
PgAt(s, i, l) == s.c[i].pg[l]
KiAt(s, i, l) == s.c[i].ki[l]

OnTree(s, t) == [s EXCEPT !.t = t]

(* mdb_cursor_copy *)
Copy(s, i, j) == [s EXCEPT !.c[j] = [s.c[i] EXCEPT !.x = s.c[j].x]]

(* The loops over mt_cursors: Fix for every tracked cursor but i.          *)
Adjust(s, i, Fix(_)) ==
    [s EXCEPT !.c = [j \in DOMAIN @ |->
                        IF j \in s.tracked \ {i} THEN Fix(@[j]) ELSE @[j]]]

Reaches(c, l) == c.init /\ c.snum >= l

(* The loop of mdb_page_split that looks for the split point, over the     *)
(* nodes with the new one among them.                                      *)
SplitPoint(leaf, all, newindx) ==
    LET nkeys == Len(all) - 1
        half == (nkeys + 1) \div 2
        Upward == newindx <= half \/ newindx >= nkeys
        k == IF newindx >= nkeys THEN nkeys
             ELSE half + 1 + (IF leaf THEN 1 ELSE 0)
        Over(i) == RoomOf(leaf, SubSeq(all, 1, i + 1)) > PageRoom
        OverDown(i) == RoomOf(leaf, SubSeq(all, i + 1, nkeys + 1)) > PageRoom
    IN  IF Upward
        THEN Min({i \in 0..(k - 1) : Over(i) \/ i = k - 1})
        ELSE 1 + Max({i \in half..nkeys : OverDown(i) \/ i = half})

(* First branch index does not need key data. *)
NoFirstKey(leaf, nodes) ==
    IF leaf THEN nodes ELSE [nodes EXCEPT ![1].key = EmptyKey]

(* mdb_page_split, root: a new root above the page *)
NewRoot(s, i) ==
    LET pp == NewPgno(s.t)
        root == [leaf |-> FALSE,
                 nodes |-> <<[key |-> EmptyKey, data |-> PgAt(s, i, 1)]>>]
        c == s.c[i]
    IN  [s EXCEPT !.t = [AddPage(s.t, pp, root) EXCEPT !.root = pp,
                                                       !.depth = @ + 1],
                  !.c[i] = [c EXCEPT
                      !.snum = @ + 1,
                      !.pg = [l \in Levels |-> IF l = 1 THEN pp ELSE @[l-1]],
                      !.ki = [l \in Levels |-> IF l = 1 THEN 0 ELSE @[l-1]]]]

(* The levels of cursor i above l as those of the temporary cursor m.      *)
ParentsOf(s, i, m, l) ==
    [s.c[i] EXCEPT
        !.pg = [q \in Levels |-> IF q <= l THEN s.c[m].pg[q] ELSE @[q]],
        !.ki = [q \in Levels |-> IF q <= l THEN s.c[m].ki[q] ELSE @[q]]]

ParentChanged(s, i, m, ptop) ==
    /\ PgAt(s, m, ptop) # PgAt(s, i, ptop)
    /\ KiAt(s, i, ptop) >= Num(Page(s, PgAt(s, i, ptop)))

(* After the parent was split for the separator: the left page, which      *)
(* cursor i is on, may have another parent now.                            *)
LeftParent(s, i, m) ==
    LET ptop == Top(s, i) - 1
        c == ParentsOf(s, i, m, ptop)
    IN  IF ~ParentChanged(s, i, m, ptop) THEN s
        ELSE [s EXCEPT !.c[i] = IF c.ki[ptop] > 0
                                THEN [c EXCEPT !.ki[ptop] = @ - 1]
                                ELSE Sibling(s.t, c, FALSE)]

(* A faulty variant of the next definition. *)
AtNewNode_ParentKept(s, i, m, sp) ==
    LET top == Top(s, i)
    IN  IF sp.newindx < sp.nkeys THEN [s EXCEPT !.c[i].ki[top] = sp.newindx]
        ELSE [s EXCEPT !.c[i].pg[top] = sp.rp,
                       !.c[i].ki[top] = sp.newindx - sp.nkeys,
                       !.c[i].ki[top - 1] = @ + 1]

(* The cursor of the split ends at the new node.                           *)
AtNewNode(s, i, m, sp) ==
    LET top == Top(s, i)
        r == [s EXCEPT !.c[i].pg[top] = sp.rp,
                       !.c[i].ki[top] = sp.newindx - sp.nkeys,
                       !.c[i].ki[top - 1] = @ + 1]
    IN  IF sp.newindx < sp.nkeys THEN [s EXCEPT !.c[i].ki[top] = sp.newindx]
        ELSE IF ParentChanged(r, i, m, top - 1)
             THEN [r EXCEPT !.c[i] = ParentsOf(r, i, m, top - 1)]
        ELSE r

(* The other cursors after a split of page mp, now with nkeys nodes.       *)
AfterSplit(s, i, m, sp, did_split) ==
    LET top == Top(s, i)
        ptop == top - 1
        Rooted(c) ==
            [c EXCEPT !.snum = @ + 1,
                      !.pg = [l \in Levels |-> IF l = 1 THEN PgAt(s, i, 1)
                                               ELSE @[l - 1]],
                      !.ki = [l \in Levels |->
                                IF l > 1 THEN @[l - 1]
                                ELSE IF @[1] >= sp.nkeys THEN 1 ELSE 0]]
        OnPage(c) ==
            LET k == c.ki[top] + IF c.ki[top] >= sp.newindx /\ ~sp.repl
                                 THEN 1 ELSE 0
            IN  IF k < sp.nkeys THEN [c EXCEPT !.ki[top] = k]
                ELSE [c EXCEPT
                        !.pg = [l \in Levels |->
                                  IF l < top THEN PgAt(s, m, l)
                                  ELSE IF l = top THEN sp.rp ELSE @[l]],
                        !.ki = [l \in Levels |->
                                  IF l < top THEN KiAt(s, m, l)
                                  ELSE IF l = top THEN k - sp.nkeys
                                  ELSE @[l]]]
        Moved(c) ==
            IF c.snum >= top /\ c.pg[top] = sp.mp THEN OnPage(c)
            ELSE IF /\ ~did_split /\ c.snum >= ptop
                    /\ c.pg[ptop] = PgAt(s, i, ptop)
                    /\ c.ki[ptop] >= KiAt(s, i, ptop)
                 THEN [c EXCEPT !.ki[ptop] = @ + 1]
            ELSE c
        Fix(c) == IF ~c.init THEN c
                  ELSE IF ~sp.new_root THEN Moved(c)
                  ELSE IF c.pg[1] = sp.mp THEN Moved(Rooted(c)) ELSE c
    IN  Adjust(s, i, Fix)

(* A faulty variant of the next definition. *)
DidSplit_Unsized(s, m, sep) == Left(Page(s, PgAt(s, m, Top(s, m) - 1))) < 1

(* The separator does not fit in the parent: the parent is split first.    *)
DidSplit(s, m, sep) ==
    Left(Page(s, PgAt(s, m, Top(s, m) - 1))) < KeyRoom(sep.key)

RECURSIVE Split(_, _, _, _, _)
WithSeparator(s, i, m, sep) ==
    LET up == Top(s, m) - 1
        Untracked(r) == [r EXCEPT !.tracked = @ \ {m}]
    IN  IF DidSplit(s, m, sep)
        THEN LeftParent(Untracked(Split([s EXCEPT !.c[m].snum = up,
                                                  !.tracked = @ \cup {m}],
                                        m, sep, FALSE, m + 1)), i, m)
        ELSE OnTree(s, NodeAdd(s.t, PgAt(s, m, up), KiAt(s, m, up), sep))

(* The nodes of the split page, and those of the page right of it.         *)
Halves(s, sp) ==
    [s EXCEPT !.t.pages[sp.mp].nodes = sp.left,
              !.t.pages[sp.rp].nodes = sp.right,
              !.t.full = @ \/ RoomOf(sp.leaf, sp.left) > PageRoom
                           \/ RoomOf(sp.leaf, sp.right) > PageRoom]

(* The temporary cursor m is on the right page.                            *)
OnRight(s, i, m, rp) ==
    [Copy(s, i, m) EXCEPT !.c[m].pg[Top(s, i)] = rp,
                          !.c[m].ki[Top(s, i) - 1] = @ + 1]

SplitPages(s, i, m, sp) ==
    AfterSplit(AtNewNode(Halves(WithSeparator(s, i, m, sp.sep), sp), i, m, sp),
               i, m, sp, DidSplit(s, m, sp.sep))

(* mdb_page_split: split the page cursor i is on and put node new at its   *)
(* position; repl: the node replaces one just deleted (MDB_SPLIT_REPLACE). *)
Split(s, i, new, repl, m) ==
    LET mp == Pgno(s.c[i])
        leaf == Page(s, mp).leaf
        newindx == Ki(s.c[i])
        all == InsertAt(Page(s, mp).nodes, newindx + 1, new)
        at == SplitPoint(leaf, all, newindx)
        rp == NewPgno(s.t)
        sp == [mp |-> mp, rp |-> rp, leaf |-> leaf, newindx |-> newindx,
               nkeys |-> at, repl |-> repl, new_root |-> Top(s, i) = 1,
               left |-> NoFirstKey(leaf, SubSeq(all, 1, at)),
               right |-> NoFirstKey(leaf, SubSeq(all, at + 1, Len(all))),
               sep |-> [key |-> all[at + 1].key, data |-> rp]]
        r == OnTree(s, AddPage(s.t, rp, [leaf |-> leaf, nodes |-> <<>>]))
    IN  SplitPages(OnRight(IF Top(s, i) = 1 THEN NewRoot(r, i) ELSE r,
                           i, m, rp), i, m, sp)

(* mdb_update_key: another key for the branch node cursor i is on          *)
UpdateKey(s, i, k, m) ==
    LET n == Node(s.t, s.c[i])
        pg == Pgno(s.c[i])
        delta == KeyRoom(k) - KeyRoom(n.key)
    IN  IF delta > 0 /\ Left(Page(s, pg)) < delta
        THEN Split(OnTree(s, NodeDel(s.t, pg, Ki(s.c[i]))), i,
                   [n EXCEPT !.key = k], TRUE, m)
        ELSE [s EXCEPT !.t.pages[pg].nodes[Ki(s.c[i]) + 1].key = k]

(* The separator of the page cursor i is on, with the temporary cursor     *)
(* tracked so that a split finds it.                                       *)
UpdateSeparator(s, i, m) ==
    LET k == Page(s, Pgno(s.c[i])).nodes[1].key
        mn == [Copy(s, i, m) EXCEPT !.c[m].snum = @ - 1,
                                    !.tracked = @ \cup {m}]
    IN  IF KiAt(s, i, Top(s, i) - 1) = 0 THEN s
        ELSE [UpdateKey(mn, m, k, m + 1) EXCEPT !.tracked = @ \ {m}]

EmptyFirst(s, pg) ==
    IF Page(s, pg).leaf THEN s
    ELSE [s EXCEPT !.t.pages[pg].nodes[1].key = EmptyKey]

(* A faulty variant of the next definition. *)
FirstChanged_NoUpdate(s, i, ki, pg, m) ==
    IF ki = 0 THEN EmptyFirst(s, pg) ELSE s

(* Node ki of page pg, where cursor i is, is new or gone.                  *)
FirstChanged(s, i, ki, pg, m) ==
    IF ki = 0 THEN EmptyFirst(UpdateSeparator(s, i, m), pg) ELSE s

(* A branch page that gets a new first node gives the old one its key.     *)
FirstNamed(s, b, m) ==
    LET dp == Pgno(s.c[b])
    IN  IF Page(s, dp).leaf \/ Ki(s.c[b]) > 0 THEN s
        ELSE UpdateKey([Copy(s, b, m) EXCEPT !.c[m].ki[Top(s, b)] = 0], m,
                       LowestKey(s.t, dp), m + 1)

MoveNode(s, a, b) ==
    LET leaf == Page(s, Pgno(s.c[a])).leaf
        src == Node(s.t, s.c[a])
        key == IF ~leaf /\ Ki(s.c[a]) = 0 THEN LowestKey(s.t, src.data)
               ELSE src.key
    IN  OnTree(s, NodeDel(NodeAdd(s.t, Pgno(s.c[b]), Ki(s.c[b]),
                                  [src EXCEPT !.key = key]),
                          Pgno(s.c[a]), Ki(s.c[a])))

(* mdb_node_move: the node cursor a is on goes to where cursor b is.       *)
NodeMove(s, a, b, fromleft, m) ==
    LET l == Top(s, a)
        sp == PgAt(s, a, l)
        dp == PgAt(s, b, l)
        si == KiAt(s, a, l)
        di == KiAt(s, b, l)
        To(c) == [c EXCEPT !.pg[l] = dp, !.ki[l] = di,
                           !.ki[l - 1] = @ + IF fromleft THEN 1 ELSE -1]
        Fix(c) ==
            IF ~Reaches(c, l) THEN c
            ELSE IF fromleft
                 THEN IF c.pg[l] = dp /\ c.ki[l] >= di
                      THEN [c EXCEPT !.ki[l] = @ + 1]
                      ELSE IF c.pg[l] = sp /\ c.ki[l] = si THEN To(c) ELSE c
            ELSE IF c.pg[l] # sp THEN c
            ELSE IF c.ki[l] = 0 THEN To(c) ELSE [c EXCEPT !.ki[l] = @ - 1]
        moved == Adjust(MoveNode(FirstNamed(s, b, m), a, b), b, Fix)
    IN  FirstChanged(FirstChanged(moved, a, si, sp, m), b, di, dp, m)

RECURSIVE Rebalance(_, _, _)

(* The parent of a merged page is rebalanced, and may have gone.           *)
ParentRebalanced(s, b, l, m) ==
    LET Below(r) == [r EXCEPT !.c[b].snum = l + r.t.depth - s.t.depth]
    IN  Below(Rebalance([s EXCEPT !.c[b].snum = l - 1], b, m))

(* mdb_page_merge: the page of cursor a goes into that of cursor b.        *)
PageMerge(s, a, b, m) ==
    LET l == Top(s, a)
        sp == PgAt(s, a, l)
        dp == PgAt(s, b, l)
        pp == PgAt(s, a, l - 1)
        pi == KiAt(s, a, l - 1)
        nkeys == Num(Page(s, dp))
        leaf == Page(s, sp).leaf
        first == IF leaf THEN Page(s, sp).nodes[1].key ELSE LowestKey(s.t, sp)
        moved == IF Num(Page(s, sp)) = 0 THEN <<>>
                 ELSE [Page(s, sp).nodes EXCEPT ![1].key = first]
        nodes == Page(s, dp).nodes \o moved
        joined == [s.t EXCEPT !.pages[dp].nodes = nodes,
                              !.full = @ \/ RoomOf(leaf, nodes) > PageRoom]
        r == OnTree(s, DropPage(NodeDel(joined, pp, pi), sp))
        Fix(c) ==
            IF c.snum < l THEN c
            ELSE IF c.pg[l] = sp
                 THEN [c EXCEPT !.pg[l] = dp, !.ki[l] = @ + nkeys,
                                !.ki[l - 1] = KiAt(s, b, l - 1)]
            ELSE IF c.pg[l - 1] = pp /\ c.ki[l - 1] > pi
                 THEN [c EXCEPT !.ki[l - 1] = @ - 1]
            ELSE c
        unlinked == IF pi = 0 THEN EmptyFirst(r, pp) ELSE r
    IN  ParentRebalanced(Adjust(unlinked, a, Fix), b, l, m)

(* mdb_rebalance, the last page of the tree is empty *)
TreeEmptied(s, i, mp) ==
    LET Unset(c) == [c EXCEPT !.snum = 0, !.init = FALSE]
        Fix(c) == IF c.init /\ c.pg[1] = mp THEN Unset(c) ELSE c
    IN  Adjust([s EXCEPT !.t = [DropPage(@, mp) EXCEPT !.root = P_INVALID,
                                                       !.depth = 0],
                         !.c[i] = Unset(@)], i, Fix)

(* mdb_rebalance, the root has one child left *)
RootCollapsed(s, i, mp) ==
    LET root == Child(s.t, mp, 0)
        Down(f) == [l \in Levels |-> IF l < MaxDepth THEN f[l + 1] ELSE 0]
        Fix(c) == IF c.init /\ c.pg[1] = mp
                  THEN [c EXCEPT !.pg = Down(@), !.ki = Down(@),
                                 !.snum = @ - 1]
                  ELSE c
    IN  Adjust([s EXCEPT !.t = [DropPage(@, mp) EXCEPT !.root = root,
                                                       !.depth = @ - 1],
                         !.c[i].pg = [Down(@) EXCEPT ![1] = root],
                         !.c[i].ki = Down(@)], i, Fix)

MinKeys(p) == IF p.leaf THEN 1 ELSE 2

(* PAGEFILL against FILL_THRESHOLD: a quarter of a leaf, anything of a     *)
(* branch.                                                                 *)
FillEnough(p) == IF p.leaf THEN 4 * Used(p) >= PageRoom ELSE Used(p) > 0

(* mdb_rebalance: after a deletion on the page cursor i is on              *)
Rebalance(s, i, m) ==
    LET top == Top(s, i)
        mp == Pgno(s.c[i])
        p == Page(s, mp)
        fromleft == KiAt(s, i, top - 1) > 0
        side == IF fromleft THEN -1 ELSE 1
        np == Child(s.t, PgAt(s, i, top - 1), KiAt(s, i, top - 1) + side)
        q == Page(s, np)
        oldki == KiAt(s, i, top)
        s1 == [Copy(s, i, m) EXCEPT
                  !.c[m].ki[top - 1] = @ + side,
                  !.c[m].pg[top] = np,
                  !.c[m].ki[top] = IF fromleft THEN Num(q) - 1 ELSE 0,
                  !.c[i].ki[top] = IF fromleft THEN 0 ELSE Num(p)]
        from == IF fromleft THEN i ELSE m
        Merged == PageMerge(IF fromleft
                            THEN [s1 EXCEPT !.c[m].ki[top] = @ + 1,
                                            !.tracked = @ \cup {m}]
                            ELSE s1,
                            from, i + m - from, m + 1)
        Kept(r) == Copy([r EXCEPT !.tracked = @ \ {m}],
                        IF fromleft THEN m ELSE i, i)
        At(r, ki) == [r EXCEPT !.c[i].ki[Top(r, i)] = ki]
    IN  IF FillEnough(p) /\ Num(p) >= MinKeys(p) THEN s
        ELSE IF top = 1
             THEN IF Num(p) = 0 THEN TreeEmptied(s, i, mp)
                  ELSE IF ~p.leaf /\ Num(p) = 1 THEN RootCollapsed(s, i, mp)
                  ELSE s
        ELSE IF FillEnough(q) /\ Num(q) > MinKeys(p)
             THEN At(NodeMove(s1, m, i, fromleft, m + 1),
                     oldki + IF fromleft THEN 1 ELSE 0)
        ELSE [At(Kept(Merged), oldki + IF fromleft THEN Num(q) ELSE 0)
              EXCEPT !.c[i].eof = FALSE]

-----------------------------------------------------------------------------
(* mdb_cursor_put *)

Sorted(data, v) == SetToSortSeq(ToSet(data) \cup {v}, <)
DupAt(data, v) == Cardinality({w \in ToSet(data) : w < v})

OnSameNode(s, i, c) ==
    Reaches(c, Top(s, i)) /\ Pgno(s.c[i]) = c.pg[Top(s, i)]
                          /\ Ki(s.c[i]) = c.ki[Top(s, i)]

(* A faulty variant of the next definition. *)
PutNode_OthersStay(s, i, n, insert_key) ==
    IF Left(Page(s, Pgno(s.c[i]))) < NodeRoom(TRUE, n)
    THEN Split(s, i, n, ~insert_key, 3)
    ELSE OnTree(s, NodeAdd(s.t, Pgno(s.c[i]), Ki(s.c[i]), n))

(* The new node of a key goes in at the cursor, with a split when the page *)
(* has no room for it.                                                     *)
PutNode(s, i, n, insert_key) ==
    LET pg == Pgno(s.c[i])
        top == Top(s, i)
        Fix(c) == IF /\ insert_key /\ c.snum >= top
                     /\ c.pg[top] = pg /\ c.ki[top] >= Ki(s.c[i])
                  THEN [c EXCEPT !.ki[top] = @ + 1] ELSE c
    IN  IF Left(Page(s, pg)) < NodeRoom(TRUE, n)
        THEN Split(s, i, n, ~insert_key, 3)
        ELSE Adjust(OnTree(s, NodeAdd(s.t, pg, Ki(s.c[i]), n)), i, Fix)

(* The data of the key changes: in place when it keeps its room, else the  *)
(* node is deleted and put again.                                          *)
PutData(s, i, found, k, d) ==
    LET c == s.c[i]
        n == [key |-> k, data |-> d]
        Uninserted == OnTree(s, NodeDel(s.t, Pgno(c), Ki(c)))
    IN  IF found /\ DataRoom(d) = DataRoom(Node(s.t, c).data)
        THEN [s EXCEPT !.t.pages[Pgno(c)].nodes[Ki(c) + 1] = n]
        ELSE PutNode(IF found THEN Uninserted ELSE s, i, n, ~found)

(* The sub-cursor of another cursor at the key, when the item becomes a    *)
(* sub-page (converted) or had one that it was in.                         *)
mdb_xcursor_init2(c, converted) ==
    IF converted THEN [c EXCEPT !.x.init = TRUE, !.x.ki = 0] ELSE c

(* A second duplicate turns the item into a sub-page; one more is put in   *)
(* the sub-page, and moves the sub-cursors at or after it.                 *)
DupAdded(s, i, old, v) ==
    LET Fix(c) ==
            IF ~OnSameNode(s, i, c) THEN c
            ELSE LET f == mdb_xcursor_init2(c, Len(old) = 1)
                 IN  IF f.x.init /\ f.x.ki >= DupAt(old, v)
                     THEN [f EXCEPT !.x.ki = @ + 1] ELSE f
    IN  [Adjust(s, i, Fix) EXCEPT !.c[i].x = [init |-> TRUE, eof |-> FALSE,
                                              ki |-> DupAt(old, v)]]

(* md_entries counts what was put, unless it replaced something.           *)
Counted(r, added) == [r EXCEPT !.t.entries = @ + added]

(* MDB_NODUPDATA, at the place of the key                                  *)
PutAt(s, i, found, k, v) ==
    LET old == IF found THEN Node(s.t, s.c[i]).data ELSE <<>>
        new == IF dupsort THEN Sorted(old, v) ELSE <<v>>
        Done(r) ==
            IF dupsort /\ Len(new) > 1 THEN DupAdded(r, i, old, v)
            ELSE [r EXCEPT !.c[i].init = TRUE]
    IN  IF found /\ dupsort /\ new = old
        THEN IF Len(old) > 1 THEN [s EXCEPT !.c[i].x.ki = DupAt(old, v)] ELSE s
        ELSE Done(Counted(PutData(s, i, found, k, new), Len(new) - Len(old)))

(* The first key gets a root page.                                         *)
NewTree(s, i) ==
    LET pg == NewPgno(s.t)
        c == Push([NewCursor EXCEPT !.x = s.c[i].x], pg)
    IN  [s EXCEPT !.t = [AddPage(@, pg, [leaf |-> TRUE, nodes |-> <<>>])
                         EXCEPT !.root = pg, !.depth = 1],
                  !.c[i] = [c EXCEPT !.init = TRUE]]

Put(s, i, k, v) ==
    LET At(r) == PutAt(IF s.t.root = P_INVALID THEN NewTree(s, i)
                       ELSE [s EXCEPT !.c[i] = [r.c EXCEPT !.del = FALSE]],
                       i, r.found, k, v)
    IN  At(IF s.t.root = P_INVALID THEN Result(NewCursor, FALSE)
           ELSE Set(s.t, s.c[i], k))

-----------------------------------------------------------------------------
(* mdb_cursor_del0: the cursors at the end of the page go to the next one. *)
Onward(s, i) ==
    LET top == Top(s, i)
        Fix(c) ==
            IF \/ ~Reaches(c, top)
               \/ c.pg[top] # Pgno(s.c[i])
               \/ c.ki[top] < Num(Page(s, Pgno(s.c[i])))
            THEN c
            ELSE IF ParentsWith(s.t, c, TRUE) = {} THEN [c EXCEPT !.eof = TRUE]
            ELSE Sibling(s.t, c, TRUE)
    IN  IF top = 0 THEN s
        ELSE [Adjust(s, 0, Fix) EXCEPT !.c[i].del = TRUE]

(* mdb_cursor_del, mdb_cursor_del0, in a database without duplicates       *)
Del0(s, i) ==
    LET top == Top(s, i)
        mp == Pgno(s.c[i])
        ki == Ki(s.c[i])
        Fix(c) == IF ~Reaches(c, top) \/ c.pg[top] # mp THEN c
                  ELSE IF c.ki[top] = ki THEN [c EXCEPT !.del = TRUE]
                  ELSE IF c.ki[top] > ki THEN [c EXCEPT !.ki[top] = @ - 1]
                  ELSE c
        deleted == OnTree(s, [NodeDel(s.t, mp, ki) EXCEPT !.entries = @ - 1])
    IN  Onward(Rebalance(Adjust(deleted, i, Fix), i, 3), i)

-----------------------------------------------------------------------------
(* What the callers do.                                                    *)

(* The levels below the stack of a cursor are never read.                  *)
Tidy(c) ==
    [c EXCEPT !.pg = [l \in Levels |-> IF l <= c.snum THEN @[l] ELSE 0],
              !.ki = [l \in Levels |-> IF l <= c.snum THEN @[l] ELSE 0]]

(* The pages of the tree, each above its children, with their levels.      *)
RECURSIVE PagesBelow(_, _, _)
PagesBelow(t, pg, l) ==
    IF t.pages[pg].leaf THEN <<<<pg, l>>>>
    ELSE <<<<pg, l>>>> \o
         FlattenSeq([i \in DOMAIN t.pages[pg].nodes |->
                        PagesBelow(t, t.pages[pg].nodes[i].data, l + 1)])

(* Page numbers are names: after each change they follow the order of the  *)
(* pages in the tree.                                                      *)
Named(s) ==
    LET below == IF s.t.root = P_INVALID THEN <<>>
                 ELSE PagesBelow(s.t, s.t.root, 1)
        To == [pg \in DOMAIN s.t.pages |->
                  CHOOSE i \in DOMAIN below : below[i][1] = pg]
        Page1(p) == IF p.leaf THEN p
                    ELSE [p EXCEPT !.nodes = [i \in DOMAIN @ |->
                             [@[i] EXCEPT !.data = To[@]]]]
    IN  IF DOMAIN s.t.pages = DOMAIN tree.pages THEN s
        ELSE [s EXCEPT
                !.t.root = IF @ = P_INVALID THEN @ ELSE To[@],
                !.t.pages = [i \in DOMAIN below |-> Page1(@[below[i][1]])],
                !.c[User].pg = [l \in Levels |->
                    IF l <= s.c[User].snum THEN To[@[l]] ELSE @[l]]]

Become(s) == \E r \in {Named(s)} :
                tree' = r.t /\ cursor' = Tidy(r.c[User]) /\ UNCHANGED dupsort

MoveTo(c) == cursor' = Tidy(c) /\ UNCHANGED <<dupsort, tree>>

(* The cursor is on an item it has not lost.                               *)
OnItem(c) == c.init /\ ~c.eof /\ ~c.del

Init == /\ dupsort \in BOOLEAN
        /\ tree = EmptyTree
        /\ cursor = NewCursor

(* The cursors of the transaction: hashdb's, and the one of the operation. *)
Tracked == State(tree, cursor, {User, Op})

mdb_put(k, v) == \E s \in {Put(Tracked, Op, k, v)} : Become(s)

(* hashdb looks the key up with the cursor first, or writes right away.    *)
mdb_cursor_put(k, v) ==
    \E c \in {cursor, Set(tree, cursor, k).c} :
       \E s \in {Put(State(tree, c, {User}), User, k, v)} : Become(s)

(* MDB_CURRENT: a value of the same size that sorts where the old one did. *)
mdb_cursor_put_current(v) ==
    /\ OnItem(cursor)
    /\ LET d == Node(tree, cursor).data
           i == IF Len(d) > 1 THEN cursor.x.ki + 1 ELSE 1
           new == [d EXCEPT ![i] = v]
       IN  /\ <<Node(tree, cursor).key, v>> \in Puts
           /\ DataRoom(new) = DataRoom(d)
           /\ \A j, h \in DOMAIN d : j < h => new[j] < new[h]
           /\ tree' = [tree EXCEPT
                  !.pages[Pgno(cursor)].nodes[Ki(cursor) + 1].data = new]
    /\ UNCHANGED <<dupsort, cursor>>

mdb_del(k) ==
    /\ ~dupsort
    /\ \E r \in {Set(tree, NewCursor, k)} :
          /\ r.found
          /\ \E s \in {Del0([Tracked EXCEPT !.c[Op] = r.c], Op)} : Become(s)

mdb_cursor_del ==
    /\ ~dupsort /\ OnItem(cursor)
    /\ \E s \in {Del0(State(tree, cursor, {User}), User)} : Become(s)

Cleared(c) == [c EXCEPT !.del = FALSE]

(* mdb_cursor_get.  After MDB_NOTFOUND the callers write the key, or close *)
(* the cursor: they do not go on from where it is.                         *)
MDB_SET_KEY(k) ==
    \E r \in {Set(tree, cursor, k)} :
       MoveTo(IF r.found THEN Cleared(r.c) ELSE NewCursor)

MDB_FIRST == \E r \in {First(tree, cursor)} : MoveTo(Cleared(r.c))

Next3(op) ==
    \E r \in {IF cursor.init THEN NextItem(tree, cursor, op)
              ELSE First(tree, cursor)} : MoveTo(Cleared(r.c))

MDB_NEXT == Next3("NEXT")
MDB_NEXT_NODUP == Next3("NEXT_NODUP")
MDB_NEXT_DUP == OnItem(cursor) /\ Next3("NEXT_DUP")

MDB_FIRST_DUP ==
    /\ OnItem(cursor)
    /\ MoveTo(IF Len(Node(tree, cursor).data) = 1 THEN cursor
              ELSE [cursor EXCEPT !.x = [NoSub EXCEPT !.init = TRUE]])

Next ==
    \/ \E p \in Puts : mdb_put(p[1], p[2]) \/ mdb_cursor_put(p[1], p[2])
    \/ \E v \in {p[2] : p \in Puts} : mdb_cursor_put_current(v)
    \/ \E k \in Key : mdb_del(k) \/ MDB_SET_KEY(k)
    \/ mdb_cursor_del
    \/ MDB_FIRST \/ MDB_NEXT \/ MDB_NEXT_NODUP \/ MDB_NEXT_DUP
    \/ MDB_FIRST_DUP

Spec == Init /\ [][Next]_vars

-----------------------------------------------------------------------------
(* The database a tree stands for, and its shape.                          *)

(* The leaves below page pg, in order.                                     *)
RECURSIVE LeavesBelow(_, _)
LeavesBelow(t, pg) ==
    LET p == t.pages[pg]
    IN  IF p.leaf THEN <<pg>>
        ELSE FlattenSeq([i \in DOMAIN p.nodes |->
                            LeavesBelow(t, p.nodes[i].data)])

Leaves == IF tree.root = P_INVALID THEN <<>> ELSE LeavesBelow(tree, tree.root)

Nodes == FlattenSeq([i \in DOMAIN Leaves |-> tree.pages[Leaves[i]].nodes])

LeafPages == {pg \in DOMAIN tree.pages : tree.pages[pg].leaf}

ItemsOf(n) == {<<n.key, v>> : v \in ToSet(n.data)}

(* What a walk through the whole tree returns.                             *)
Items == UNION {UNION {ItemsOf(n) : n \in ToSet(tree.pages[pg].nodes)} :
                pg \in LeafPages}

(* The item the cursor is on, or after a deletion the next one.            *)
Pos ==
    LET n == Node(tree, cursor)
        v == n.data[IF Len(n.data) > 1 THEN cursor.x.ki + 1 ELSE 1]
        At(kind, i, passed) == [kind |-> kind, item |-> i, passed |-> passed]
    IN  IF ~cursor.init THEN At("none", <<0, 0>>, FALSE)
        ELSE IF cursor.eof THEN At("end", <<0, 0>>, FALSE)
        ELSE IF cursor.del THEN At("before", <<n.key, 0>>, FALSE)
        ELSE At("at", <<n.key, v>>, cursor.x.eof)

(* Every leaf is at the depth of the tree, every page is reached once, and *)
(* no page has too few keys or more than it has room for.                  *)
Balanced ==
    IF tree.root = P_INVALID
    THEN tree.pages = EmptyTree.pages /\ tree.depth = 0
    ELSE LET below == PagesBelow(tree, tree.root, 1)
         IN  /\ Len(below) = Cardinality(DOMAIN tree.pages)
             /\ {x[1] : x \in ToSet(below)} = DOMAIN tree.pages
             /\ \A x \in ToSet(below) : LET p == tree.pages[x[1]] IN
                    /\ p.leaf <=> x[2] = tree.depth
                    /\ Num(p) >= MinKeys(p)
                    /\ Used(p) <= PageRoom

(* The key of a branch node divides the keys below from those before.      *)
Separates(pg) ==
    LET p == tree.pages[pg]
        KeysOf(i) == UNION {{n.key : n \in ToSet(tree.pages[q].nodes)} :
                            q \in ToSet(LeavesBelow(tree, p.nodes[i].data))}
    IN  p.leaf \/ /\ p.nodes[1].key = EmptyKey
                  /\ \A i \in 2..Num(p) :
                        /\ \A k \in KeysOf(i) : p.nodes[i].key <= k
                        /\ \A k \in KeysOf(i - 1) : k < p.nodes[i].key

(* The stack of the cursor that stayed open leads from the root to its     *)
(* leaf, although other cursors split and merged the pages on it.          *)
OnPath(c) ==
    c.init =>
        /\ c.snum = tree.depth
        /\ c.pg[1] = tree.root
        /\ \A l \in 1..(c.snum - 1) :
              /\ c.ki[l] < Num(tree.pages[c.pg[l]])
              /\ c.pg[l + 1] = Child(tree, c.pg[l], c.ki[l])

(* After any sequence of writes and deletions, with their splits, borrowed *)
(* nodes and merged pages, the tree is a balanced search tree of its keys, *)
(* md_entries (the sizes hashdb prints) counts its items, and the cursor   *)
(* that stayed open is on a path of it.  No node was added to a page that  *)
(* is full (mdb_node_add says of MDB_PAGE_FULL: "this should never happen  *)
(* since all callers already calculate the page's free space").            *)
TreeIsSound ==
    /\ Balanced
    /\ tree.depth <= MaxDepth
    /\ \A i, j \in DOMAIN Nodes : i < j => Nodes[i].key < Nodes[j].key
    /\ \A pg \in DOMAIN tree.pages : Separates(pg)
    /\ tree.entries = FoldSeq(LAMBDA n, sum : Len(n.data) + sum, 0, Nodes)
    /\ OnPath(cursor)
    /\ ~tree.full
=============================================================================
