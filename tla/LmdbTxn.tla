------------------------------ MODULE LmdbTxn -------------------------------
(***************************************************************************)
(* Transactions of liblmdb (mdb.c) on one store, the way hashdb uses them: *)
(* processes that write with MDB_WRITEMAP | MDB_NOSYNC, one write          *)
(* transaction at a time, and processes that read with MDB_RDONLY, all of  *)
(* them over one map of pages, two meta pages and one lock file.           *)
(*                                                                         *)
(* The main database is a root page that names one leaf page per key; the  *)
(* free database is one page of records, the pages freed by a transaction  *)
(* under its txnid.  A page of a committed tree is never written: a        *)
(* transaction copies it (mdb_page_touch) and frees the old one, and a     *)
(* freed page is used again only when no reader can see it.  A process may *)
(* die at every step; what it wrote to the map stays, since the map is     *)
(* shared.  Loss of the machine is not modelled: under MDB_NOSYNC the      *)
(* store promises nothing then.                                            *)
(***************************************************************************)
EXTENDS Naturals, FiniteSets, FiniteSetsExt

CONSTANTS
    Writers,      \* processes that open the store for writing
    Readers,      \* processes that open the store MDB_RDONLY
    Key,          \* keys of the main database
    InitMap,      \* pages of a new map
    GrowMargin,   \* maybe_grow grows the map when fewer pages are left
    Free,         \* the writer mutex has no owner
    Dead,         \* the owner of the writer mutex died
    MaxTxn,       \* bound on txnid
    MaxPuts,      \* bound on the changes of one transaction
    MaxOpens,     \* bound on env_open
    MaxPgno       \* bound on the pages of the map

VARIABLES
    page,         \* the map, shared by all processes
    meta,         \* the two meta pages
    info,         \* the lock file (MDB_txninfo)
    env,          \* MDB_env of every process
    txn,          \* the transaction of every process, and where it stands
    hist,         \* history: the data of every committed transaction
    opens

vars == <<page, meta, info, env, txn, hist, opens>>

Procs == Writers \cup Readers

(* The two states of the mutex without an owner are no process.            *)
ASSUME LmdbTxnAssumption ==
    /\ Free \notin Procs
    /\ Dead \notin Procs
    /\ Free # Dead

(* Pages 0 and 1 of the map are the meta pages.                            *)
ASSUME BoundsAssumption ==
    /\ MaxTxn \in Nat
    /\ MaxPgno \in Nat \ {0}

P_INVALID == 0

(* (txnid_t)-1, greater than every txnid: a reader slot out of use.        *)
Idle == MaxTxn + 1

EmptyRecs == [i \in {} |-> {}]

NoPage == [leaf |-> <<>>, kids |-> [k \in Key |-> P_INVALID],
           recs |-> EmptyRecs]

NoTxn == [pc |-> "idle", txnid |-> 0, main |-> P_INVALID,
          free |-> P_INVALID, next_pgno |-> 0,
          dirty |-> {}, free_pgs |-> {}, loose |-> {},
          head |-> FALSE, pghead |-> {}, pglast |-> 0, found_old |-> FALSE,
          full |-> FALSE, puts |-> 0,
          from |-> 0, sound |-> FALSE, view |-> [k \in Key |-> <<>>]]

Closed == [open |-> FALSE, maxpg |-> 0, pgoldest |-> 0]

(***************************************************************************)
(* What a root page leads to.                                              *)
(***************************************************************************)
Kids(pg, root) == IF root = P_INVALID THEN {}
                  ELSE {pg[root].kids[k] : k \in Key} \ {P_INVALID}

Reachable(pg, root) ==
    IF root = P_INVALID THEN {} ELSE {root} \cup Kids(pg, root)

Data(pg, root) ==
    [k \in Key |->
        IF root = P_INVALID \/ pg[root].kids[k] = P_INVALID THEN <<>>
        ELSE pg[pg[root].kids[k]].leaf]

Recs(pg, free) == IF free = P_INVALID THEN EmptyRecs ELSE pg[free].recs

pick_meta == meta[IF meta[0].txnid < meta[1].txnid THEN 1 ELSE 0]

Committed == DOMAIN hist

(***************************************************************************)
(* A new store: both meta pages are the empty tree of txnid 0.             *)
(***************************************************************************)
init_meta == [txnid |-> 0, main |-> P_INVALID, free |-> P_INVALID,
              last_pg |-> 1, mapsize |-> InitMap,
              owner |-> 0, last_owner |-> 0]

Init ==
    /\ page = [i \in 2..MaxPgno |-> NoPage]
    /\ meta = [i \in 0..1 |-> init_meta]
    /\ info = [txnid |-> 0, wmutex |-> Free, stale |-> {},
               slot |-> [p \in Procs |-> Idle]]
    /\ env = [p \in Procs |-> Closed]
    /\ txn = [p \in Procs |-> NoTxn]
    /\ hist = [t \in {0} |-> [k \in Key |-> <<>>]]
    /\ opens = 0

(***************************************************************************)
(* mdb_env_open: the first process to open the store has the lock file to  *)
(* itself and sets it up anew; mdb_env_close clears the reader slot.       *)
(***************************************************************************)
env_open(p) ==
    /\ ~env[p].open
    /\ opens < MaxOpens
    /\ opens' = opens + 1
    /\ env' = [env EXCEPT ![p] =
                  [open |-> TRUE, maxpg |-> pick_meta.mapsize,
                   pgoldest |-> 0]]
    /\ IF \E q \in Procs : env[q].open
       THEN UNCHANGED info
       ELSE info' = [info EXCEPT !.txnid = pick_meta.txnid,
                                 !.wmutex = Free, !.stale = {}]
    /\ UNCHANGED <<page, meta, txn, hist>>

env_close(p) ==
    /\ env[p].open
    /\ txn[p].pc = "idle"
    /\ env' = [env EXCEPT ![p] = Closed]
    /\ UNCHANGED <<page, meta, info, txn, hist, opens>>

(* The process is gone: its mutex is marked, its reader slot stays.        *)
Gone(p, lock) ==
    /\ env' = [env EXCEPT ![p] = Closed]
    /\ txn' = [txn EXCEPT ![p] = NoTxn]
    /\ info' = [info EXCEPT
                   !.wmutex = lock,
                   !.stale = @ \cup ({info.slot[p]} \ {Idle}),
                   !.slot[p] = Idle]

Crash(p) ==
    /\ env[p].open
    /\ Gone(p, IF info.wmutex = p THEN Dead ELSE info.wmutex)
    /\ UNCHANGED <<page, meta, hist, opens>>

(***************************************************************************)
(* mdb_page_alloc for one page, on the transaction t of process p with the *)
(* map pg: a loose page, else the smallest page of me_pghead, else the     *)
(* next records of the free database that are older than every reader,     *)
(* else a new page of the map.  The scan of the reader table is a step of  *)
(* its own (find_oldest), so its result may be old when it is used.        *)
(***************************************************************************)
(* A faulty variant of the next definition. *)
Oldest_NoReaders(t) == t.txnid - 1

Oldest(t) ==
    Min({t.txnid - 1} \cup info.stale \cup {info.slot[q] : q \in Procs})

(* The records that the loop of mdb_page_alloc merges into me_pghead: it   *)
(* stops at the first one that is not empty, or too recent.                *)
Fetched(pg, t, oldest) ==
    LET recs == Recs(pg, t.free)
        left == {i \in DOMAIN recs : i > t.pglast}
    IN  IF t.pghead # {} THEN {}
        ELSE {i \in left : i < oldest
                           /\ \A j \in left : j < i => recs[j] = {}}

Fetch(pg, t, oldest) ==
    LET got == Fetched(pg, t, oldest)
    IN  IF got = {} THEN t
        ELSE [t EXCEPT !.head = TRUE, !.pglast = Max(got),
                       !.pghead = UNION {Recs(pg, t.free)[i] : i \in got}]

(* The cached me_pgoldest does not let a record through that a scan of the *)
(* reader table might.                                                     *)
NeedsOldest(p) ==
    LET t == Fetch(page, txn[p], env[p].pgoldest)
    IN  /\ txn[p].loose = {}
        /\ t.pghead = {}
        /\ ~txn[p].found_old
        /\ \/ t.pglast + 1 >= env[p].pgoldest
           \/ \E i \in DOMAIN Recs(page, t.free) : i > t.pglast

find_oldest(p) ==
    /\ txn[p].pc \in {"write", "save"}
    /\ NeedsOldest(p)
    /\ env' = [env EXCEPT ![p].pgoldest = Oldest(txn[p])]
    /\ txn' = [txn EXCEPT ![p].found_old = TRUE]
    /\ UNCHANGED <<page, meta, info, hist, opens>>

mdb_page_dirty(t, np) == [t EXCEPT !.dirty = @ \cup {np}]

(* The next page of the map, unless the map is full.                       *)
NewPage(t, e) ==
    IF t.next_pgno + 1 >= e.maxpg
    THEN [np |-> P_INVALID, t |-> [t EXCEPT !.full = TRUE]]
    ELSE [np |-> t.next_pgno,
          t |-> mdb_page_dirty([t EXCEPT !.next_pgno = @ + 1], t.next_pgno)]

(* The page that is allocated, and the transaction after that.             *)
page_alloc(pg, t, e) ==
    LET f == Fetch(pg, t, e.pgoldest)
    IN  IF t.loose # {}
        THEN LET np == CHOOSE i \in t.loose : TRUE
             IN  [np |-> np, t |-> [t EXCEPT !.loose = @ \ {np}]]
        ELSE IF f.pghead # {}
        THEN LET np == Min(f.pghead)
             IN  [np |-> np,
                  t |-> mdb_page_dirty([f EXCEPT !.pghead = @ \ {np}], np)]
        ELSE NewPage(f, e)

(* mdb_page_touch on page mp: a page of this transaction stays, another    *)
(* one is copied and freed; P_INVALID is a page that is still to be made   *)
(* (mdb_page_new).  First a faulty variant.                                *)
page_touch_NotFreed(pg, t, e, mp) ==
    IF mp # P_INVALID /\ mp \in t.dirty THEN [np |-> mp, pg |-> pg, t |-> t]
    ELSE LET a == page_alloc(pg, t, e)
         IN  IF a.t.full THEN [np |-> P_INVALID, pg |-> pg, t |-> a.t]
             ELSE [np |-> a.np,
                   pg |-> [pg EXCEPT ![a.np] =
                              IF mp = P_INVALID THEN NoPage ELSE pg[mp]],
                   t |-> a.t]

page_touch(pg, t, e, mp) ==
    IF mp # P_INVALID /\ mp \in t.dirty THEN [np |-> mp, pg |-> pg, t |-> t]
    ELSE LET a == page_alloc(pg, t, e)
         IN  IF a.t.full THEN [np |-> P_INVALID, pg |-> pg, t |-> a.t]
             ELSE [np |-> a.np,
                   pg |-> [pg EXCEPT ![a.np] =
                              IF mp = P_INVALID THEN NoPage ELSE pg[mp]],
                   t |-> [a.t EXCEPT !.free_pgs =
                              @ \cup ({mp} \ {P_INVALID})]]

(* The path to the leaf of key k made writable: the root in r, then the    *)
(* leaf, whose page is the np of the result.                               *)
RootTouched(p) == page_touch(page, txn[p], env[p], txn[p].main)

LeafTouched(r, e, k) ==
    LET l == page_touch(r.pg, [r.t EXCEPT !.main = r.np], e,
                        r.pg[r.np].kids[k])
    IN  [l EXCEPT !.pg = IF l.t.full THEN @
                         ELSE [@ EXCEPT ![r.np].kids[k] = l.np]]

(* mdb_page_loose on a dirty page of the main database.                    *)
page_loose(t, np) == [t EXCEPT !.loose = @ \cup {np}]

(***************************************************************************)
(* Beginning a write transaction: the caller first lets the map grow       *)
(* (maybe_grow), then waits for the writer mutex.  When its owner died,    *)
(* mdb_mutex_failed repairs the lock file.                                 *)
(***************************************************************************)
(* A map is made no smaller than what the newest meta page says it holds.  *)
mdb_env_set_mapsize(size) == Max({size, pick_meta.last_pg + 1})

maybe_grow(p) ==
    /\ p \in Writers /\ env[p].open /\ txn[p].pc = "idle"
    /\ info.txnid < MaxTxn
    /\ txn' = [txn EXCEPT ![p].pc = "grown"]
    /\ env' = IF env[p].maxpg <= pick_meta.last_pg + GrowMargin
              THEN [env EXCEPT ![p].maxpg = mdb_env_set_mapsize(2 * @)]
              ELSE env
    /\ UNCHANGED <<page, meta, info, hist, opens>>

(* The slots of the readers whose process is gone are cleared.             *)
reader_check(i) == [i EXCEPT !.stale = {}]

(* A faulty variant of the next definition. *)
mutex_failed_KeepsTxnid(i) == reader_check(i)

mutex_failed(i) == [reader_check(i) EXCEPT !.txnid = pick_meta.txnid]

(* mdb_txn_renew0 for a write transaction that holds the mutex in i.       *)
(* A faulty variant of the next definition. *)
renew0_Unlocked(p, i) ==
    LET m == meta[i.txnid % 2]
    IN  IF env[p].maxpg < m.last_pg + 1
        THEN /\ env' = [env EXCEPT ![p] = Closed]
             /\ txn' = [txn EXCEPT ![p] = NoTxn]
             /\ info' = i
        ELSE /\ env' = env
             /\ info' = i
             /\ txn' = [txn EXCEPT ![p] =
                           [NoTxn EXCEPT !.pc = "write",
                                         !.txnid = i.txnid + 1,
                                         !.main = m.main, !.free = m.free,
                                         !.next_pgno = m.last_pg + 1]]

renew0(p, i) ==
    LET m == meta[i.txnid % 2]
    IN  IF env[p].maxpg < m.last_pg + 1
        THEN (* MDB_MAP_RESIZED: the mutex is released, the caller aborts. *)
             /\ env' = [env EXCEPT ![p] = Closed]
             /\ txn' = [txn EXCEPT ![p] = NoTxn]
             /\ info' = i
        ELSE /\ env' = env
             /\ info' = [i EXCEPT !.wmutex = p]
             /\ txn' = [txn EXCEPT ![p] =
                           [NoTxn EXCEPT !.pc = "write",
                                         !.txnid = i.txnid + 1,
                                         !.main = m.main, !.free = m.free,
                                         !.next_pgno = m.last_pg + 1]]

txn_begin(p) ==
    /\ txn[p].pc = "grown"
    /\ info.txnid < MaxTxn
    /\ \/ info.wmutex = Free /\ renew0(p, info)
       \/ info.wmutex = Dead
          /\ pick_meta.txnid < MaxTxn
          /\ renew0(p, [mutex_failed(info) EXCEPT !.wmutex = Free])
    /\ UNCHANGED <<page, meta, hist, opens>>

(***************************************************************************)
(* The changes of a write transaction, in the map itself.  When the map is *)
(* full (MDB_MAP_FULL) the caller aborts, with the mutex in its hands.     *)
(***************************************************************************)
Changed(p, pg, t) ==
    IF t.full
    THEN page' = pg /\ Gone(p, Dead)
    ELSE /\ page' = pg
         /\ txn' = [txn EXCEPT ![p] = t]
         /\ UNCHANGED <<info, env>>

(* At most two new pages per step: the bound on the map.                   *)
Room(p) == txn[p].next_pgno < MaxPgno

put(p, k) ==
    /\ txn[p].pc = "write" /\ txn[p].puts < MaxPuts
    /\ ~NeedsOldest(p) /\ Room(p)
    /\ \E r \in {RootTouched(p)} :
       \E c \in {IF r.t.full THEN r ELSE LeafTouched(r, env[p], k)} :
           Changed(p, IF c.t.full THEN c.pg
                      ELSE [c.pg EXCEPT ![c.np].leaf =
                               <<txn[p].txnid, opens>>],
                   [c.t EXCEPT !.puts = @ + 1, !.found_old = FALSE])
    /\ UNCHANGED <<meta, hist, opens>>

(* The leaf is loosened; a root without leaves goes to mt_free_pgs.        *)
Unlinked(c, k) ==
    LET pg == [c.pg EXCEPT ![c.t.main].kids[k] = P_INVALID]
        t == page_loose(c.t, c.np)
    IN  IF Kids(pg, c.t.main) # {} THEN [pg |-> pg, t |-> t]
        ELSE [pg |-> pg,
              t |-> [t EXCEPT !.main = P_INVALID,
                              !.free_pgs = @ \cup {c.t.main}]]

del(p, k) ==
    /\ txn[p].pc = "write" /\ txn[p].puts < MaxPuts
    /\ ~NeedsOldest(p) /\ Room(p)
    /\ Data(page, txn[p].main)[k] # <<>>
    /\ \E r \in {RootTouched(p)} :
       \E c \in {IF r.t.full THEN r ELSE LeafTouched(r, env[p], k)} :
       \E u \in {IF c.t.full THEN c ELSE Unlinked(c, k)} :
           Changed(p, u.pg, [u.t EXCEPT !.puts = @ + 1,
                                        !.found_old = FALSE])
    /\ UNCHANGED <<meta, hist, opens>>

(***************************************************************************)
(* Committing.  mdb_freelist_save first makes the page of the free         *)
(* database writable, which itself allocates and frees pages, then drops   *)
(* the records it used up, stores the pages this transaction freed under   *)
(* its txnid, and stores what is left of me_pghead under the last record   *)
(* it used up.                                                             *)
(***************************************************************************)
TouchFree(s, e) ==
    LET a == page_touch(s.pg, s.t, e, s.t.free)
    IN  [pg |-> a.pg, t |-> IF a.t.full THEN a.t
                            ELSE [a.t EXCEPT !.free = a.np]]

TouchFirst(s, e) ==
    IF s.t.head /\ s.t.free # P_INVALID THEN TouchFree(s, e) ELSE s

LooseToFreed(s) ==
    IF s.t.head THEN s
    ELSE [s EXCEPT !.t.free_pgs = @ \cup s.t.loose, !.t.loose = {}]

Used(s) == {i \in DOMAIN Recs(s.pg, s.t.free) : i <= s.t.pglast}

(* mdb_cursor_del of the records used up, on the page made writable; the   *)
(* free database may end empty.                                            *)
TouchToDelete(s, e) ==
    IF s.t.full \/ Used(s) = {} THEN s ELSE TouchFree(s, e)

DeleteUsed(s) ==
    LET recs == Recs(s.pg, s.t.free)
        left == DOMAIN recs \ Used(s)
    IN  IF s.t.full \/ Used(s) = {} THEN s
        ELSE IF left = {}
        THEN [s EXCEPT !.t.free = P_INVALID,
                       !.t.free_pgs = @ \cup {s.t.free}]
        ELSE [s EXCEPT !.pg[s.t.free].recs = [i \in left |-> recs[i]]]

(* A record of the free database written; s.t.free is writable.            *)
PutRecord(s, id, pgs) ==
    LET recs == s.pg[s.t.free].recs
    IN  [s EXCEPT !.pg[s.t.free].recs =
            [i \in DOMAIN recs \cup {id} |->
                IF i = id THEN pgs ELSE recs[i]]]

TouchToSave(s, e) ==
    IF s.t.full \/ s.t.free_pgs = {} THEN s ELSE TouchFree(s, e)

SaveFreed(s) ==
    IF s.t.full \/ s.t.free_pgs = {} THEN s
    ELSE PutRecord(s, s.t.txnid, s.t.free_pgs)

SaveHead(s) ==
    IF s.t.full \/ s.t.pghead \cup s.t.loose = {} THEN s
    ELSE PutRecord(s, s.t.pglast, s.t.pghead \cup s.t.loose)

(* A transaction that changed nothing ends without writing.                *)
txn_commit(p) ==
    /\ txn[p].pc = "write"
    /\ txn' = [txn EXCEPT ![p].pc = IF txn[p].dirty = {} THEN "end"
                                    ELSE "save"]
    /\ UNCHANGED <<page, meta, info, env, hist, opens>>

freelist_save(p) ==
    /\ txn[p].pc = "save"
    /\ ~NeedsOldest(p) /\ Room(p)
    /\ \E first \in {TouchFirst([pg |-> page, t |-> txn[p]], env[p])} :
       \E second \in {TouchToDelete(LooseToFreed(first), env[p])} :
       \E third \in {TouchToSave(DeleteUsed(second), env[p])} :
       \E saved \in {SaveHead(DeleteUsed(SaveFreed(third)))} :
          Changed(p, saved.pg, [saved.t EXCEPT !.pc = "dbs"])
    /\ UNCHANGED <<meta, hist, opens>>

(***************************************************************************)
(* mdb_env_write_meta, in the map and seen by readers field by field: the  *)
(* roots, the last page, the txnid that makes the transaction count, and   *)
(* then the txnid of the lock file that readers and writers go by.         *)
(***************************************************************************)
Toggle(p) == txn[p].txnid % 2

write_meta_dbs(p) ==
    /\ txn[p].pc = "dbs"
    /\ meta' = [meta EXCEPT ![Toggle(p)] =
                   [@ EXCEPT !.mapsize = Max({meta[1 - Toggle(p)].mapsize,
                                              env[p].maxpg}),
                             !.free = txn[p].free, !.main = txn[p].main,
                             !.owner = txn[p].txnid]]
    /\ txn' = [txn EXCEPT ![p].pc = "last"]
    /\ UNCHANGED <<page, info, env, hist, opens>>

write_meta_last(p) ==
    /\ txn[p].pc = "last"
    /\ meta' = [meta EXCEPT ![Toggle(p)].last_pg = txn[p].next_pgno - 1,
                            ![Toggle(p)].last_owner = txn[p].txnid]
    /\ txn' = [txn EXCEPT ![p].pc = "txnid"]
    /\ UNCHANGED <<page, info, env, hist, opens>>

write_meta_txnid(p) ==
    /\ txn[p].pc = "txnid"
    /\ meta' = [meta EXCEPT ![Toggle(p)].txnid = txn[p].txnid]
    /\ hist' = [t \in Committed \cup {txn[p].txnid} |->
                   IF t = txn[p].txnid THEN Data(page, txn[p].main)
                   ELSE hist[t]]
    /\ txn' = [txn EXCEPT ![p].pc = "publish"]
    /\ UNCHANGED <<page, info, env, opens>>

publish(p) ==
    /\ txn[p].pc = "publish"
    /\ info' = [info EXCEPT !.txnid = txn[p].txnid]
    /\ txn' = [txn EXCEPT ![p].pc = "end"]
    /\ UNCHANGED <<page, meta, env, hist, opens>>

(* mdb_txn_end: the mutex is released.                                     *)
txn_end(p) ==
    /\ txn[p].pc = "end"
    /\ info' = [info EXCEPT !.wmutex = Free]
    /\ txn' = [txn EXCEPT ![p] = NoTxn]
    /\ UNCHANGED <<page, meta, env, hist, opens>>

(***************************************************************************)
(* A read transaction: the txnid of the lock file is copied to the reader  *)
(* slot and compared again, then the meta page is copied field by field,   *)
(* and the tree is read in place until the transaction ends.               *)
(***************************************************************************)
read_txnid(p) ==
    /\ p \in Readers /\ env[p].open /\ txn[p].pc \in {"idle", "load"}
    /\ txn' = [txn EXCEPT ![p].pc = "store", ![p].txnid = info.txnid]
    /\ UNCHANGED <<page, meta, info, env, hist, opens>>

store_slot(p) ==
    /\ txn[p].pc = "store"
    /\ info' = [info EXCEPT !.slot[p] = txn[p].txnid]
    /\ txn' = [txn EXCEPT ![p].pc = "check"]
    /\ UNCHANGED <<page, meta, env, hist, opens>>

check_slot(p) ==
    /\ txn[p].pc = "check"
    /\ txn' = [txn EXCEPT ![p].pc = IF info.slot[p] = info.txnid THEN "copy"
                                    ELSE "load"]
    /\ UNCHANGED <<page, meta, info, env, hist, opens>>

copy_dbs(p) ==
    LET m == meta[txn[p].txnid % 2]
    IN  /\ txn[p].pc = "copy"
        /\ txn' = [txn EXCEPT ![p] =
                      [@ EXCEPT !.pc = "copy_last", !.main = m.main,
                                !.from = m.owner,
                                !.sound = m.owner \in Committed,
                                !.view = Data(page, m.main)]]
        /\ UNCHANGED <<page, meta, info, env, hist, opens>>

(* The map of this process may be too small for the tree                   *)
(* (MDB_MAP_RESIZED): the caller aborts.                                   *)
copy_last(p) ==
    LET m == meta[txn[p].txnid % 2]
        next == m.last_pg + 1
    IN  /\ txn[p].pc = "copy_last"
        /\ IF env[p].maxpg < next
           THEN /\ info' = [info EXCEPT !.slot[p] = Idle]
                /\ txn' = [txn EXCEPT ![p] = NoTxn]
                /\ env' = [env EXCEPT ![p] = Closed]
           ELSE /\ txn' = [txn EXCEPT ![p].pc = "read",
                              ![p].next_pgno = next,
                              ![p].sound = @ /\ txn[p].from <= m.last_owner]
                /\ UNCHANGED <<info, env>>
        /\ UNCHANGED <<page, meta, hist, opens>>

read_end(p) ==
    /\ txn[p].pc = "read"
    /\ info' = [info EXCEPT !.slot[p] = Idle]
    /\ txn' = [txn EXCEPT ![p] = NoTxn]
    /\ UNCHANGED <<page, meta, env, hist, opens>>

Writing(p) ==
    \/ maybe_grow(p) \/ txn_begin(p) \/ find_oldest(p)
    \/ \E k \in Key : put(p, k) \/ del(p, k)
    \/ txn_commit(p) \/ freelist_save(p)
    \/ write_meta_dbs(p) \/ write_meta_last(p) \/ write_meta_txnid(p)
    \/ publish(p) \/ txn_end(p)

Reading(p) ==
    \/ read_txnid(p) \/ store_slot(p) \/ check_slot(p)
    \/ copy_dbs(p) \/ copy_last(p) \/ read_end(p)

Next ==
    \E p \in Procs :
        \/ env_open(p) \/ env_close(p) \/ Crash(p)
        \/ Writing(p) \/ Reading(p)

Spec == Init /\ [][Next]_vars

-----------------------------------------------------------------------------
(* The newest meta page describes the last commit in full at every moment, *)
(* whoever died where: its tree holds the data that was committed, and     *)
(* every page of the map is a page of the main tree, the page of the free  *)
(* database or in one record of it, and never in two of these places       *)
(* (mdb_freelist_save loses no page and frees none that is in use).        *)
NewestIsIntact ==
    LET m == pick_meta
        recs == Recs(page, m.free)
        root == {m.free} \ {P_INVALID}
        tree == Reachable(page, m.main)
    IN  /\ m.txnid = Max(Committed)
        /\ Data(page, m.main) = hist[m.txnid]
        /\ 2..m.last_pg =
              UNION ({tree, root} \cup {recs[i] : i \in DOMAIN recs})
        /\ tree \cap root = {}
        /\ \A i \in DOMAIN recs :
              /\ recs[i] \cap (tree \cup root) = {}
              /\ \A j \in DOMAIN recs : j # i => recs[i] \cap recs[j] = {}

(* A reader sees one committed state for as long as it reads: nobody       *)
(* writes to a page of its tree, and every page is below its mt_next_pgno  *)
(* (mdb_find_oldest, the retry of mdb_txn_renew0).  That is not promised   *)
(* to a reader that sat between filling its slot (mdb.c:2683) and copying  *)
(* the meta page (mdb.c:2718) while a whole commit went by and a second    *)
(* one was writing the same meta page: its copy is torn, and its snapshot  *)
(* is wrong.                                                               *)
SnapshotIntact ==
    \A p \in Readers :
        txn[p].pc = "read" =>
            IF txn[p].sound
            THEN /\ txn[p].view = hist[txn[p].from]
                 /\ Data(page, txn[p].main) = txn[p].view
                 /\ \A i \in Reachable(page, txn[p].main) :
                       i < txn[p].next_pgno
            ELSE Max(Committed) > txn[p].txnid

(* A write transaction builds on the last commit, also when the writer     *)
(* before it died anywhere in its commit: no committed transaction is lost *)
(* (mdb_mutex_failed keeps mti_txnid up to date, mdb.c:9990).              *)
BuildsOnLastCommit ==
    \A p \in Writers :
        txn[p].pc \in {"write", "save", "dbs", "last", "txnid"} =>
            txn[p].txnid = Max(Committed) + 1
=============================================================================
