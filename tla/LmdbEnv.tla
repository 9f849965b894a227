------------------------------ MODULE LmdbEnv -------------------------------
(***************************************************************************)
(* How a database is created and how processes open a store of it          *)
(* (create_hashdb, open_env, mdb_env_open): the directory, the settings    *)
(* file, the lock file with its file lock and the data file.  The first    *)
(* process to open a store finds no other on the lock file, locks it       *)
(* exclusively, resets the lock region in it and the data file if it is    *)
(* empty, and then shares the lock.  The others wait for that.  A process  *)
(* may be killed at any step; the kernel drops its file lock.              *)
(*                                                                         *)
(* A database has five stores, opened one after the other in the same way: *)
(* this is one of them.  What happens between opening and closing is in    *)
(* LmdbTxn; here a transaction is what it does to the meta pages, to the   *)
(* txnid of the lock region and to the writer mutex.                       *)
(***************************************************************************)
EXTENDS Naturals, Sequences

CONSTANTS
    Creators,   \* processes that create the database
    Writers,    \* processes that open it to write
    Readers,    \* processes that open it to read
    None,       \* no process
    Dead,       \* the owner of the writer mutex died
    MaxOpens,   \* bound on the commands started
    MaxTxn      \* bound on txnid

VARIABLES
    dir,        \* what there is: the database directory, the settings file
                \* (absent, empty or written) and the directory of the store
    lockfile,   \* the lock file: whether it has its size and its magic
                \* number, and mti_txnid and the writer mutex in it
    metas,      \* the data file: Absent, Empty, or its two meta pages
    flock,      \* the file lock: the process that has it exclusively, and
                \* those that share it
    proc,       \* of every process: where it stands, its file mode, excl of
                \* mdb_env_open, and the txnid its transaction builds on
    commits,    \* history: the number of transactions committed
    orphaned,   \* history: a process was killed or failed while it had the
                \* file lock exclusively and another was waiting for it
    opens

vars == <<dir, lockfile, metas, flock, proc, commits, orphaned, opens>>

Process == Creators \cup Writers \cup Readers

ASSUME LmdbEnvAssumption ==
    None \notin Process /\ Dead \notin Process /\ None # Dead

Absent == <<>>

Empty == <<0>>

HasMetas == Len(metas) = 2

(* The meta page of a txnid, and the newest (mdb_env_pick_meta). *)
MetaOf(txnid) == metas[(txnid % 2) + 1]

Newest == IF metas[1].txnid < metas[2].txnid THEN metas[2] ELSE metas[1]

Gone == [pc |-> "idle", mode |-> "read", excl |-> FALSE, base |-> 0]

Init ==
    /\ dir = [database |-> FALSE, settings |-> "absent", store |-> FALSE]
    /\ lockfile = [sized |-> FALSE, magic |-> FALSE, txnid |-> 0,
                   wmutex |-> None]
    /\ metas = Absent
    /\ flock = [excl |-> None, shared |-> {}]
    /\ proc = [p \in Process |-> Gone]
    /\ commits = 0 /\ orphaned = FALSE /\ opens = 0

At(p, pc) == proc[p].pc = pc

Goto(p, pc) == proc' = [proc EXCEPT ![p].pc = pc]

Release(p) ==
    flock' = [excl   |-> IF flock.excl = p THEN None ELSE flock.excl,
              shared |-> flock.shared \ {p}]

(* A process waits for the lock region that p has not yet reset.           *)
Orphans(p) == flock.excl = p /\ \E q \in Process : At(q, "wait")

(* mdb_env_close0 and exit: closing the lock file drops the lock. *)
Fail(p) ==
    /\ proc' = [proc EXCEPT ![p].pc = "failed", ![p].excl = FALSE]
    /\ Release(p)
    /\ orphaned' = (orphaned \/ Orphans(p))
    /\ UNCHANGED <<dir, lockfile, metas, commits, opens>>

-----------------------------------------------------------------------------
(* Commands.                                                               *)

Start(p, mode, pc) ==
    /\ At(p, "idle") /\ opens < MaxOpens
    /\ opens' = opens + 1
    /\ proc' = [proc EXCEPT ![p] = [Gone EXCEPT !.pc = pc, !.mode = mode]]
    /\ UNCHANGED <<dir, lockfile, metas, flock, commits, orphaned>>

(* create_hashdb: the path must not exist. *)
create_hashdb(p) ==
    /\ p \in Creators
    /\ Start(p, "new", IF dir.database THEN "failed" ELSE "mkdir")

(* read_settings: an empty file is refused. *)
read_settings == dir.settings = "written"

(* Every other command reads the settings first (require_hashdb_dir) and   *)
(* then opens the stores to write (import_manager_t) or to read            *)
(* (scan_manager_t).                                                       *)
OpenDatabase(p) ==
    \E mode \in {"modify", "read"} :
        /\ p \in (IF mode = "read" THEN Readers ELSE Writers)
        /\ Start(p, mode, IF ~read_settings THEN "failed"
                          ELSE IF mode = "read" THEN "data" ELSE "lockfile")

Mkdir(p) ==
    /\ At(p, "mkdir")
    /\ IF dir.database THEN Fail(p)
       ELSE /\ dir' = [dir EXCEPT !.database = TRUE]
            /\ Goto(p, "settings")
            /\ UNCHANGED <<lockfile, metas, flock, commits, orphaned, opens>>

(* write_settings opens the file, then writes it. *)
write_settings(p) ==
    /\ \/ /\ At(p, "settings")
          /\ dir' = [dir EXCEPT !.settings = "empty"]
          /\ Goto(p, "write")
       \/ /\ At(p, "write")
          /\ dir' = [dir EXCEPT !.settings = "written"]
          /\ Goto(p, "store")
    /\ UNCHANGED <<lockfile, metas, flock, commits, orphaned, opens>>

(* open_env in mode RW_NEW makes the directory of the store. *)
open_env_new(p) ==
    /\ At(p, "store")
    /\ dir' = [dir EXCEPT !.store = TRUE]
    /\ Goto(p, "lockfile")
    /\ UNCHANGED <<lockfile, metas, flock, commits, orphaned, opens>>

-----------------------------------------------------------------------------
(* mdb_env_open.                                                           *)

(* mdb_env_setup_locks opens the lock file, and makes it if need be. *)
open_lockfile(p) ==
    /\ At(p, "lockfile")
    /\ IF ~dir.store THEN Fail(p)
       ELSE /\ Goto(p, "lock")
            /\ UNCHANGED <<dir, lockfile, metas, flock, commits, orphaned,
                           opens>>

Holders == flock.shared \cup ({flock.excl} \ {None})

(* A faulty variant of the next definition. *)
excl_lock_IgnoresShared(p) ==
    /\ At(p, "lock")
    /\ IF flock.excl = None
       THEN /\ flock' = [flock EXCEPT !.excl = p]
            /\ proc' = [proc EXCEPT ![p].pc = "truncate", ![p].excl = TRUE]
       ELSE /\ Goto(p, "wait")
            /\ UNCHANGED flock
    /\ UNCHANGED <<dir, lockfile, metas, commits, orphaned, opens>>

(* mdb_env_excl_lock: an exclusive lock if it is to be had at once. *)
excl_lock(p) ==
    /\ At(p, "lock")
    /\ IF Holders = {}
       THEN /\ flock' = [flock EXCEPT !.excl = p]
            /\ proc' = [proc EXCEPT ![p].pc = "truncate", ![p].excl = TRUE]
       ELSE /\ Goto(p, "wait")
            /\ UNCHANGED flock
    /\ UNCHANGED <<dir, lockfile, metas, commits, orphaned, opens>>

(* Otherwise it waits for a shared one. *)
excl_lock_wait(p) ==
    /\ At(p, "wait") /\ flock.excl = None
    /\ flock' = [flock EXCEPT !.shared = @ \cup {p}]
    /\ Goto(p, "check")
    /\ UNCHANGED <<dir, lockfile, metas, commits, orphaned, opens>>

(* A faulty variant of the next definition. *)
truncate_lockfile_LeavesSize(p) ==
    /\ At(p, "truncate")
    /\ Goto(p, "region")
    /\ UNCHANGED <<dir, lockfile, metas, flock, commits, orphaned, opens>>

truncate_lockfile(p) ==
    /\ At(p, "truncate")
    /\ lockfile' = [lockfile EXCEPT !.sized = TRUE]
    /\ Goto(p, "region")
    /\ UNCHANGED <<dir, metas, flock, commits, orphaned, opens>>

(* For reading, the data file is open before the lock file is. *)
AfterLocks(p) == IF proc[p].mode = "read" THEN "header" ELSE "data"

(* The process that has the lock exclusively resets the lock region. *)
init_region(p) ==
    /\ At(p, "region")
    /\ lockfile' = [lockfile EXCEPT !.magic = TRUE, !.txnid = 0,
                                    !.wmutex = None]
    /\ Goto(p, AfterLocks(p))
    /\ UNCHANGED <<dir, metas, flock, commits, orphaned, opens>>

(* The others find it so, or refuse it. *)
check_region(p) ==
    /\ At(p, "check")
    /\ IF ~lockfile.sized \/ ~lockfile.magic THEN Fail(p)
       ELSE /\ Goto(p, AfterLocks(p))
            /\ UNCHANGED <<dir, lockfile, metas, flock, commits, orphaned,
                           opens>>

open_datafile(p) ==
    /\ At(p, "data")
    /\ IF proc[p].mode = "read"
       THEN IF metas = Absent THEN Fail(p)
            ELSE /\ Goto(p, "lockfile")
                 /\ UNCHANGED <<dir, lockfile, metas, flock, commits,
                                orphaned, opens>>
       ELSE /\ metas' = IF metas = Absent THEN Empty ELSE metas
            /\ Goto(p, "header")
            /\ UNCHANGED <<dir, lockfile, flock, commits, orphaned, opens>>

(* With the meta pages known and the file mapped, a process that has the   *)
(* lock exclusively has yet to share it.                                   *)
AfterMap(p) == IF proc[p].excl THEN "share" ELSE "open"

(* mdb_env_open2 reads the meta pages of a file that has them; it cannot   *)
(* write those of an empty one that is open for reading.                   *)
read_header(p) ==
    /\ At(p, "header")
    /\ IF HasMetas
       THEN /\ Goto(p, AfterMap(p))
            /\ UNCHANGED <<dir, lockfile, metas, flock, commits, orphaned,
                           opens>>
       ELSE IF proc[p].mode = "read" THEN Fail(p)
       ELSE /\ Goto(p, "meta")
            /\ UNCHANGED <<dir, lockfile, metas, flock, commits, orphaned,
                           opens>>

NewMeta == [txnid |-> 0, count |-> 0]

init_meta(p) ==
    /\ At(p, "meta")
    /\ metas' = <<NewMeta, NewMeta>>
    /\ Goto(p, AfterMap(p))
    /\ UNCHANGED <<dir, lockfile, flock, commits, orphaned, opens>>

(* A faulty variant of the next definition. *)
share_locks_KeepsTxnid(p) ==
    /\ At(p, "share")
    /\ flock' = [excl |-> None, shared |-> flock.shared \cup {p}]
    /\ proc' = [proc EXCEPT ![p].pc = "open", ![p].excl = FALSE]
    /\ UNCHANGED <<dir, lockfile, metas, commits, orphaned, opens>>

(* A faulty variant of the next definition. *)
share_locks_StaysExclusive(p) ==
    /\ At(p, "share")
    /\ lockfile' = [lockfile EXCEPT !.txnid = Newest.txnid]
    /\ proc' = [proc EXCEPT ![p].pc = "open", ![p].excl = FALSE]
    /\ UNCHANGED <<dir, metas, flock, commits, orphaned, opens>>

(* mdb_env_share_locks: the region tells the newest txnid from now on. *)
share_locks(p) ==
    /\ At(p, "share")
    /\ lockfile' = [lockfile EXCEPT !.txnid = Newest.txnid]
    /\ flock' = [excl |-> None, shared |-> flock.shared \cup {p}]
    /\ proc' = [proc EXCEPT ![p].pc = "open", ![p].excl = FALSE]
    /\ UNCHANGED <<dir, metas, commits, orphaned, opens>>

env_open(p) ==
    \/ open_lockfile(p) \/ excl_lock(p) \/ excl_lock_wait(p)
    \/ truncate_lockfile(p) \/ init_region(p) \/ check_region(p)
    \/ open_datafile(p) \/ read_header(p) \/ init_meta(p) \/ share_locks(p)

-----------------------------------------------------------------------------
(* An open store.                                                          *)

(* A write transaction takes the mutex and the txnid; when the last owner  *)
(* died, mdb_mutex_failed sets the txnid first.                            *)
txn_begin(p) ==
    /\ At(p, "open") /\ proc[p].mode # "read"
    /\ lockfile.wmutex \in {None, Dead}
    /\ lockfile.txnid < MaxTxn
    /\ LET txnid == IF lockfile.wmutex = Dead THEN Newest.txnid
                    ELSE lockfile.txnid
       IN /\ lockfile' = [lockfile EXCEPT !.wmutex = p, !.txnid = txnid]
          /\ proc' = [proc EXCEPT ![p].pc = "txn", ![p].base = txnid]
    /\ UNCHANGED <<dir, metas, flock, commits, orphaned, opens>>

(* mdb_env_write_meta: over the older of the meta pages. *)
write_meta(p) ==
    /\ At(p, "txn")
    /\ metas' = [metas EXCEPT ![((proc[p].base + 1) % 2) + 1] =
                    [txnid |-> proc[p].base + 1,
                     count |-> MetaOf(proc[p].base).count + 1]]
    /\ commits' = commits + 1
    /\ Goto(p, "commit")
    /\ UNCHANGED <<dir, lockfile, flock, orphaned, opens>>

(* The new txnid is for all to see, and the mutex is free. *)
txn_end(p) ==
    /\ At(p, "commit")
    /\ lockfile' = [lockfile EXCEPT !.txnid = proc[p].base + 1,
                                    !.wmutex = None]
    /\ proc' = [proc EXCEPT ![p].pc = "open", ![p].base = 0]
    /\ UNCHANGED <<dir, metas, flock, commits, orphaned, opens>>

env_close(p) ==
    /\ proc[p].pc \in {"open", "failed"}
    /\ proc' = [proc EXCEPT ![p] = Gone]
    /\ Release(p)
    /\ UNCHANGED <<dir, lockfile, metas, commits, orphaned, opens>>

-----------------------------------------------------------------------------
Killed(p) ==
    /\ proc[p].pc \notin {"idle", "failed"}
    /\ proc' = [proc EXCEPT ![p] = Gone]
    /\ Release(p)
    /\ lockfile' = [lockfile EXCEPT !.wmutex = IF @ = p THEN Dead ELSE @]
    /\ orphaned' = (orphaned \/ Orphans(p))
    /\ UNCHANGED <<dir, metas, commits, opens>>

Step(p) ==
    \/ Mkdir(p) \/ write_settings(p) \/ open_env_new(p) \/ env_open(p)
    \/ write_meta(p) \/ txn_end(p)

Next ==
    \E p \in Process :
        \/ create_hashdb(p) \/ OpenDatabase(p)
        \/ Step(p) \/ txn_begin(p) \/ env_close(p) \/ Killed(p)

(* A process that opens a database or ends a transaction goes on. *)
Spec == Init /\ [][Next]_vars /\ \A p \in Process : WF_vars(Step(p))

-----------------------------------------------------------------------------
(* A process has the meta pages between its commit and what the region     *)
(* says, or died there.                                                    *)
Committing ==
    \/ lockfile.wmutex = Dead
    \/ \E p \in Process : At(p, "commit")

Users == {p \in Process : proc[p].pc \in {"open", "txn", "commit"}}

(***************************************************************************)
(* As long as no process was orphaned, no commit is lost, whoever opens    *)
(* the store for the first time, again or while others use it, and         *)
(* wherever processes are killed: the newest meta page (mdb.c:4274) has    *)
(* every commit in it, and a transaction that starts is given the newest   *)
(* txnid, or the one before it while a commit is being told (mdb.c:3758).  *)
(* A process is orphaned when another is killed, or fails to read an empty *)
(* data file, between mdb.c:4336 and mdb.c:4301, while it waits at         *)
(* mdb.c:4346.  After that the code does lose commits: the one that waited *)
(* goes on in a region that nobody has reset or that has txnid 0, and with *)
(* others like it.                                                         *)
(***************************************************************************)
NothingLost ==
    ~orphaned =>
        /\ HasMetas \/ commits = 0
        /\ HasMetas => Newest.count = commits
        /\ Users # {} => \/ lockfile.txnid = Newest.txnid
                         \/ /\ Committing
                            /\ lockfile.txnid + 1 = Newest.txnid

(***************************************************************************)
(* A command that opens a database fails only when the database has not    *)
(* been created (libhashdb.cpp:174 was not reached, or was killed before   *)
(* the meta pages of the store were written), or after a process was       *)
(* orphaned as described above; not because another process opens, uses or *)
(* closes it, or was killed in any other place.  create_hashdb fails only  *)
(* when the path exists.                                                   *)
(***************************************************************************)
OpensFail ==
    [][\A p \in Process :
          ~At(p, "failed") /\ proc'[p].pc = "failed" =>
              IF proc'[p].mode = "new" THEN dir.database
              ELSE ~HasMetas \/ orphaned]_vars

Opening(p) == proc[p].pc \notin {"idle", "failed", "open", "txn", "commit"}

(***************************************************************************)
(* Every command that starts to open a store ends opening it: no process   *)
(* waits for a lock (mdb.c:4346) that is never shared.                     *)
(***************************************************************************)
OpenEnds == \A p \in Process : Opening(p) ~> ~Opening(p)
=============================================================================
