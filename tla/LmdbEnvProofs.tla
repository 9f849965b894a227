--------------------------- MODULE LmdbEnvProofs ----------------------------
(***************************************************************************)
(* Proofs about LmdbEnv, for any number of processes, commands started and *)
(* transactions.                                                           *)
(***************************************************************************)
EXTENDS LmdbEnv, SequenceTheorems, TLAPS

Pc == {"idle", "failed", "mkdir", "settings", "write", "store", "lockfile",
       "lock", "wait", "truncate", "region", "check", "data", "header",
       "meta", "share", "open", "txn", "commit"}

Meta == [txnid : Nat, count : Nat]

ProcState ==
    [pc : Pc, mode : {"new", "modify", "read"}, excl : BOOLEAN, base : Nat]

LockFile ==
    [sized : BOOLEAN, magic : BOOLEAN, txnid : Nat,
     wmutex : Process \cup {None, Dead}]

TypeOK ==
    /\ dir \in [database : BOOLEAN, settings : {"absent", "empty", "written"},
                store : BOOLEAN]
    /\ lockfile \in LockFile
    /\ metas \in {Absent, Empty} \cup [1 .. 2 -> Meta]
    /\ flock \in [excl : Process \cup {None}, shared : SUBSET Process]
    /\ proc \in [Process -> ProcState]
    /\ commits \in Nat /\ orphaned \in BOOLEAN /\ opens \in Nat

(* A process that has the file lock, exclusively or not. *)
Locked(p) ==
    \/ proc[p].pc \in {"truncate", "region", "check", "header", "meta",
                       "share", "open", "txn", "commit"}
    \/ At(p, "data") /\ proc[p].mode # "read"

(* Where a process stands tells which file lock it has. *)
Locks ==
    /\ flock.excl # None => flock.shared = {}
    /\ \A p \in Process :
          /\ flock.excl = p <=> proc[p].excl
          /\ p \in flock.shared \/ flock.excl = p <=> Locked(p)
          /\ proc[p].pc \in {"truncate", "region", "share"} => proc[p].excl
          /\ proc[p].pc \in {"check", "open", "txn", "commit"} =>
                 ~proc[p].excl

(* The writer mutex belongs to the process with a transaction, and nobody  *)
(* else changes the txnid of the region meanwhile.                         *)
Mutex ==
    \A p \in Process :
        /\ lockfile.wmutex = p <=> proc[p].pc \in {"txn", "commit"}
        /\ proc[p].pc \in {"txn", "commit"} => proc[p].base = lockfile.txnid

(* A process that writes the settings is the only one that does, and there *)
(* is nothing else in the directory yet.                                   *)
Making == {"settings", "write"}

Files ==
    /\ dir.settings # "absent" => dir.database
    /\ metas # Absent => dir.settings = "written" /\ dir.store
    /\ \A p, q \in Process :
          proc[p].pc \in Making /\ proc[q].pc \in Making => p = q
    /\ \A p \in Process :
          /\ proc[p].pc \in Making \cup {"mkdir", "store"} =>
                 proc[p].mode = "new"
          /\ /\ proc[p].mode = "new"
             /\ proc[p].pc \notin {"idle", "failed", "mkdir"}
             => dir.database
          /\ proc[p].pc \in Making => dir.settings # "written"
          /\ proc[p].pc \notin Making \cup {"idle", "failed", "mkdir"} =>
                 dir.settings = "written"
          /\ Locked(p) \/ proc[p].pc \in {"lock", "wait"} => dir.store
          /\ proc[p].pc \in {"share", "open", "txn", "commit"} => HasMetas

(* What the process that has the lock exclusively has reset so far. *)
Region ==
    \A p \in Process :
        proc[p].excl /\ ~At(p, "truncate") =>
            /\ lockfile.sized
            /\ At(p, "region") \/ lockfile.magic

(* The region is fit for use, and there is a store. *)
Good ==
    /\ lockfile.sized /\ lockfile.magic /\ HasMetas
    /\ \/ lockfile.txnid = Newest.txnid
       \/ Committing /\ lockfile.txnid + 1 = Newest.txnid

(* Some process relies on the region, or will without resetting it. *)
Relied ==
    /\ flock.excl = None
    /\ flock.shared # {} \/ \E p \in Process : At(p, "wait")

(* The newest meta page is where its txnid says and has every commit.      *)
MetasAgree ==
    /\ HasMetas \/ commits = 0
    /\ HasMetas => MetaOf(Newest.txnid) = Newest /\ Newest.count = commits

(* The meta pages are only written by the one that alone has the lock.     *)
MakesMetas ==
    \A p \in Process : At(p, "meta") => ~HasMetas /\ proc[p].excl

Ahead ==
    \A p \in Process : At(p, "commit") => Newest.txnid = lockfile.txnid + 1

History ==
    ~orphaned => MetasAgree /\ MakesMetas /\ Ahead /\ (Relied => Good)

(* The inductive invariant. *)
IInv == TypeOK /\ Locks /\ Mutex /\ Files /\ Region /\ History

-----------------------------------------------------------------------------
(* The data file has two meta pages, or none. *)
LEMMA MetasForm ==
    ASSUME TypeOK
    PROVE  /\ HasMetas <=> metas \in [1 .. 2 -> Meta]
           /\ HasMetas <=> metas \notin {Absent, Empty}
<1>1. Len(Absent) = 0 /\ Len(Empty) = 1
  BY DEF Absent, Empty
<1>2. ASSUME metas \in [1 .. 2 -> Meta] PROVE Len(metas) = 2
  BY <1>2, LenProperties, SeqDef
<1>3. ASSUME metas \in {Absent, Empty} PROVE ~(Len(metas) = 2)
  BY <1>1, <1>3
<1>4. metas \in {Absent, Empty} \/ metas \in [1 .. 2 -> Meta]
  BY DEF TypeOK
<1>5. QED
  BY <1>2, <1>3, <1>4 DEF HasMetas

(* What becomes of the process of a step. *)
Becomes(p, c, mode, excl, base) ==
    /\ proc' \in [Process -> ProcState]
    /\ proc'[p].pc = c /\ proc'[p].mode = mode
    /\ proc'[p].excl = excl /\ proc'[p].base = base
    /\ \A q \in Process \ {p} : proc'[q] = proc[q]

(* A process that goes on to its next system call keeps its mode, its      *)
(* lock and the commit that it builds on.                                  *)
LEMMA GotoForm ==
    ASSUME TypeOK, NEW p \in Process, NEW c \in Pc, Goto(p, c)
    PROVE  Becomes(p, c, proc[p].mode, proc[p].excl, proc[p].base)
<1>1. proc[p] \in ProcState /\ proc \in [Process -> ProcState]
  BY DEF TypeOK
<1>2. proc' = [proc EXCEPT ![p].pc = c]
  BY DEF Goto
<1>3. proc'[p] = [proc[p] EXCEPT !.pc = c]
  BY <1>1, <1>2
<1>4. proc'[p] \in ProcState
  BY <1>1, <1>3 DEF ProcState
<1>5. QED
  BY <1>1, <1>2, <1>3, <1>4 DEF Becomes, ProcState

(* A step that leaves the lock region and the meta pages alone. *)
LEMMA HistoryStays ==
    ASSUME IInv, UNCHANGED <<lockfile, metas, commits>>,
           orphaned => orphaned',
           ~orphaned' /\ Relied' => Relied,
           \A q \in Process : At(q, "commit")' <=> At(q, "commit"),
           \A q \in Process :
               ~orphaned' /\ At(q, "meta")' => ~HasMetas /\ proc'[q].excl
    PROVE  History'
<1> SUFFICES ASSUME ~orphaned'
             PROVE  MetasAgree' /\ MakesMetas' /\ Ahead' /\ (Relied' => Good')
  BY DEF History
<1>1. MetasAgree /\ Ahead /\ (Relied => Good)
  BY DEF IInv, History
<1>2. UNCHANGED <<HasMetas, Newest, Committing>>
  BY DEF HasMetas, Newest, Committing
<1>3. MetasAgree'
  BY <1>1, <1>2 DEF MetasAgree, MetaOf
<1>4. Ahead'
  BY <1>1, <1>2 DEF Ahead
<1>5. Good => Good'
  BY <1>2 DEF Good
<1>6. QED
  BY <1>1, <1>2, <1>3, <1>4, <1>5 DEF MakesMetas

(* A process that gives up drops its lock. *)
LEMMA FailIInv ==
    ASSUME IInv, NEW p \in Process, Fail(p),
           proc[p].pc \in {"mkdir", "lockfile", "check", "data", "header"},
           proc[p].mode = "new" => dir.database
    PROVE  IInv'
<1>1. TypeOK /\ proc[p] \in ProcState /\ proc \in [Process -> ProcState]
  BY DEF IInv, TypeOK
<1>2. proc' = [proc EXCEPT ![p].pc = "failed", ![p].excl = FALSE]
  BY DEF Fail
<1>3. Becomes(p, "failed", proc[p].mode, FALSE, proc[p].base)
  BY <1>1, <1>2 DEF Becomes, ProcState, Pc
<1>4. /\ flock \in [excl : Process \cup {None}, shared : SUBSET Process]
      /\ flock'.excl = IF flock.excl = p THEN None ELSE flock.excl
      /\ flock'.shared = flock.shared \ {p}
      /\ flock' \in [excl : Process \cup {None}, shared : SUBSET Process]
  BY <1>1 DEF TypeOK, Fail, Release
<1>5. /\ UNCHANGED <<dir, lockfile, metas, commits, opens>>
      /\ orphaned' = (orphaned \/ Orphans(p))
  BY DEF Fail
<1>6. TypeOK'
  BY <1>1, <1>3, <1>4, <1>5 DEF TypeOK, Becomes, Orphans
<1>7. Locks'
  BY <1>3, <1>4, LmdbEnvAssumption
  DEF IInv, Locks, Locked, Becomes, At
<1>8. Mutex'
  BY <1>3, <1>5 DEF IInv, Mutex, Becomes
<1>9. Files'
  BY <1>3, <1>5 DEF IInv, Files, Making, Locked, At, HasMetas, Becomes
<1>10. Region'
  BY <1>3, <1>5 DEF IInv, Region, At, Becomes
<1>11. History'
  <2>1. ASSUME ~orphaned', Relied' PROVE Relied
    <3>1. /\ \A q \in Process : At(q, "wait")' => q # p /\ At(q, "wait")
          /\ ~Orphans(p)
      BY <1>3, <1>5, <2>1 DEF At, Becomes
    <3>2. CASE flock.excl = p
      BY <1>4, <2>1, <3>1, <3>2, LmdbEnvAssumption
      DEF IInv, Locks, Relied, Orphans
    <3>3. CASE flock.excl # p
      BY <1>4, <2>1, <3>1, <3>3 DEF Relied
    <3>4. QED
      BY <3>2, <3>3
  <2>2. \A q \in Process : At(q, "commit")' <=> At(q, "commit")
    BY <1>3 DEF At, Becomes
  <2>3. ASSUME NEW q \in Process, ~orphaned', At(q, "meta")'
        PROVE  ~HasMetas /\ proc'[q].excl
    BY <1>3, <1>5, <2>3 DEF At, Becomes, IInv, History, MakesMetas
  <2>4. QED
    BY <1>5, <2>1, <2>2, <2>3, HistoryStays
<1>12. QED
  BY <1>6, <1>7, <1>8, <1>9, <1>10, <1>11 DEF IInv

(* A process that goes on with the lock it has, or without one. *)
LEMMA MoveIInv ==
    ASSUME IInv, NEW p \in Process, NEW c \in Pc, NEW mode, NEW base,
           Becomes(p, c, mode, proc[p].excl, base),
           TypeOK', Files', Locked(p)' <=> Locked(p),
           UNCHANGED <<lockfile, metas, flock, commits, orphaned>>,
           proc[p].pc \notin {"truncate", "region", "txn", "commit"},
           c \notin {"truncate", "region", "check", "txn", "commit"},
           c = "share" => proc[p].excl,
           c = "open" => ~proc[p].excl,
           c = "wait" => Holders # {},
           c = "meta" /\ ~orphaned => ~HasMetas /\ proc[p].excl
    PROVE  IInv'
<1>1. Locks'
  <2>1. \A q \in Process \ {p} : Locked(q)' <=> Locked(q)
    BY DEF Becomes, Locked, At
  <2>2. QED
    BY <2>1 DEF IInv, Locks, Becomes
<1>2. Mutex'
  BY DEF IInv, Mutex, Becomes
<1>3. Region'
  BY DEF IInv, Region, At, Becomes
<1>4. History'
  <2>1. ASSUME Relied' PROVE Relied
    <3>1. CASE c = "wait"
      BY <2>1, <3>1 DEF Relied, Holders
    <3>2. CASE c # "wait"
      BY <2>1, <3>2 DEF Relied, At, Becomes
    <3>3. QED
      BY <3>1, <3>2
  <2>2. \A q \in Process : At(q, "commit")' <=> At(q, "commit")
    BY DEF At, Becomes
  <2>3. ASSUME NEW q \in Process, ~orphaned', At(q, "meta")'
        PROVE  ~HasMetas /\ proc'[q].excl
    BY <2>3 DEF At, Becomes, IInv, History, MakesMetas
  <2>4. QED
    BY <2>1, <2>2, <2>3, HistoryStays
<1>5. QED
  BY <1>1, <1>2, <1>3, <1>4 DEF IInv

(* A process that starts a command. *)
LEMMA StartIInv ==
    ASSUME IInv, NEW p \in Process, create_hashdb(p) \/ OpenDatabase(p)
    PROVE  IInv'
<1>1. /\ TypeOK /\ proc[p] \in ProcState /\ proc \in [Process -> ProcState]
      /\ opens \in Nat
  BY DEF IInv, TypeOK
<1>2. PICK mode \in {"new", "modify", "read"},
           c \in {"failed", "mkdir", "data", "lockfile"} :
          /\ Start(p, mode, c)
          /\ c = "mkdir" => mode = "new" /\ ~dir.database
          /\ c = "data" => mode = "read"
          /\ c \in {"data", "lockfile"} =>
                 mode # "new" /\ dir.settings = "written"
  BY DEF create_hashdb, OpenDatabase, read_settings
<1>3. /\ At(p, "idle") /\ opens' = opens + 1
      /\ proc' = [proc EXCEPT ![p] = [Gone EXCEPT !.pc = c, !.mode = mode]]
      /\ UNCHANGED <<dir, lockfile, metas, flock, commits, orphaned>>
  BY <1>2 DEF Start
<1>4. Becomes(p, c, mode, FALSE, 0)
  BY <1>1, <1>3 DEF Becomes, Gone, ProcState, Pc
<1>5. ~Locked(p) /\ ~Locked(p)'
  BY <1>2, <1>3, <1>4 DEF Locked, At, Becomes
<1>6. Becomes(p, c, mode, proc[p].excl, 0)
  BY <1>1, <1>4, <1>5 DEF IInv, Locks, Becomes, ProcState
<1>7. TypeOK'
  BY <1>1, <1>3, <1>4 DEF TypeOK, Becomes
<1>8. Files'
  BY <1>2, <1>3, <1>4 DEF IInv, Files, Making, Locked, At, HasMetas, Becomes
<1>9. QED
  BY <1>2, <1>3, <1>4, <1>5, <1>6, <1>7, <1>8, MoveIInv DEF At, Pc

(* create_hashdb makes the directory, the settings and the store's         *)
(* directory.                                                              *)
LEMMA DirectoryIInv ==
    ASSUME IInv, NEW p \in Process,
           Mkdir(p) \/ write_settings(p) \/ open_env_new(p)
    PROVE  IInv'
<1>1. /\ TypeOK /\ proc[p] \in ProcState /\ proc \in [Process -> ProcState]
      /\ dir \in [database : BOOLEAN,
                  settings : {"absent", "empty", "written"},
                  store : BOOLEAN]
  BY DEF IInv, TypeOK
<1>2. CASE Mkdir(p) /\ dir.database
  BY <1>2, FailIInv DEF Mkdir, At
<1>3. CASE ~(Mkdir(p) /\ dir.database)
  <2>1. PICK c \in {"settings", "write", "store", "lockfile"} :
           /\ Goto(p, c)
           /\ \/ /\ proc[p].pc = "mkdir" /\ c = "settings"
                 /\ ~dir.database /\ dir' = [dir EXCEPT !.database = TRUE]
              \/ /\ proc[p].pc = "settings" /\ c = "write"
                 /\ dir' = [dir EXCEPT !.settings = "empty"]
              \/ /\ proc[p].pc = "write" /\ c = "store"
                 /\ dir' = [dir EXCEPT !.settings = "written"]
              \/ /\ proc[p].pc = "store" /\ c = "lockfile"
                 /\ dir' = [dir EXCEPT !.store = TRUE]
    BY <1>3 DEF Mkdir, write_settings, open_env_new, At
  <2>2. /\ UNCHANGED <<lockfile, metas, flock, commits, orphaned, opens>>
        /\ proc[p].pc \in {"mkdir", "settings", "write", "store"}
    BY <1>3 DEF Mkdir, write_settings, open_env_new, At
  <2>3. Becomes(p, c, proc[p].mode, proc[p].excl, proc[p].base)
    BY <1>1, <2>1, GotoForm DEF Pc
  <2>4. ~Locked(p) /\ ~Locked(p)'
    BY <2>1, <2>2, <2>3 DEF Locked, At, Becomes
  <2>5. /\ dir' \in [database : BOOLEAN,
                     settings : {"absent", "empty", "written"},
                     store : BOOLEAN]
        /\ dir.database => dir'.database
        /\ dir.store => dir'.store
        /\ c = "settings" => dir'.database /\ dir'.settings = dir.settings
        /\ c = "write" => dir'.settings = "empty"
        /\ c = "store" => dir'.settings = "written"
        /\ c = "lockfile" => dir'.store /\ dir'.settings = dir.settings
    BY <1>1, <2>1
  <2>6. TypeOK'
    BY <1>1, <2>2, <2>3, <2>5 DEF TypeOK, Becomes
  <2>7. Files'
    <3>1. Files
      BY DEF IInv
    <3>2. UNCHANGED HasMetas
      BY <2>2 DEF HasMetas
    <3>3. \A q \in Process \ {p} :
             proc'[q] = proc[q] /\ (Locked(q)' <=> Locked(q))
      BY <2>3 DEF Becomes, Locked, At
    <3>4. QED
      BY <2>1, <2>2, <2>3, <2>4, <2>5, <3>1, <3>2, <3>3
      DEF Files, Making, Becomes
  <2>8. ~proc[p].excl
    BY <2>4 DEF IInv, Locks
  <2>9. QED
    BY <2>1, <2>2, <2>3, <2>4, <2>6, <2>7, <2>8, MoveIInv DEF Pc
<1>4. QED
  BY <1>2, <1>3

(* The steps of mdb_env_open that fail or only go on. *)
LEMMA OpenIInv ==
    ASSUME IInv, NEW p \in Process,
           \/ open_lockfile(p) \/ check_region(p) \/ read_header(p)
           \/ excl_lock(p) /\ Holders # {}
           \/ open_datafile(p) /\ proc[p].mode = "read"
    PROVE  IInv'
<1>1. /\ TypeOK /\ proc[p] \in ProcState /\ proc \in [Process -> ProcState]
  BY DEF IInv, TypeOK
<1> DEFINE Fails ==
      Fail(p) /\ proc[p].pc \in {"lockfile", "check", "data", "header"}
<1>2. CASE Fails
  <2>1. proc[p].mode = "new" => dir.database
    BY <1>2 DEF IInv, Files
  <2>2. QED
    BY <1>2, <2>1, FailIInv
<1>3. CASE ~Fails
  <2>1. /\ proc[p].pc \in {"lockfile", "check", "header", "lock", "data"}
        /\ UNCHANGED <<dir, lockfile, metas, flock, commits, orphaned, opens>>
    BY <1>3
    DEF open_lockfile, check_region, read_header, excl_lock, open_datafile, At
  <2>2. PICK c \in Pc :
           /\ Goto(p, c)
           /\ \/ proc[p].pc = "lockfile" /\ c = "lock" /\ dir.store
              \/ proc[p].pc = "check" /\ c = AfterLocks(p)
              \/ proc[p].pc = "header" /\ HasMetas /\ c = AfterMap(p)
              \/ proc[p].pc = "header" /\ ~HasMetas /\ c = "meta"
              \/ proc[p].pc = "lock" /\ Holders # {} /\ c = "wait"
              \/ /\ proc[p].pc = "data" /\ proc[p].mode = "read"
                 /\ c = "lockfile"
    BY <1>3
    DEF open_lockfile, check_region, read_header, excl_lock, open_datafile,
        At, AfterLocks, AfterMap, Pc
  <2>3. Becomes(p, c, proc[p].mode, proc[p].excl, proc[p].base)
    BY <1>1, <2>2, GotoForm
  <2>4. Locked(p)' <=> Locked(p)
    BY <2>2, <2>3 DEF Locked, AfterLocks, AfterMap, At, Becomes
  <2>5. TypeOK'
    BY <1>1, <2>1, <2>3 DEF TypeOK, Becomes
  <2>6. Files'
    <3>1. Files
      BY DEF IInv
    <3>2. UNCHANGED HasMetas
      BY <2>1 DEF HasMetas
    <3>3. \A q \in Process \ {p} :
             proc'[q] = proc[q] /\ (Locked(q)' <=> Locked(q))
      BY <2>3 DEF Becomes, Locked, At
    <3>4. QED
      BY <2>1, <2>2, <2>3, <2>4, <3>1, <3>2, <3>3
      DEF Files, Making, Becomes, AfterLocks, AfterMap
  <2>7. /\ c \notin {"truncate", "region", "check", "txn", "commit"}
        /\ c = "share" => proc[p].excl
        /\ c = "open" => ~proc[p].excl
        /\ c = "wait" => Holders # {}
    BY <2>2 DEF AfterLocks, AfterMap
  <2>8. ASSUME c = "meta", ~orphaned PROVE ~HasMetas /\ proc[p].excl
    <3>1. proc[p].pc = "header" /\ ~HasMetas
      BY <2>2, <2>8 DEF AfterLocks, AfterMap
    <3>2. Locked(p) /\ (Relied => HasMetas)
      BY <2>8, <3>1 DEF IInv, History, Good, Locked
    <3>3. QED
      BY <3>1, <3>2, LmdbEnvAssumption DEF IInv, Locks, Relied
  <2>9. QED
    BY <2>1, <2>2, <2>3, <2>4, <2>5, <2>6, <2>7, <2>8, MoveIInv
<1>4. QED
  BY <1>2, <1>3

(* The files of a step that changes neither the directory nor the data     *)
(* file, of a process that has a lock afterwards.                          *)
LEMMA FilesStay ==
    ASSUME IInv, NEW p \in Process, NEW c \in Pc, NEW excl, NEW base,
           Becomes(p, c, proc[p].mode, excl, base),
           UNCHANGED <<dir, metas>>,
           Locked(p) \/ proc[p].pc \in {"lock", "wait"},
           c \notin Making \cup {"idle", "failed", "mkdir", "store"},
           c \in {"share", "open", "txn", "commit"} => HasMetas
    PROVE  Files'
<1>1. Files /\ UNCHANGED HasMetas
  BY DEF IInv, HasMetas
<1>2. \A q \in Process \ {p} :
         proc'[q] = proc[q] /\ (Locked(q)' <=> Locked(q))
  BY DEF Becomes, Locked, At
<1>3. proc[p].pc \notin Making \cup {"idle", "failed", "mkdir", "store"}
  BY DEF Locked, At, Making
<1>4. dir.settings = "written" /\ dir.store
      /\ (proc[p].mode = "new" => dir.database)
  BY <1>1, <1>3 DEF Files
<1>5. QED
  BY <1>1, <1>2, <1>3, <1>4 DEF Files, Becomes

(* A step of a process that has the lock exclusively leaves it so. *)
LEMMA AloneHistory ==
    ASSUME IInv, Locks', NEW p \in Process, NEW c \in Pc \ {"commit", "wait"},
           NEW base, Becomes(p, c, proc[p].mode, TRUE, base),
           flock'.excl = p, UNCHANGED <<metas, commits, orphaned>>,
           c # "meta"
    PROVE  History'
<1> SUFFICES ASSUME ~orphaned'
             PROVE  MetasAgree' /\ MakesMetas' /\ Ahead' /\ (Relied' => Good')
  BY DEF History
<1>1. MetasAgree /\ MakesMetas
  BY DEF IInv, History
<1>2. UNCHANGED <<HasMetas, Newest>>
  BY DEF HasMetas, Newest
<1>3. MetasAgree'
  BY <1>1, <1>2 DEF MetasAgree, MetaOf
<1>4. MakesMetas'
  BY <1>1, <1>2 DEF MakesMetas, Becomes, At
<1>5. ~Relied'
  BY LmdbEnvAssumption DEF Relied
<1>6. Ahead'
  <2>1. \A q \in Process : Locked(q)' => q = p
    BY LmdbEnvAssumption DEF Locks
  <2>2. QED
    BY <2>1 DEF Ahead, Locked, At, Becomes
<1>7. QED
  BY <1>3, <1>4, <1>5, <1>6

(* A process gets the lock exclusively when nobody has it. *)
LEMMA ExclLockIInv ==
    ASSUME IInv, NEW p \in Process, excl_lock(p), Holders = {} PROVE IInv'
<1>1. /\ TypeOK /\ proc[p] \in ProcState /\ proc \in [Process -> ProcState]
      /\ flock \in [excl : Process \cup {None}, shared : SUBSET Process]
  BY DEF IInv, TypeOK
<1>2. /\ At(p, "lock") /\ flock' = [flock EXCEPT !.excl = p]
      /\ proc' = [proc EXCEPT ![p].pc = "truncate", ![p].excl = TRUE]
      /\ UNCHANGED <<dir, lockfile, metas, commits, orphaned, opens>>
  BY DEF excl_lock
<1>3. Becomes(p, "truncate", proc[p].mode, TRUE, proc[p].base)
  BY <1>1, <1>2 DEF Becomes, ProcState, Pc
<1>4. /\ flock.excl = None /\ flock.shared = {}
      /\ flock'.excl = p /\ flock'.shared = {}
      /\ flock' \in [excl : Process \cup {None}, shared : SUBSET Process]
  BY <1>1, <1>2 DEF Holders
<1>5. TypeOK'
  BY <1>1, <1>2, <1>3, <1>4 DEF TypeOK, Becomes
<1>6. Locks'
  BY <1>3, <1>4, LmdbEnvAssumption DEF IInv, Locks, Locked, At, Becomes
<1>7. Mutex'
  BY <1>2, <1>3 DEF IInv, Mutex, At, Becomes
<1>8. Files'
  BY <1>2, <1>3, FilesStay DEF At, Pc, Making
<1>9. Region'
  BY <1>3, <1>4, <1>6 DEF Region, Locks, At, Becomes
<1>10. History'
  BY <1>2, <1>3, <1>4, <1>6, AloneHistory DEF At, Pc
<1>11. QED
  BY <1>5, <1>6, <1>7, <1>8, <1>9, <1>10 DEF IInv

(* A process that waited shares the lock. *)
LEMMA WaitIInv ==
    ASSUME IInv, NEW p \in Process, excl_lock_wait(p) PROVE IInv'
<1>1. /\ TypeOK /\ proc[p] \in ProcState /\ proc \in [Process -> ProcState]
      /\ flock \in [excl : Process \cup {None}, shared : SUBSET Process]
  BY DEF IInv, TypeOK
<1>2. /\ At(p, "wait") /\ flock.excl = None
      /\ flock' = [flock EXCEPT !.shared = @ \cup {p}]
      /\ Goto(p, "check")
      /\ UNCHANGED <<dir, lockfile, metas, commits, orphaned, opens>>
  BY DEF excl_lock_wait
<1>3. Becomes(p, "check", proc[p].mode, proc[p].excl, proc[p].base)
  BY <1>1, <1>2, GotoForm DEF Pc
<1>4. /\ flock'.excl = None /\ flock'.shared = flock.shared \cup {p}
      /\ flock' \in [excl : Process \cup {None}, shared : SUBSET Process]
  BY <1>1, <1>2
<1>5. TypeOK'
  BY <1>1, <1>2, <1>3, <1>4 DEF TypeOK, Becomes
<1>6. Locks'
  <2>1. /\ \A q \in Process \ {p} : Locked(q)' <=> Locked(q)
        /\ Locked(p)'
    BY <1>3 DEF Becomes, Locked, At
  <2>2. \A q \in Process : ~proc[q].excl
    BY <1>2, LmdbEnvAssumption DEF IInv, Locks
  <2>3. \A q \in Process \ {p} : q \in flock'.shared <=> q \in flock.shared
    BY <1>4
  <2>4. QED
    BY <1>2, <1>3, <1>4, <2>1, <2>2, <2>3, LmdbEnvAssumption
    DEF IInv, Locks, Becomes
<1>7. Mutex'
  BY <1>2, <1>3 DEF IInv, Mutex, At, Becomes
<1>8. Files'
  BY <1>2, <1>3, FilesStay DEF At, Pc, Making
<1>9. Region'
  BY <1>4, <1>6, LmdbEnvAssumption DEF Region, Locks
<1>10. History'
  <2>1. Relied
    BY <1>2 DEF Relied
  <2>2. \A q \in Process : At(q, "commit")' <=> At(q, "commit")
    BY <1>2, <1>3 DEF At, Becomes
  <2>3. ASSUME NEW q \in Process, ~orphaned', At(q, "meta")'
        PROVE  ~HasMetas /\ proc'[q].excl
    BY <1>2, <1>3, <2>3 DEF At, Becomes, IInv, History, MakesMetas
  <2>4. QED
    BY <1>2, <2>1, <2>2, <2>3, HistoryStays
<1>11. QED
  BY <1>5, <1>6, <1>7, <1>8, <1>9, <1>10 DEF IInv

(* The process that has the lock exclusively resets the lock region. *)
LEMMA ResetIInv ==
    ASSUME IInv, NEW p \in Process, truncate_lockfile(p) \/ init_region(p)
    PROVE  IInv'
<1>1. /\ TypeOK /\ proc[p] \in ProcState /\ proc \in [Process -> ProcState]
      /\ lockfile \in LockFile
  BY DEF IInv, TypeOK
<1>2. PICK c \in {"region", "header", "data"} :
         /\ Goto(p, c)
         /\ \/ At(p, "truncate") /\ c = "region"
               /\ lockfile' = [lockfile EXCEPT !.sized = TRUE]
            \/ At(p, "region") /\ c = AfterLocks(p)
               /\ lockfile' = [lockfile EXCEPT !.magic = TRUE, !.txnid = 0,
                                               !.wmutex = None]
  BY DEF truncate_lockfile, init_region, AfterLocks
<1>3. UNCHANGED <<dir, metas, flock, commits, orphaned, opens>>
  BY DEF truncate_lockfile, init_region
<1>4. /\ proc[p].pc \in {"truncate", "region"} /\ Locked(p)
      /\ proc[p].excl = TRUE /\ flock.excl = p /\ flock.shared = {}
  BY <1>1, <1>2, LmdbEnvAssumption DEF IInv, Locks, At, ProcState, Locked
<1>5. Becomes(p, c, proc[p].mode, TRUE, proc[p].base)
  BY <1>1, <1>2, <1>4, GotoForm DEF Pc
<1>6. /\ lockfile' \in LockFile
      /\ c = "region" => lockfile'.sized
                         /\ lockfile'.wmutex = lockfile.wmutex
      /\ c # "region" => /\ lockfile'.sized = lockfile.sized
                         /\ lockfile'.magic /\ lockfile'.wmutex = None
  <2>1. CASE c = "region"
    <3>1. lockfile' = [lockfile EXCEPT !.sized = TRUE]
      BY <1>2, <2>1 DEF AfterLocks
    <3>2. QED
      BY <1>1, <2>1, <3>1 DEF LockFile
  <2>2. CASE c # "region"
    <3>1. lockfile' = [lockfile EXCEPT !.magic = TRUE, !.txnid = 0,
                                       !.wmutex = None]
      BY <1>2, <2>2
    <3>2. QED
      BY <1>1, <2>2, <3>1 DEF LockFile
  <2>3. QED
    BY <2>1, <2>2
<1>7. TypeOK'
  BY <1>1, <1>3, <1>5, <1>6 DEF TypeOK, Becomes
<1>8. Locked(p)'
  BY <1>2, <1>5 DEF Locked, AfterLocks, At, Becomes
<1>9. Locks'
  <2>1. \A q \in Process \ {p} : Locked(q)' <=> Locked(q)
    BY <1>5 DEF Becomes, Locked, At
  <2>2. QED
    BY <1>2, <1>3, <1>4, <1>5, <1>8, <2>1 DEF IInv, Locks, Becomes
<1>10. Mutex'
  <2>1. \A q \in Process : Locked(q)' => q = p
    BY <1>3, <1>4, <1>9 DEF Locks
  <2>2. \A q \in Process : proc'[q].pc \notin {"txn", "commit"}
    BY <1>2, <1>5, <2>1 DEF Locked, At, Becomes
  <2>3. \A q \in Process : lockfile.wmutex # q
    BY <1>2, <1>4, <1>5, <2>2 DEF IInv, Mutex, Becomes, At
  <2>4. \A q \in Process : lockfile'.wmutex # q
    BY <1>2, <1>6, <2>3, LmdbEnvAssumption
  <2>5. QED
    BY <2>2, <2>4 DEF Mutex
<1>11. Files'
  <2>1. /\ c \in Pc /\ c \notin {"share", "open", "txn", "commit"}
        /\ c \notin Making \cup {"idle", "failed", "mkdir", "store"}
    BY DEF Pc, Making
  <2>2. QED
    BY <1>3, <1>4, <1>5, <2>1, FilesStay
<1>12. Region'
  <2>1. lockfile.sized \/ proc[p].pc = "truncate"
    BY <1>4 DEF IInv, Region, At
  <2>2. \A q \in Process \ {p} : ~proc'[q].excl
    BY <1>3, <1>4, <1>9 DEF Locks
  <2>3. QED
    BY <1>2, <1>5, <1>6, <2>1, <2>2 DEF Region, Becomes, At, AfterLocks
<1>13. History'
  BY <1>2, <1>3, <1>4, <1>5, <1>9, AloneHistory DEF Pc
<1>14. QED
  BY <1>7, <1>9, <1>10, <1>11, <1>12, <1>13 DEF IInv

(* The data file is made, if need be. *)
LEMMA DataFileIInv ==
    ASSUME IInv, NEW p \in Process, open_datafile(p), proc[p].mode # "read"
    PROVE  IInv'
<1>1. /\ TypeOK /\ proc[p] \in ProcState /\ proc \in [Process -> ProcState]
      /\ Locked(p)
  BY DEF IInv, TypeOK, open_datafile, Locked
<1>2. /\ At(p, "data") /\ Goto(p, "header")
      /\ metas' = IF metas = Absent THEN Empty ELSE metas
      /\ UNCHANGED <<dir, lockfile, flock, commits, orphaned, opens>>
  BY DEF open_datafile
<1>3. Becomes(p, "header", proc[p].mode, proc[p].excl, proc[p].base)
  BY <1>1, <1>2, GotoForm DEF Pc
<1>4. TypeOK'
  BY <1>1, <1>2, <1>3 DEF TypeOK, Becomes
<1>5. Locked(p)' /\ \A q \in Process \ {p} : Locked(q)' <=> Locked(q)
  BY <1>3 DEF Becomes, Locked, At
<1>6. UNCHANGED HasMetas
  BY <1>1, <1>2, MetasForm DEF HasMetas, Absent, Empty
<1>7. Files'
  <2>1. /\ dir.settings = "written" /\ dir.store
        /\ proc[p].mode = "new" => dir.database
    BY <1>1, <1>2 DEF IInv, Files, At, Making
  <2>2. QED
    BY <1>1, <1>2, <1>3, <1>5, <1>6, <2>1
    DEF IInv, Files, Making, Becomes, At
<1>8. CASE metas # Absent
  <2>1. UNCHANGED metas
    BY <1>2, <1>8
  <2>2. QED
    BY <1>1, <1>2, <1>3, <1>4, <1>5, <1>7, <2>1, MoveIInv DEF At, Pc
<1>9. CASE metas = Absent
  <2>1. ~HasMetas
    BY <1>1, <1>9, MetasForm
  <2>2. Locks'
    BY <1>1, <1>2, <1>3, <1>5 DEF IInv, Locks, Becomes, At
  <2>3. Mutex' /\ Region'
    BY <1>2, <1>3 DEF IInv, Mutex, Region, Becomes, At
  <2>4. ASSUME ~orphaned'
        PROVE  MetasAgree' /\ MakesMetas' /\ Ahead' /\ (Relied' => Good')
    <3>1. MetasAgree /\ MakesMetas /\ ~Relied
      BY <1>2, <2>1, <2>4 DEF IInv, History, Good
    <3>2. MetasAgree'
      BY <1>2, <1>6, <2>1, <3>1 DEF MetasAgree
    <3>3. MakesMetas'
      BY <1>3, <1>6, <3>1 DEF MakesMetas, At, Becomes
    <3>4. Ahead'
      BY <1>6, <1>7, <2>1 DEF Ahead, Files, At
    <3>5. ~Relied'
      BY <1>2, <1>3, <3>1 DEF Relied, At, Becomes
    <3>6. QED
      BY <3>2, <3>3, <3>4, <3>5
  <2>5. QED
    BY <1>4, <1>7, <2>2, <2>3, <2>4 DEF IInv, History
<1>10. QED
  BY <1>8, <1>9

(* The first meta pages are written: by the one that alone has the lock,   *)
(* unless a process was orphaned.                                          *)
LEMMA InitMetaIInv ==
    ASSUME IInv, NEW p \in Process, init_meta(p) PROVE IInv'
<1> DEFINE c == AfterMap(p)
<1>1. /\ TypeOK /\ proc[p] \in ProcState /\ proc \in [Process -> ProcState]
  BY DEF IInv, TypeOK
<1>2. /\ At(p, "meta") /\ Goto(p, c) /\ metas' = <<NewMeta, NewMeta>>
      /\ UNCHANGED <<dir, lockfile, flock, commits, orphaned, opens>>
  BY DEF init_meta
<1>3. c \in Pc /\ (c = "share" <=> proc[p].excl) /\ c \in {"share", "open"}
  BY DEF AfterMap, Pc
<1>4. Becomes(p, c, proc[p].mode, proc[p].excl, proc[p].base)
  BY <1>1, <1>2, <1>3, GotoForm
<1> HIDE DEF c
<1>5. /\ metas' \in [1 .. 2 -> Meta] /\ metas'[1] = NewMeta
      /\ metas'[2] = NewMeta /\ HasMetas'
  BY <1>2 DEF Meta, NewMeta, HasMetas
<1>6. TypeOK'
  BY <1>1, <1>2, <1>4, <1>5 DEF TypeOK, Becomes
<1>7. Locked(p) /\ Locked(p)' /\ \A q \in Process \ {p} : Locked(q)' <=> Locked(q)
  BY <1>2, <1>3, <1>4 DEF Becomes, Locked, At
<1>8. Locks'
  BY <1>1, <1>2, <1>3, <1>4, <1>7 DEF IInv, Locks, Becomes
<1>9. Mutex'
  BY <1>2, <1>3, <1>4 DEF IInv, Mutex, At, Becomes
<1>10. Files'
  <2>1. /\ dir.settings = "written" /\ dir.store
        /\ proc[p].mode = "new" => dir.database
    BY <1>2, <1>7 DEF IInv, Files, At, Making
  <2>2. QED
    BY <1>2, <1>3, <1>4, <1>5, <1>7, <2>1
    DEF IInv, Files, Making, Becomes, At
<1>11. Region'
  BY <1>2, <1>3, <1>4 DEF IInv, Region, At, Becomes
<1>12. ASSUME ~orphaned'
       PROVE  MetasAgree' /\ MakesMetas' /\ Ahead' /\ (Relied' => Good')
  <2>1. MetasAgree /\ MakesMetas /\ ~HasMetas /\ proc[p].excl
    BY <1>2, <1>12 DEF IInv, History, MakesMetas
  <2>2. commits' = 0
    BY <1>2, <2>1 DEF MetasAgree
  <2>3. flock'.excl = p /\ p # None
    BY <1>2, <2>1, LmdbEnvAssumption DEF IInv, Locks
  <2>4. \A q \in Process \ {p} : ~Locked(q)'
    BY <1>8, <2>3 DEF Locks
  <2>5. MetasAgree'
    BY <1>5, <2>2 DEF MetasAgree, MetaOf, Newest, NewMeta
  <2>6. MakesMetas' /\ Ahead'
    BY <1>3, <1>4, <2>4 DEF MakesMetas, Ahead, Locked, At, Becomes
  <2>7. ~Relied'
    BY <2>3 DEF Relied
  <2>8. QED
    BY <2>5, <2>6, <2>7
<1>13. QED
  BY <1>6, <1>8, <1>9, <1>10, <1>11, <1>12 DEF IInv, History

(* The newest of two meta pages. *)
LEMMA NewestForm ==
    ASSUME TypeOK, HasMetas
    PROVE  Newest \in Meta /\ Newest.txnid \in Nat /\ Newest.count \in Nat
<1>1. metas[1] \in Meta /\ metas[2] \in Meta
  BY MetasForm
<1>2. Newest \in Meta
  BY <1>1 DEF Newest
<1>3. QED
  BY <1>2 DEF Meta

(* The lock is shared once the region tells the newest txnid. *)
LEMMA ShareIInv ==
    ASSUME IInv, NEW p \in Process, share_locks(p) PROVE IInv'
<1>1. /\ TypeOK /\ proc[p] \in ProcState /\ proc \in [Process -> ProcState]
      /\ lockfile \in LockFile
      /\ flock \in [excl : Process \cup {None}, shared : SUBSET Process]
  BY DEF IInv, TypeOK
<1>2. /\ At(p, "share")
      /\ lockfile' = [lockfile EXCEPT !.txnid = Newest.txnid]
      /\ flock' = [excl |-> None, shared |-> flock.shared \cup {p}]
      /\ proc' = [proc EXCEPT ![p].pc = "open", ![p].excl = FALSE]
      /\ UNCHANGED <<dir, metas, commits, orphaned, opens>>
  BY DEF share_locks
<1>3. Becomes(p, "open", proc[p].mode, FALSE, proc[p].base)
  BY <1>1, <1>2 DEF Becomes, ProcState, Pc
<1>4. HasMetas /\ proc[p].excl /\ flock.excl = p /\ flock.shared = {}
  BY <1>2, LmdbEnvAssumption DEF IInv, Files, Locks, At
<1>5. /\ lockfile' \in LockFile /\ lockfile'.txnid = Newest.txnid
      /\ lockfile'.sized /\ lockfile'.magic
      /\ lockfile'.wmutex = lockfile.wmutex
  <2>1. lockfile.sized /\ lockfile.magic
    BY <1>2, <1>4 DEF IInv, Region, At
  <2>2. Newest.txnid \in Nat
    BY <1>1, <1>4, NewestForm
  <2>3. QED
    BY <1>1, <1>2, <2>1, <2>2 DEF LockFile
<1>6. /\ flock'.excl = None /\ flock'.shared = {p}
      /\ flock' \in [excl : Process \cup {None}, shared : SUBSET Process]
  BY <1>2, <1>4
<1>7. TypeOK'
  BY <1>1, <1>2, <1>3, <1>5, <1>6 DEF TypeOK, Becomes
<1>8. \A q \in Process \ {p} : ~Locked(q) /\ ~Locked(q)' /\ ~proc'[q].excl
  BY <1>3, <1>4 DEF IInv, Locks, Locked, At, Becomes
<1>9. Locks'
  BY <1>3, <1>6, <1>8, LmdbEnvAssumption DEF IInv, Locks, Locked, At, Becomes
<1>10. Mutex'
  <2>1. \A q \in Process : proc'[q].pc \notin {"txn", "commit"}
    BY <1>3, <1>8 DEF Locked, At, Becomes
  <2>2. \A q \in Process : lockfile.wmutex # q
    BY <1>2, <1>3, <2>1 DEF IInv, Mutex, Becomes, At
  <2>3. QED
    BY <1>5, <2>1, <2>2 DEF Mutex
<1>11. Files'
  BY <1>2, <1>3, <1>4, FilesStay DEF At, Pc, Making, Locked
<1>12. Region'
  BY <1>6, <1>9, LmdbEnvAssumption DEF Region, Locks
<1>13. ASSUME ~orphaned'
       PROVE  MetasAgree' /\ MakesMetas' /\ Ahead' /\ Good'
  <2>1. MetasAgree /\ UNCHANGED <<HasMetas, Newest>>
    BY <1>2, <1>13 DEF IInv, History, HasMetas, Newest
  <2>2. MetasAgree'
    BY <1>2, <2>1 DEF MetasAgree, MetaOf
  <2>3. MakesMetas' /\ Ahead'
    BY <1>3, <1>8 DEF MakesMetas, Ahead, Locked, At, Becomes
  <2>4. Good'
    BY <1>4, <1>5, <2>1 DEF Good
  <2>5. QED
    BY <2>2, <2>3, <2>4
<1>14. QED
  BY <1>7, <1>9, <1>10, <1>11, <1>12, <1>13 DEF IInv, History

(* An open store is used by processes that share the lock. *)
LEMMA UserFacts ==
    ASSUME IInv, NEW p \in Process, proc[p].pc \in {"open", "txn", "commit"}
    PROVE  /\ HasMetas /\ metas \in [1 .. 2 -> Meta]
           /\ flock.excl = None /\ ~proc[p].excl
           /\ ~orphaned => Good
<1>1. HasMetas /\ metas \in [1 .. 2 -> Meta]
  BY MetasForm DEF IInv, Files
<1>2. Locked(p) /\ ~proc[p].excl
  BY DEF IInv, Locks, Locked
<1>3. p \in flock.shared /\ flock.excl = None
  BY <1>2 DEF IInv, Locks
<1>4. QED
  BY <1>1, <1>2, <1>3 DEF IInv, History, Relied

(* A step between states of an open store that keeps the file lock. *)
LEMMA UserStep ==
    ASSUME IInv, NEW p \in Process, NEW base,
           NEW c \in {"open", "txn", "commit"},
           proc[p].pc \in {"open", "txn", "commit"},
           Becomes(p, c, proc[p].mode, proc[p].excl, base),
           UNCHANGED <<dir, flock>>, HasMetas',
           lockfile'.sized = lockfile.sized, lockfile'.magic = lockfile.magic
    PROVE  Locks' /\ Files' /\ Region'
<1>1. /\ HasMetas /\ ~proc[p].excl /\ flock.excl = None
      /\ metas # Absent
  BY UserFacts, MetasForm DEF IInv
<1>2. /\ Locked(p) /\ Locked(p)'
      /\ \A q \in Process \ {p} : Locked(q)' <=> Locked(q)
  BY DEF Becomes, Locked, At
<1>3. Locks'
  BY <1>1, <1>2 DEF IInv, Locks, Becomes
<1>4. Files'
  <2>1. /\ dir.settings = "written" /\ dir.store
        /\ proc[p].mode = "new" => dir.database
    BY <1>2 DEF IInv, Files, At, Making
  <2>2. QED
    BY <1>1, <1>2, <2>1 DEF IInv, Files, Making, Becomes, At
<1>5. Region'
  BY <1>1, <1>3, LmdbEnvAssumption DEF Region, Locks
<1>6. QED
  BY <1>3, <1>4, <1>5

(* A transaction starts from the newest txnid. *)
LEMMA BeginIInv ==
    ASSUME IInv, NEW p \in Process, txn_begin(p) PROVE IInv'
<1> DEFINE txnid == IF lockfile.wmutex = Dead THEN Newest.txnid
                    ELSE lockfile.txnid
<1>1. /\ TypeOK /\ proc[p] \in ProcState /\ proc \in [Process -> ProcState]
      /\ lockfile \in LockFile
  BY DEF IInv, TypeOK
<1>2. /\ At(p, "open") /\ lockfile.wmutex \in {None, Dead}
      /\ lockfile' = [lockfile EXCEPT !.wmutex = p, !.txnid = txnid]
      /\ proc' = [proc EXCEPT ![p].pc = "txn", ![p].base = txnid]
      /\ UNCHANGED <<dir, metas, flock, commits, orphaned, opens>>
  BY DEF txn_begin
<1>3. HasMetas /\ flock.excl = None /\ (~orphaned => Good)
  BY <1>2, UserFacts DEF At
<1>4. txnid \in Nat
  BY <1>1, <1>3, NewestForm DEF LockFile
<1>5. \A q \in Process : proc[q].pc \notin {"txn", "commit"}
  BY <1>2, LmdbEnvAssumption DEF IInv, Mutex
<1>6. ~orphaned => txnid = Newest.txnid
  BY <1>2, <1>3, <1>5, LmdbEnvAssumption DEF Good, Committing, At
<1> HIDE DEF txnid
<1>7. /\ lockfile' \in LockFile /\ lockfile'.txnid = txnid
      /\ lockfile'.wmutex = p
      /\ lockfile'.sized = lockfile.sized /\ lockfile'.magic = lockfile.magic
  BY <1>1, <1>2, <1>4 DEF LockFile
<1>8. Becomes(p, "txn", proc[p].mode, proc[p].excl, txnid)
  BY <1>1, <1>2, <1>4 DEF Becomes, ProcState, Pc
<1>9. UNCHANGED <<HasMetas, Newest>>
  BY <1>2 DEF HasMetas, Newest
<1>10. TypeOK'
  BY <1>1, <1>2, <1>7, <1>8 DEF TypeOK, Becomes
<1>11. Locks' /\ Files' /\ Region'
  BY <1>2, <1>3, <1>7, <1>8, <1>9, UserStep DEF At
<1>12. Mutex'
  BY <1>5, <1>7, <1>8 DEF Mutex, Becomes
<1>13. ASSUME ~orphaned'
       PROVE  MetasAgree' /\ MakesMetas' /\ Ahead' /\ Good'
  <2>1. MetasAgree /\ MakesMetas /\ Good
    BY <1>2, <1>3, <1>13 DEF IInv, History
  <2>2. MetasAgree'
    BY <1>2, <1>9, <2>1 DEF MetasAgree, MetaOf
  <2>3. MakesMetas' /\ Ahead'
    BY <1>5, <1>8, <1>9, <2>1 DEF MakesMetas, Ahead, At, Becomes
  <2>4. Good'
    BY <1>2, <1>6, <1>7, <1>9, <1>13, <2>1 DEF Good
  <2>5. QED
    BY <2>2, <2>3, <2>4
<1>14. QED
  BY <1>10, <1>11, <1>12, <1>13 DEF IInv, History

(* Writing over the older meta page makes it the newest. *)
LEMMA WriteNewest ==
    ASSUME NEW m \in [1 .. 2 -> Meta], NEW m1 \in [1 .. 2 -> Meta],
           NEW base \in Nat,
           LET new == IF m[1].txnid < m[2].txnid THEN m[2] ELSE m[1]
           IN  m[(base % 2) + 1] = new /\ new.txnid = base,
           m1 = [m EXCEPT ![((base + 1) % 2) + 1] =
                    [txnid |-> base + 1, count |-> m[(base % 2) + 1].count + 1]]
    PROVE  LET new == IF m[1].txnid < m[2].txnid THEN m[2] ELSE m[1]
               new1 == IF m1[1].txnid < m1[2].txnid THEN m1[2] ELSE m1[1]
           IN  /\ new1.txnid = base + 1 /\ new1.count = new.count + 1
               /\ m1[((base + 1) % 2) + 1] = new1
<1>1. CASE base % 2 = 0
  <2>1. (base + 1) % 2 = 1
    BY <1>1
  <2>2. /\ m1[1] = m[1] /\ m1[1].txnid = base
        /\ m1[2] = [txnid |-> base + 1, count |-> m[1].count + 1]
    BY <1>1, <2>1
  <2>3. QED
    BY <1>1, <2>1, <2>2
<1>2. CASE base % 2 = 1
  <2>1. (base + 1) % 2 = 0
    BY <1>2
  <2>2. /\ m1[2] = m[2] /\ m1[2].txnid = base
        /\ m1[1] = [txnid |-> base + 1, count |-> m[2].count + 1]
    BY <1>2, <2>1
  <2>3. QED
    BY <1>2, <2>1, <2>2
<1>3. QED
  BY <1>1, <1>2

(* A commit goes to the older meta page. *)
LEMMA WriteIInv ==
    ASSUME IInv, NEW p \in Process, write_meta(p) PROVE IInv'
<1> DEFINE base == proc[p].base
           m == [txnid |-> base + 1, count |-> MetaOf(base).count + 1]
<1>1. /\ TypeOK /\ proc[p] \in ProcState /\ proc \in [Process -> ProcState]
      /\ base \in Nat /\ commits \in Nat
  BY DEF IInv, TypeOK, ProcState
<1>2. /\ At(p, "txn") /\ Goto(p, "commit") /\ commits' = commits + 1
      /\ metas' = [metas EXCEPT ![((base + 1) % 2) + 1] = m]
      /\ UNCHANGED <<dir, lockfile, flock, orphaned, opens>>
  BY DEF write_meta
<1>3. /\ HasMetas /\ metas \in [1 .. 2 -> Meta] /\ flock.excl = None
      /\ ~orphaned => Good
  BY <1>2, UserFacts DEF At
<1>4. m \in Meta /\ metas' \in [1 .. 2 -> Meta]
  <2>1. base % 2 \in 0 .. 1 /\ (base + 1) % 2 \in 0 .. 1
    BY <1>1
  <2>2. MetaOf(base) \in Meta
    BY <1>3, <2>1 DEF MetaOf
  <2>3. m \in Meta
    BY <1>1, <2>2 DEF Meta
  <2>4. QED
    BY <1>2, <1>3, <2>3
<1>5. Becomes(p, "commit", proc[p].mode, proc[p].excl, base)
  BY <1>1, <1>2, GotoForm DEF Pc
<1>6. TypeOK'
  BY <1>1, <1>2, <1>4, <1>5 DEF TypeOK, Becomes
<1>7. HasMetas'
  BY <1>4, LenProperties, SeqDef DEF HasMetas
<1>8. Locks' /\ Files' /\ Region'
  BY <1>2, <1>3, <1>5, <1>7, UserStep DEF At
<1>9. Mutex'
  BY <1>2, <1>5 DEF IInv, Mutex, At, Becomes
<1>10. /\ base = lockfile.txnid /\ lockfile.wmutex = p
       /\ \A q \in Process \ {p} : proc[q].pc \notin {"txn", "commit"}
  BY <1>2 DEF IInv, Mutex, At
<1>11. ASSUME ~orphaned'
       PROVE  MetasAgree' /\ MakesMetas' /\ Ahead' /\ Good'
  <2>1. MetasAgree /\ MakesMetas /\ Good
    BY <1>2, <1>3, <1>11 DEF IInv, History
  <2>2. Newest.txnid = base
    BY <1>2, <1>10, <2>1, LmdbEnvAssumption DEF Good, Committing, At
  <2>3. MetaOf(base) = Newest /\ Newest.count = commits
    BY <1>3, <2>1, <2>2 DEF MetasAgree
  <2>4. /\ Newest'.txnid = base + 1 /\ Newest'.count = commits + 1
        /\ metas'[((base + 1) % 2) + 1] = Newest'
    <3>1. LET new == IF metas[1].txnid < metas[2].txnid THEN metas[2]
                     ELSE metas[1]
          IN  metas[(base % 2) + 1] = new /\ new.txnid = base
      BY <2>2, <2>3 DEF Newest, MetaOf
    <3>2. metas' = [metas EXCEPT ![((base + 1) % 2) + 1] =
                       [txnid |-> base + 1,
                        count |-> metas[(base % 2) + 1].count + 1]]
      BY <1>2 DEF MetaOf
    <3> HIDE DEF base
    <3>3. LET new == IF metas[1].txnid < metas[2].txnid THEN metas[2]
                     ELSE metas[1]
              new1 == IF metas'[1].txnid < metas'[2].txnid THEN metas'[2]
                      ELSE metas'[1]
          IN  /\ new1.txnid = base + 1 /\ new1.count = new.count + 1
              /\ metas'[((base + 1) % 2) + 1] = new1
      BY <1>1, <1>3, <1>4, <3>1, <3>2, WriteNewest
    <3>4. QED
      BY <2>3, <3>3 DEF Newest
  <2>5. MetasAgree'
    BY <1>2, <1>7, <2>4 DEF MetasAgree, MetaOf
  <2>6. MakesMetas' /\ Ahead'
    BY <1>2, <1>3, <1>5, <1>10, <2>1, <2>4
    DEF MakesMetas, Ahead, At, Becomes
  <2>7. Good'
    BY <1>2, <1>5, <1>7, <1>10, <2>1, <2>4
    DEF Good, Committing, At, Becomes
  <2>8. QED
    BY <2>5, <2>6, <2>7
<1>12. QED
  BY <1>6, <1>8, <1>9, <1>11 DEF IInv, History

(* The region tells the new txnid. *)
LEMMA EndIInv ==
    ASSUME IInv, NEW p \in Process, txn_end(p) PROVE IInv'
<1> DEFINE base == proc[p].base
<1>1. /\ TypeOK /\ proc[p] \in ProcState /\ proc \in [Process -> ProcState]
      /\ lockfile \in LockFile /\ base \in Nat
  BY DEF IInv, TypeOK, ProcState
<1>2. /\ At(p, "commit")
      /\ lockfile' = [lockfile EXCEPT !.txnid = base + 1, !.wmutex = None]
      /\ proc' = [proc EXCEPT ![p].pc = "open", ![p].base = 0]
      /\ UNCHANGED <<dir, metas, flock, commits, orphaned, opens>>
  BY DEF txn_end
<1>3. HasMetas /\ flock.excl = None /\ (~orphaned => Good)
  BY <1>2, UserFacts DEF At
<1>4. /\ base = lockfile.txnid /\ lockfile.wmutex = p
      /\ \A q \in Process \ {p} : proc[q].pc \notin {"txn", "commit"}
  BY <1>2 DEF IInv, Mutex, At
<1> HIDE DEF base
<1>5. /\ lockfile' \in LockFile /\ lockfile'.txnid = base + 1
      /\ lockfile'.wmutex = None
      /\ lockfile'.sized = lockfile.sized /\ lockfile'.magic = lockfile.magic
  <2> DEFINE t == base + 1
  <2>1. t \in Nat /\ lockfile' = [lockfile EXCEPT !.txnid = t, !.wmutex = None]
    BY <1>1, <1>2
  <2> HIDE DEF t
  <2>2. /\ lockfile' \in LockFile /\ lockfile'.txnid = t
        /\ lockfile'.wmutex = None
        /\ lockfile'.sized = lockfile.sized
        /\ lockfile'.magic = lockfile.magic
    BY <1>1, <2>1 DEF LockFile
  <2>3. QED
    BY <2>2 DEF t
<1>6. Becomes(p, "open", proc[p].mode, proc[p].excl, 0)
  BY <1>1, <1>2 DEF Becomes, ProcState, Pc
<1>7. UNCHANGED <<HasMetas, Newest>>
  BY <1>2 DEF HasMetas, Newest
<1>8. TypeOK'
  BY <1>1, <1>2, <1>5, <1>6 DEF TypeOK, Becomes
<1>9. Locks' /\ Files' /\ Region'
  BY <1>2, <1>3, <1>5, <1>6, <1>7, UserStep DEF At
<1>10. Mutex'
  BY <1>4, <1>5, <1>6, LmdbEnvAssumption DEF Mutex, Becomes
<1>11. ASSUME ~orphaned'
       PROVE  MetasAgree' /\ MakesMetas' /\ Ahead' /\ Good'
  <2>1. MetasAgree /\ MakesMetas /\ Good /\ Newest.txnid = base + 1
    BY <1>2, <1>3, <1>4, <1>11 DEF IInv, History, Ahead
  <2>2. MetasAgree'
    BY <1>2, <1>7, <2>1 DEF MetasAgree, MetaOf
  <2>3. MakesMetas' /\ Ahead'
    BY <1>4, <1>6, <1>7, <2>1 DEF MakesMetas, Ahead, At, Becomes
  <2>4. Good'
    BY <1>5, <1>7, <2>1 DEF Good
  <2>5. QED
    BY <2>2, <2>3, <2>4
<1>12. QED
  BY <1>8, <1>9, <1>10, <1>11 DEF IInv, History

(* A process that is closed or killed drops its lock. *)
LEMMA GoneForms ==
    ASSUME IInv, NEW p \in Process, proc' = [proc EXCEPT ![p] = Gone],
           Release(p)
    PROVE  /\ Becomes(p, "idle", "read", FALSE, 0)
           /\ flock'.excl = IF flock.excl = p THEN None ELSE flock.excl
           /\ flock'.shared = flock.shared \ {p}
           /\ flock' \in [excl : Process \cup {None},
                          shared : SUBSET Process]
           /\ Locks'
<1>1. /\ proc[p] \in ProcState /\ proc \in [Process -> ProcState]
      /\ flock \in [excl : Process \cup {None}, shared : SUBSET Process]
  BY DEF IInv, TypeOK
<1>2. Becomes(p, "idle", "read", FALSE, 0)
  BY <1>1 DEF Becomes, ProcState, Pc, Gone
<1>3. /\ flock'.excl = IF flock.excl = p THEN None ELSE flock.excl
      /\ flock'.shared = flock.shared \ {p}
      /\ flock' \in [excl : Process \cup {None}, shared : SUBSET Process]
  BY <1>1 DEF Release
<1>4. Locks'
  BY <1>2, <1>3, LmdbEnvAssumption DEF IInv, Locks, Locked, Becomes, At
<1>5. QED
  BY <1>2, <1>3, <1>4

(* mdb_env_close keeps the invariant.                                      *)
LEMMA CloseIInv ==
    ASSUME IInv, NEW p \in Process, env_close(p) PROVE IInv'
<1>1. /\ proc' = [proc EXCEPT ![p] = Gone] /\ Release(p)
      /\ proc[p].pc \in {"open", "failed"}
      /\ UNCHANGED <<dir, lockfile, metas, commits, orphaned, opens>>
  BY DEF env_close
<1>2. /\ Becomes(p, "idle", "read", FALSE, 0)
      /\ flock'.excl = IF flock.excl = p THEN None ELSE flock.excl
      /\ flock'.shared = flock.shared \ {p}
      /\ flock' \in [excl : Process \cup {None}, shared : SUBSET Process]
      /\ Locks'
  BY <1>1, GoneForms
<1>3. TypeOK'
  BY <1>1, <1>2 DEF IInv, TypeOK, Becomes
<1>4. Mutex'
  BY <1>1, <1>2 DEF IInv, Mutex, Becomes
<1>5. Files'
  BY <1>1, <1>2 DEF IInv, Files, Making, Locked, At, HasMetas, Becomes
<1>6. Region'
  BY <1>1, <1>2 DEF IInv, Region, At, Becomes
<1>7. History'
  <2>1. flock.excl # p
    BY <1>1 DEF IInv, Locks, Locked, At
  <2>2. Relied' => Relied
    BY <1>2, <2>1 DEF Relied, At, Becomes
  <2>3. \A q \in Process : At(q, "commit")' <=> At(q, "commit")
    BY <1>1, <1>2 DEF At, Becomes
  <2>4. ASSUME NEW q \in Process, ~orphaned', At(q, "meta")'
        PROVE  ~HasMetas /\ proc'[q].excl
    BY <1>1, <1>2, <2>4 DEF At, Becomes, IInv, History, MakesMetas
  <2>5. QED
    BY <1>1, <2>2, <2>3, <2>4, HistoryStays
<1>8. QED
  BY <1>2, <1>3, <1>4, <1>5, <1>6, <1>7 DEF IInv

(* A process is killed: the next to take the writer mutex will know. *)
LEMMA KilledIInv ==
    ASSUME IInv, NEW p \in Process, Killed(p) PROVE IInv'
<1>1. /\ proc' = [proc EXCEPT ![p] = Gone] /\ Release(p)
      /\ lockfile' = [lockfile EXCEPT !.wmutex = IF @ = p THEN Dead ELSE @]
      /\ orphaned' = (orphaned \/ Orphans(p))
      /\ UNCHANGED <<dir, metas, commits, opens>>
  BY DEF Killed
<1>2. /\ Becomes(p, "idle", "read", FALSE, 0)
      /\ flock'.excl = IF flock.excl = p THEN None ELSE flock.excl
      /\ flock'.shared = flock.shared \ {p}
      /\ flock' \in [excl : Process \cup {None}, shared : SUBSET Process]
      /\ Locks'
  BY <1>1, GoneForms
<1>3. /\ lockfile \in LockFile /\ lockfile' \in LockFile
      /\ lockfile'.sized = lockfile.sized /\ lockfile'.magic = lockfile.magic
      /\ lockfile'.txnid = lockfile.txnid
      /\ lockfile'.wmutex = IF lockfile.wmutex = p THEN Dead
                            ELSE lockfile.wmutex
  BY <1>1 DEF IInv, TypeOK, LockFile
<1>4. TypeOK'
  BY <1>1, <1>2, <1>3 DEF IInv, TypeOK, Becomes, Orphans
<1>5. Mutex'
  BY <1>2, <1>3, LmdbEnvAssumption DEF IInv, Mutex, Becomes
<1>6. Files'
  BY <1>1, <1>2 DEF IInv, Files, Making, Locked, At, HasMetas, Becomes
<1>7. Region'
  BY <1>2, <1>3 DEF IInv, Region, At, Becomes
<1>8. ASSUME ~orphaned'
      PROVE  MetasAgree' /\ MakesMetas' /\ Ahead' /\ (Relied' => Good')
  <2>1. /\ ~Orphans(p) /\ MetasAgree /\ MakesMetas /\ Ahead
        /\ Relied => Good
        /\ UNCHANGED <<HasMetas, Newest>>
    BY <1>1, <1>8 DEF IInv, History, HasMetas, Newest
  <2>2. MetasAgree'
    BY <1>1, <2>1 DEF MetasAgree, MetaOf
  <2>3. MakesMetas' /\ Ahead'
    BY <1>2, <1>3, <2>1 DEF MakesMetas, Ahead, At, Becomes
  <2>4. ASSUME Relied' PROVE Relied
    <3>1. \A q \in Process : At(q, "wait")' => At(q, "wait")
      BY <1>2 DEF At, Becomes
    <3>2. CASE flock.excl = p
      BY <1>2, <2>1, <2>4, <3>1, <3>2, LmdbEnvAssumption
      DEF IInv, Locks, Relied, Orphans
    <3>3. CASE flock.excl # p
      BY <1>2, <2>4, <3>1, <3>3 DEF Relied
    <3>4. QED
      BY <3>2, <3>3
  <2>5. Committing => Committing'
    <3>1. CASE lockfile.wmutex = Dead
      BY <1>3, <3>1, LmdbEnvAssumption DEF Committing
    <3>2. ASSUME NEW q \in Process, At(q, "commit") PROVE Committing'
      <4>1. CASE q = p
        BY <1>3, <3>2, <4>1 DEF IInv, Mutex, At, Committing
      <4>2. CASE q # p
        BY <1>2, <3>2, <4>2 DEF At, Becomes, Committing
      <4>3. QED
        BY <4>1, <4>2
    <3>3. QED
      BY <3>1, <3>2 DEF Committing
  <2>6. Good => Good'
    BY <1>3, <2>1, <2>5 DEF Good
  <2>7. QED
    BY <2>1, <2>2, <2>3, <2>4, <2>6
<1>9. QED
  BY <1>2, <1>4, <1>5, <1>6, <1>7, <1>8 DEF IInv, History

-----------------------------------------------------------------------------
(* Nothing is there and nobody holds anything. *)
LEMMA InitIInv == Init => IInv
<1> SUFFICES ASSUME Init PROVE IInv
  OBVIOUS
<1>1. /\ dir = [database |-> FALSE, settings |-> "absent", store |-> FALSE]
      /\ lockfile = [sized |-> FALSE, magic |-> FALSE, txnid |-> 0,
                     wmutex |-> None]
      /\ metas = Absent /\ flock = [excl |-> None, shared |-> {}]
      /\ commits = 0 /\ orphaned = FALSE /\ opens = 0
      /\ \A p \in Process : /\ proc[p].pc = "idle" /\ proc[p].mode = "read"
                            /\ proc[p].excl = FALSE
  BY DEF Init, Gone
<1>2. proc \in [Process -> ProcState]
  BY DEF Init, Gone, ProcState, Pc
<1>3. TypeOK
  BY <1>1, <1>2 DEF TypeOK, LockFile
<1>4. ~HasMetas
  BY <1>1, <1>3, MetasForm
<1>5. Locks /\ Mutex /\ Region
  BY <1>1, LmdbEnvAssumption DEF Locks, Locked, At, Mutex, Region
<1>6. Files
  BY <1>1, <1>4 DEF Files, Making, Locked, At
<1>7. History
  BY <1>1, <1>4 DEF History, MetasAgree, MakesMetas, Ahead, Relied, At
<1>8. QED
  BY <1>3, <1>5, <1>6, <1>7 DEF IInv

(* Every step of a process. *)
LEMMA ProcessIInv ==
    ASSUME IInv, NEW p \in Process,
           \/ create_hashdb(p) \/ OpenDatabase(p)
           \/ Step(p) \/ txn_begin(p) \/ env_close(p) \/ Killed(p)
    PROVE  IInv'
<1>1. CASE env_open(p)
  <2>1. CASE excl_lock(p)
    BY <2>1, ExclLockIInv, OpenIInv
  <2>2. CASE open_datafile(p)
    BY <2>2, DataFileIInv, OpenIInv
  <2>3. QED
    BY <1>1, <2>1, <2>2, OpenIInv, WaitIInv, ResetIInv, InitMetaIInv,
       ShareIInv
    DEF env_open
<1>2. CASE Step(p)
  BY <1>1, <1>2, DirectoryIInv, WriteIInv, EndIInv DEF Step
<1>3. QED
  BY <1>2, StartIInv, BeginIInv, CloseIInv, KilledIInv

(* Every step keeps the invariant.                                         *)
LEMMA NextIInv == IInv /\ [Next]_vars => IInv'
<1>1. ASSUME IInv, Next PROVE IInv'
  BY <1>1, ProcessIInv DEF Next
<1>2. ASSUME IInv, UNCHANGED vars PROVE IInv'
  BY <1>2
  DEF vars, IInv, TypeOK, Locks, Locked, At, Mutex, Files, Making, Region,
      History, MetasAgree, MakesMetas, Ahead, Relied, Good, HasMetas,
      Newest, MetaOf, Committing
<1>3. QED
  BY <1>1, <1>2

(* The invariant holds in every reachable state. *)
LEMMA Invariance == Spec => []IInv
BY InitIInv, NextIInv, PTL DEF Spec

-----------------------------------------------------------------------------
(* The invariant is enough for NothingLost.                                *)
LEMMA NothingLostFromIInv == IInv => NothingLost
<1> SUFFICES ASSUME IInv, ~orphaned
             PROVE  /\ HasMetas \/ commits = 0
                    /\ HasMetas => Newest.count = commits
                    /\ Users # {} => \/ lockfile.txnid = Newest.txnid
                                     \/ /\ Committing
                                        /\ lockfile.txnid + 1 = Newest.txnid
  BY DEF NothingLost
<1>1. MetasAgree
  BY DEF IInv, History
<1>2. ASSUME NEW p \in Users PROVE Good
  BY UserFacts DEF Users
<1>3. QED
  BY <1>1, <1>2 DEF MetasAgree, Good

(***************************************************************************)
(* For any number of processes that create, open, use and close a store    *)
(* and that are killed anywhere, but as long as none was killed, and none  *)
(* failed to read an empty data file, while it had the lock file           *)
(* exclusively and another waited for it in mdb_env_excl_lock              *)
(* (mdb.c:4346): the newest meta page has every commit and the lock region *)
(* gives the newest txnid to the next transaction.  After such a kill the  *)
(* code does lose commits.                                                 *)
(***************************************************************************)
THEOREM CommitsSurvive == Spec => []NothingLost
BY Invariance, NothingLostFromIInv, PTL

(* Who fails, and why: one step of OpensFail. *)
FailsForAReason ==
    \A p \in Process :
        ~At(p, "failed") /\ proc'[p].pc = "failed" =>
            IF proc'[p].mode = "new" THEN dir.database
            ELSE ~HasMetas \/ orphaned

(* A step that makes an opening fail has one of the reasons for it.        *)
LEMMA StepFails == IInv /\ [Next]_vars => FailsForAReason
<1> SUFFICES ASSUME IInv, Next, NEW p \in Process,
                    ~At(p, "failed"), proc'[p].pc = "failed"
             PROVE  IF proc'[p].mode = "new" THEN dir.database
                    ELSE ~HasMetas \/ orphaned
  BY DEF FailsForAReason, vars, At
<1>1. /\ TypeOK /\ proc \in [Process -> ProcState]
      /\ \A q \in Process : proc[q] \in ProcState
  BY DEF IInv, TypeOK
<1>2. PICK q \in Process :
         \/ create_hashdb(q) \/ OpenDatabase(q)
         \/ Step(q) \/ txn_begin(q) \/ env_close(q) \/ Killed(q)
  BY DEF Next
<1>3. CASE create_hashdb(q) \/ OpenDatabase(q)
  <2>1. PICK mode \in {"new", "modify", "read"},
             c \in {"failed", "mkdir", "data", "lockfile"} :
           /\ Start(q, mode, c)
           /\ c = "failed" => IF mode = "new" THEN dir.database
                              ELSE dir.settings # "written"
    BY <1>3 DEF create_hashdb, OpenDatabase, read_settings
  <2>2. p = q /\ mode = proc'[p].mode /\ c = "failed"
    BY <1>1, <2>1 DEF Start, At, Gone
  <2>3. HasMetas => dir.settings = "written"
    BY MetasForm DEF IInv, Files
  <2>4. QED
    BY <2>1, <2>2, <2>3
<1>4. CASE Mkdir(q)
  <2>1. proc[q].mode = "new"
    BY <1>4 DEF Mkdir, At, IInv, Files
  <2>2. dir.database /\ p = q /\ proc'[p].mode = proc[p].mode
    BY <1>1, <1>4 DEF Mkdir, Fail, Goto, At, ProcState
  <2>3. QED
    BY <2>1, <2>2
<1>5. CASE env_open(q)
  <2>1. /\ p = q /\ proc'[p].mode = proc[p].mode
        /\ \/ /\ \/ open_lockfile(q) /\ ~dir.store
                 \/ open_datafile(q) /\ metas = Absent
                 \/ read_header(q) /\ ~HasMetas
           \/ check_region(q) /\ ~(lockfile.sized /\ lockfile.magic)
    <3>1. CASE open_lockfile(q)
      BY <1>1, <3>1 DEF open_lockfile, Fail, Goto, At, ProcState
    <3>2. CASE open_datafile(q)
      BY <1>1, <3>2 DEF open_datafile, Fail, Goto, At, ProcState
    <3>3. CASE read_header(q)
      BY <1>1, <3>3 DEF read_header, Fail, Goto, At, AfterMap, ProcState
    <3>4. CASE check_region(q)
      BY <1>1, <3>4 DEF check_region, Fail, Goto, At, AfterLocks, ProcState
    <3>5. CASE \/ excl_lock(q) \/ excl_lock_wait(q) \/ truncate_lockfile(q)
               \/ init_region(q) \/ init_meta(q) \/ share_locks(q)
      BY <1>1, <3>5
      DEF excl_lock, excl_lock_wait, truncate_lockfile, init_region,
          init_meta, share_locks, Goto, At, AfterLocks, AfterMap, ProcState
    <3>6. QED
      BY <1>5, <3>1, <3>2, <3>3, <3>4, <3>5 DEF env_open
  <2>2. proc[q].pc \in {"lockfile", "data", "header", "check"}
    BY <2>1 DEF open_lockfile, open_datafile, read_header, check_region, At
  <2>3. proc[q].mode = "new" => dir.database
    BY <2>2 DEF IInv, Files
  <2>4. HasMetas => dir.store /\ metas # Absent
    BY <1>1, MetasForm DEF IInv, Files
  <2>5. ASSUME check_region(q), ~(lockfile.sized /\ lockfile.magic)
        PROVE  orphaned
    <3>1. Locked(q) /\ ~proc[q].excl
      BY <2>5 DEF check_region, At, Locked, IInv, Locks
    <3>2. q \in flock.shared /\ flock.excl = None
      BY <3>1 DEF IInv, Locks
    <3>3. QED
      BY <2>5, <3>2 DEF IInv, History, Relied, Good
  <2>6. QED
    BY <2>1, <2>3, <2>4, <2>5
<1>6. CASE \/ write_settings(q) \/ open_env_new(q) \/ write_meta(q)
           \/ txn_end(q) \/ txn_begin(q) \/ env_close(q) \/ Killed(q)
  BY <1>1, <1>6
  DEF write_settings, open_env_new, write_meta, txn_end, txn_begin,
      env_close, Killed, Gone, Goto, At, ProcState
<1>7. QED
  BY <1>2, <1>3, <1>4, <1>5, <1>6 DEF Step

(***************************************************************************)
(* For any number of processes: opening a database fails only when there   *)
(* is nothing to open, or after a process was killed, or failed, while it  *)
(* had the lock file exclusively and another waited for it (mdb.c:4346);   *)
(* creating one only when the path exists.                                 *)
(***************************************************************************)
THEOREM OpeningsFailForAReason == Spec => OpensFail
<1>1. IInv /\ [Next]_vars => [FailsForAReason]_vars
  BY StepFails
<1>2. [][FailsForAReason]_vars <=> OpensFail
  BY DEF OpensFail, FailsForAReason
<1>3. QED
  BY <1>1, <1>2, Invariance, PTL DEF Spec
=============================================================================
