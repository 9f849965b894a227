---------------------------- MODULE LmdbTxnProofs ----------------------------
(***************************************************************************)
(* What is proved of the transactions of liblmdb (LmdbTxn) for every set   *)
(* of processes and keys and every bound, whoever dies where:              *)
(*   - a write transaction builds on the last commit;                      *)
(*   - the newest meta page describes the last commit in full;             *)
(*   - a reader sees one committed state for as long as it reads.          *)
(* The first follows from IInv, on the mutex and the transaction numbers.  *)
(* The other two need PagesInv, on the pages of the map; its second half   *)
(* has a lemma for every procedure of the model that allocates, copies,    *)
(* frees or stores pages.                                                  *)
(***************************************************************************)
EXTENDS LmdbTxn, TLAPS, NaturalsInduction, WellFoundedInduction

(***************************************************************************)
(* The shape of the state, as far as the arguments need it: records with   *)
(* the fields of the records the processes start from.                     *)
(***************************************************************************)
HasFields(r, S) == r = [f \in S |-> r[f]]

TxnFields == {"pc", "txnid", "main", "free", "next_pgno", "dirty", "free_pgs",
              "loose", "head", "pghead", "pglast", "found_old", "full",
              "puts", "from", "sound", "view"}
EnvFields == {"open", "maxpg", "pgoldest"}
InfoFields == {"txnid", "wmutex", "stale", "slot"}
MetaFields == {"txnid", "main", "free", "last_pg", "mapsize", "owner",
               "last_owner"}

IsTxn(t) == HasFields(t, TxnFields) /\ t.txnid \in Nat

Shape ==
    /\ txn = [p \in Procs |-> txn[p]]
    /\ \A p \in Procs : IsTxn(txn[p])
    /\ env = [p \in Procs |-> env[p]]
    /\ \A p \in Procs : HasFields(env[p], EnvFields)
    /\ HasFields(info, InfoFields)
    /\ info.txnid \in Nat
    /\ meta = [i \in 0..1 |-> meta[i]]
    /\ \A i \in 0..1 : HasFields(meta[i], MetaFields)
                       /\ meta[i].txnid \in Nat
    /\ Committed \subseteq Nat

(***************************************************************************)
(* The writer mutex is owned exactly by the process that is in its write   *)
(* transaction, and only a process with the store open is in a transaction.*)
(***************************************************************************)
Holding == {"write", "save", "dbs", "last", "txnid", "publish", "end"}
BeforeCommit == {"write", "save", "dbs", "last", "txnid"}

Opened == \A p \in Procs : txn[p].pc # "idle" => env[p].open

Owner == \A p \in Procs : txn[p].pc \in Holding <=> info.wmutex = p

(***************************************************************************)
(* The newest meta page is the last commit, and the lock file says so      *)
(* whenever a process may begin a write transaction.                       *)
(***************************************************************************)
Newest ==
    /\ pick_meta.txnid \in Committed
    /\ \A t \in Committed : t <= pick_meta.txnid

LockFile ==
    /\ (info.wmutex = Free /\ \E p \in Procs : env[p].open) =>
           info.txnid = pick_meta.txnid
    /\ \A p \in Procs :
          /\ txn[p].pc \in BeforeCommit =>
                /\ txn[p].txnid = pick_meta.txnid + 1
                /\ info.txnid = pick_meta.txnid
          /\ txn[p].pc = "publish" => txn[p].txnid = pick_meta.txnid
          /\ txn[p].pc = "end" => info.txnid = pick_meta.txnid

IInv == Shape /\ Opened /\ Owner /\ Newest /\ LockFile

-----------------------------------------------------------------------------
(***************************************************************************)
(* Facts about the operators.                                              *)
(***************************************************************************)
(* The fields of a transaction after one of them is set.                   *)
LEMMA TxnForm ==
    ASSUME NEW t, IsTxn(t), NEW f \in TxnFields, NEW v,
           f = "txnid" => v \in Nat
    PROVE  /\ IsTxn([t EXCEPT ![f] = v])
           /\ \A g \in TxnFields :
                 [t EXCEPT ![f] = v][g] = IF g = f THEN v ELSE t[g]
BY DEF IsTxn, HasFields, TxnFields

(* A process that is in no transaction.                                    *)
LEMMA NoTxnForm ==
    IsTxn(NoTxn) /\ NoTxn.pc = "idle" /\ NoTxn.txnid = 0
BY DEF IsTxn, HasFields, TxnFields, NoTxn

(* The state s of a transaction differs from the state t in neither its    *)
(* place nor its txnid.                                                    *)
SameTxn(s, t) == IsTxn(s) /\ s.pc = t.pc /\ s.txnid = t.txnid

(* Setting a field that is neither the place nor the txnid.                *)
LEMMA KeepsTxn ==
    ASSUME NEW t, NEW s, SameTxn(s, t), NEW f \in TxnFields \ {"pc", "txnid"},
           NEW v
    PROVE  SameTxn([s EXCEPT ![f] = v], t)
BY TxnForm DEF SameTxn, TxnFields

(* mdb_page_alloc leaves the place and the txnid alone.                    *)
LEMMA AllocKeepsTxn ==
    ASSUME NEW pg, NEW t, NEW s, SameTxn(s, t), NEW e
    PROVE  SameTxn(page_alloc(pg, s, e).t, t)
<1>1. SameTxn(Fetch(pg, s, e.pgoldest), t)
  <2> DEFINE got == Fetched(pg, s, e.pgoldest)
             new == UNION {Recs(pg, s.free)[i] : i \in got}
             a == [s EXCEPT !["head"] = TRUE]
             b == [a EXCEPT !["pglast"] = Max(got)]
             c == [b EXCEPT !["pghead"] = new]
  <2>1. SameTxn(c, t)
    <3>1. SameTxn(a, t)
      BY KeepsTxn DEF TxnFields
    <3>2. SameTxn(b, t)
      <4> HIDE DEF a
      <4> QED  BY <3>1, KeepsTxn DEF TxnFields
    <3> HIDE DEF b
    <3> QED  BY <3>2, KeepsTxn DEF TxnFields
  <2>2. Fetch(pg, s, e.pgoldest) = s \/ Fetch(pg, s, e.pgoldest) = c
    BY DEF Fetch
  <2> QED  BY <2>1, <2>2
<1> DEFINE f == Fetch(pg, s, e.pgoldest)
<1>2. ASSUME NEW np, NEW u, SameTxn(u, t)
      PROVE  SameTxn(mdb_page_dirty(u, np), t)
  BY <1>2, KeepsTxn DEF TxnFields, mdb_page_dirty
<1>3. CASE s.loose # {}
  <2> DEFINE np == CHOOSE i \in s.loose : TRUE
  <2>1. page_alloc(pg, s, e).t = [s EXCEPT !["loose"] = s.loose \ {np}]
    BY <1>3 DEF page_alloc
  <2> QED  BY <2>1, KeepsTxn DEF TxnFields
<1>4. CASE s.loose = {} /\ f.pghead # {}
  <2> DEFINE np == Min(f.pghead)
             u == [f EXCEPT !["pghead"] = f.pghead \ {np}]
  <2>1. page_alloc(pg, s, e).t = mdb_page_dirty(u, np)
    BY <1>4 DEF page_alloc
  <2>2. SameTxn(u, t)
    <3> HIDE DEF f
    <3> QED  BY <1>1, KeepsTxn DEF TxnFields, f
  <2> QED  BY <1>2, <2>1, <2>2
<1>5. CASE s.loose = {} /\ f.pghead = {}
  <2>1. page_alloc(pg, s, e) = NewPage(f, e)
    BY <1>5 DEF page_alloc
  <2> DEFINE u == [f EXCEPT !["full"] = TRUE]
             v == [f EXCEPT !["next_pgno"] = f.next_pgno + 1]
  <2>2. SameTxn(u, t) /\ SameTxn(v, t)
    <3> HIDE DEF f
    <3> QED  BY <1>1, KeepsTxn DEF TxnFields, f
  <2>3. NewPage(f, e).t = u
        \/ NewPage(f, e).t = mdb_page_dirty(v, f.next_pgno)
    BY DEF NewPage
  <2> QED  BY <1>2, <2>1, <2>2, <2>3
<1> QED  BY <1>3, <1>4, <1>5

(* mdb_page_touch does, too; so do the steps of a change.                  *)
LEMMA TouchKeepsTxn ==
    ASSUME NEW pg, NEW t, NEW s, SameTxn(s, t), NEW e, NEW mp
    PROVE  SameTxn(page_touch(pg, s, e, mp).t, t)
<1> DEFINE a == page_alloc(pg, s, e)
           fp == a.t.free_pgs \cup ({mp} \ {P_INVALID})
<1>1. SameTxn(a.t, t)
  BY AllocKeepsTxn
<1>2. SameTxn([a.t EXCEPT !["free_pgs"] = fp], t)
  <2> HIDE DEF a
  <2> QED  BY <1>1, KeepsTxn DEF TxnFields
<1>3. \/ page_touch(pg, s, e, mp).t = s
      \/ page_touch(pg, s, e, mp).t = a.t
      \/ page_touch(pg, s, e, mp).t = [a.t EXCEPT !["free_pgs"] = fp]
  BY DEF page_touch
<1> QED  BY <1>1, <1>2, <1>3

(* Copying the root and a leaf of the main database leaves the             *)
(* transaction its ID and its place in the protocol.                       *)
LEMMA LeafTouchedKeepsTxn ==
    ASSUME NEW t, NEW r, SameTxn(r.t, t), NEW e, NEW k
    PROVE  SameTxn(LeafTouched(r, e, k).t, t)
<1> DEFINE u == [r.t EXCEPT !["main"] = r.np]
           l == page_touch(r.pg, u, e, r.pg[r.np].kids[k])
<1>1. SameTxn(u, t)
  BY KeepsTxn DEF TxnFields
<1>2. SameTxn(l.t, t)
  <2> HIDE DEF u
  <2> QED  BY <1>1, TouchKeepsTxn DEF l
<1>3. LeafTouched(r, e, k).t = l.t
  BY DEF LeafTouched, page_touch
<1> QED  BY <1>2, <1>3

(* So does taking an empty leaf, and then the root, out of the tree.       *)
LEMMA UnlinkedKeepsTxn ==
    ASSUME NEW t, NEW c, SameTxn(c.t, t), NEW k
    PROVE  SameTxn(Unlinked(c, k).t, t)
<1> DEFINE u == [c.t EXCEPT !["loose"] = c.t.loose \cup {c.np}]
           v == [u EXCEPT !["main"] = P_INVALID]
           w == [v EXCEPT !["free_pgs"] = v.free_pgs \cup {c.t.main}]
<1>1. SameTxn(u, t)
  BY KeepsTxn DEF TxnFields
<1>2. SameTxn(v, t)
  <2> HIDE DEF u
  <2> QED  BY <1>1, KeepsTxn DEF TxnFields
<1>3. SameTxn(w, t)
  <2> HIDE DEF v
  <2> QED  BY <1>2, KeepsTxn DEF TxnFields
<1>4. page_loose(c.t, c.np) = u
  BY DEF page_loose
<1>5. Unlinked(c, k).t = u \/ Unlinked(c, k).t = w
  <2> HIDE DEF u
  <2> QED  BY <1>4, Zenon DEF Unlinked
<1> QED  BY <1>1, <1>3, <1>5

(***************************************************************************)
(* The steps of mdb_freelist_save: pages and a transaction in, pages and   *)
(* a transaction out.                                                      *)
(***************************************************************************)
IsWork(s, t) == HasFields(s, {"pg", "t"}) /\ SameTxn(s.t, t)

(* What replaces the transaction, or the pages, of such a pair.            *)
LEMMA WorkForm ==
    ASSUME NEW t, NEW s, IsWork(s, t)
    PROVE  /\ \A u : SameTxn(u, t) => IsWork([s EXCEPT !.t = u], t)
           /\ \A pg : IsWork([s EXCEPT !.pg = pg], t)
           /\ \A u, pg : SameTxn(u, t) => IsWork([pg |-> pg, t |-> u], t)
BY DEF IsWork, HasFields

(* Copying the page of the free database changes page numbers only.        *)
LEMMA TouchFreeKeepsTxn ==
    ASSUME NEW t, NEW s, IsWork(s, t), NEW e
    PROVE  IsWork(TouchFree(s, e), t)
<1> DEFINE a == page_touch(s.pg, s.t, e, s.t.free)
           u == [a.t EXCEPT !["free"] = a.np]
<1>1. SameTxn(a.t, t)
  BY TouchKeepsTxn DEF IsWork
<1>2. SameTxn(u, t)
  <2> HIDE DEF a
  <2> QED  BY <1>1, KeepsTxn DEF TxnFields
<1>3. TouchFree(s, e) = [pg |-> a.pg, t |-> IF a.t.full THEN a.t ELSE u]
  <2> HIDE DEF a
  <2> QED  BY DEF TouchFree, a
<1> QED
  <2> HIDE DEF a, u
  <2> QED  BY <1>1, <1>2, <1>3, WorkForm

(* So does every step of mdb_freelist_save.                                *)
LEMMA SavesKeepTxn ==
    ASSUME NEW t, NEW s, IsWork(s, t), NEW e
    PROVE  /\ IsWork(TouchFirst(s, e), t)
           /\ IsWork(LooseToFreed(s), t)
           /\ IsWork(TouchToDelete(s, e), t)
           /\ IsWork(DeleteUsed(s), t)
           /\ IsWork(TouchToSave(s, e), t)
           /\ IsWork(SaveFreed(s), t)
           /\ IsWork(SaveHead(s), t)
<1>1. IsWork(TouchFirst(s, e), t) /\ IsWork(TouchToDelete(s, e), t)
      /\ IsWork(TouchToSave(s, e), t)
  BY TouchFreeKeepsTxn DEF TouchFirst, TouchToDelete, TouchToSave
<1>2. IsWork(LooseToFreed(s), t)
  <2> DEFINE u == [s.t EXCEPT !["free_pgs"] = s.t.free_pgs \cup s.t.loose]
             v == [u EXCEPT !["loose"] = {}]
             m == [s EXCEPT !.t = u]
  <2>1. SameTxn(u, t)
    BY KeepsTxn DEF TxnFields, IsWork
  <2>2. SameTxn(v, t)
    <3> HIDE DEF u
    <3> QED  BY <2>1, KeepsTxn DEF TxnFields
  <2>3. m.t = u /\ IsWork(m, t)
    <3> HIDE DEF u
    <3> QED  BY <2>1, WorkForm DEF IsWork, HasFields
  <2>4. IsWork([m EXCEPT !.t = v], t)
    <3> HIDE DEF m, v
    <3> QED  BY <2>2, <2>3, WorkForm
  <2>5. LooseToFreed(s) = s
        \/ LooseToFreed(s) = [m EXCEPT !.t = [m.t EXCEPT !["loose"] = {}]]
    BY DEF LooseToFreed
  <2> QED  BY <2>3, <2>4, <2>5
<1>3. IsWork(DeleteUsed(s), t)
  <2> DEFINE u == [s.t EXCEPT !["free"] = P_INVALID]
             v == [u EXCEPT !["free_pgs"] = s.t.free_pgs \cup {s.t.free}]
             recs == Recs(s.pg, s.t.free)
             left == DOMAIN recs \ Used(s)
             q == [s.pg EXCEPT ![s.t.free].recs = [i \in left |-> recs[i]]]
  <2>1. SameTxn(u, t)
    BY KeepsTxn DEF TxnFields, IsWork
  <2>2. SameTxn(v, t)
    <3> HIDE DEF u
    <3> QED  BY <2>1, KeepsTxn DEF TxnFields
  <2>3. \/ DeleteUsed(s) = s
        \/ DeleteUsed(s).t = v /\ HasFields(DeleteUsed(s), {"pg", "t"})
        \/ DeleteUsed(s) = [s EXCEPT !.pg = q]
    BY DEF DeleteUsed, IsWork, HasFields, SameTxn, IsTxn, TxnFields
  <2> HIDE DEF v, q
  <2>4. CASE DeleteUsed(s).t = v /\ HasFields(DeleteUsed(s), {"pg", "t"})
    BY <2>2, <2>4 DEF IsWork
  <2>5. CASE DeleteUsed(s) = [s EXCEPT !.pg = q]
    BY <2>5, WorkForm
  <2> QED  BY <2>3, <2>4, <2>5
<1>4. ASSUME NEW id, NEW pgs
      PROVE  IsWork(PutRecord(s, id, pgs), t)
  <2> DEFINE recs == s.pg[s.t.free].recs
             new == [i \in DOMAIN recs \cup {id} |->
                        IF i = id THEN pgs ELSE recs[i]]
             q == [s.pg EXCEPT ![s.t.free].recs = new]
  <2>1. PutRecord(s, id, pgs) = [s EXCEPT !.pg = q]
    BY DEF PutRecord
  <2> HIDE DEF q
  <2> QED  BY <2>1, WorkForm
<1>5. IsWork(SaveFreed(s), t) /\ IsWork(SaveHead(s), t)
  BY <1>4 DEF SaveFreed, SaveHead
<1> QED  BY <1>1, <1>2, <1>3, <1>5

-----------------------------------------------------------------------------
(***************************************************************************)
(* The invariant.                                                          *)
(***************************************************************************)
(* The newest meta page names the greatest committed txnid.                *)
LEMMA NewestIsMax ==
    ASSUME Shape, Newest
    PROVE  Max(Committed) = pick_meta.txnid /\ pick_meta.txnid \in Nat
<1> DEFINE n == pick_meta.txnid
<1>1. n \in Committed /\ Committed \subseteq Nat /\ \A t \in Committed : t <= n
  BY DEF Shape, Newest
<1> HIDE DEF n
<1>2. \A x \in Committed : (\A y \in Committed : x >= y) => x = n
  BY <1>1
<1>3. n \in Committed /\ \A y \in Committed : n >= y
  BY <1>1
<1>4. Max(Committed) = n
  BY <1>2, <1>3 DEF Max
<1> QED  BY <1>1, <1>4 DEF n

(* A new store satisfies the invariant.                                    *)
LEMMA InitIInv == Init => IInv
<1> SUFFICES ASSUME Init PROVE IInv
  OBVIOUS
<1> USE DEF Init
<1>1. Committed = {0}
  BY DEF Committed
<1>2. pick_meta = init_meta /\ init_meta.txnid = 0
  BY DEF pick_meta, init_meta
<1>3. Shape
  <2>1. \A p \in Procs : IsTxn(txn[p])
    BY NoTxnForm
  <2>2. \A p \in Procs : HasFields(env[p], EnvFields)
    BY DEF HasFields, EnvFields, Closed
  <2>3. HasFields(info, InfoFields) /\ info.txnid \in Nat
    BY DEF HasFields, InfoFields
  <2>4. \A i \in 0..1 : HasFields(meta[i], MetaFields) /\ meta[i].txnid \in Nat
    BY DEF HasFields, MetaFields, init_meta
  <2> QED  BY <1>1, <2>1, <2>2, <2>3, <2>4 DEF Shape
<1>4. Opened /\ Owner
  BY NoTxnForm, LmdbTxnAssumption DEF Opened, Owner, Holding
<1>5. Newest
  BY <1>1, <1>2 DEF Newest
<1>6. LockFile
  BY <1>2, NoTxnForm DEF LockFile, BeforeCommit
<1> QED  BY <1>3, <1>4, <1>5, <1>6 DEF IInv

(* The transaction of one process changes.                                 *)
LEMMA TxnSet ==
    ASSUME Shape, NEW p \in Procs, NEW u, IsTxn(u),
           txn' = [txn EXCEPT ![p] = u]
    PROVE  /\ txn' = [q \in Procs |-> txn'[q]]
           /\ \A q \in Procs : /\ txn'[q] = IF q = p THEN u ELSE txn[q]
                               /\ IsTxn(txn'[q])
BY DEF Shape

(* Meta pages that keep their txnids: the newest keeps its own.            *)
SameTxnids ==
    /\ meta' = [i \in 0..1 |-> meta'[i]]
    /\ \A i \in 0..1 : HasFields(meta'[i], MetaFields)
                       /\ meta'[i].txnid = meta[i].txnid

(* Meta pages with the same transaction IDs have the same newest           *)
(* transaction ID.                                                         *)
LEMMA SameNewest ==
    ASSUME Shape, SameTxnids
    PROVE  pick_meta'.txnid = pick_meta.txnid /\ pick_meta.txnid \in Nat
BY DEF Shape, SameTxnids, pick_meta

(* Meta pages that stay as they are keep their transaction IDs.            *)
LEMMA MetaStays ==
    ASSUME Shape, meta' = meta
    PROVE  SameTxnids
BY DEF Shape, SameTxnids

(* A step of process p inside or outside of its write transaction that     *)
(* neither takes nor releases the mutex and commits nothing.               *)
Quiet(p, u) ==
    /\ IsTxn(u)
    /\ txn' = [txn EXCEPT ![p] = u]
    /\ HasFields(info', InfoFields)
    /\ info'.txnid = info.txnid /\ info'.wmutex = info.wmutex
    /\ SameTxnids
    /\ hist' = hist
    /\ env' = [q \in Procs |-> env'[q]]
    /\ \A q \in Procs : HasFields(env'[q], EnvFields)
                        /\ env'[q].open = env[q].open
    /\ u.pc # "idle" => env[p].open
    /\ u.pc \in Holding <=> txn[p].pc \in Holding
    /\ u.pc \in BeforeCommit => /\ txn[p].pc \in BeforeCommit
                                /\ u.txnid = txn[p].txnid
    /\ u.pc # "publish"
    /\ u.pc = "end" => txn[p].pc \in BeforeCommit \cup {"end"}

(* Such a step keeps the invariant.                                        *)
LEMMA QuietIInv ==
    ASSUME IInv, NEW p \in Procs, NEW u, Quiet(p, u)
    PROVE  IInv'
<1> USE DEF IInv
<1>1. /\ txn' = [q \in Procs |-> txn'[q]]
      /\ \A q \in Procs : /\ txn'[q] = IF q = p THEN u ELSE txn[q]
                          /\ IsTxn(txn'[q])
  BY TxnSet DEF Quiet
<1>2. pick_meta'.txnid = pick_meta.txnid /\ Committed' = Committed
  BY SameNewest DEF Quiet, Committed
<1>3. Shape'
  BY <1>1, <1>2 DEF Shape, Quiet, SameTxnids
<1>4. Opened' /\ Owner'
  BY <1>1 DEF Opened, Owner, Quiet
<1>5. Newest'
  BY <1>2 DEF Newest
<1>6. LockFile'
  <2>1. (info'.wmutex = Free /\ \E q \in Procs : env'[q].open) =>
           info'.txnid = pick_meta'.txnid
    BY <1>2 DEF LockFile, Quiet
  <2>2. ASSUME NEW q \in Procs
        PROVE  /\ txn'[q].pc \in BeforeCommit =>
                     /\ txn'[q].txnid = pick_meta'.txnid + 1
                     /\ info'.txnid = pick_meta'.txnid
               /\ txn'[q].pc = "publish" => txn'[q].txnid = pick_meta'.txnid
               /\ txn'[q].pc = "end" => info'.txnid = pick_meta'.txnid
    <3>1. CASE q = p
      BY <1>1, <1>2, <3>1 DEF LockFile, Quiet
    <3>2. CASE q # p
      BY <1>1, <1>2, <3>2 DEF LockFile, Quiet
    <3> QED  BY <3>1, <3>2
  <2> QED  BY <2>1, <2>2 DEF LockFile
<1> QED  BY <1>3, <1>4, <1>5, <1>6

(* A process that closes the store or is gone, and with it its             *)
(* transaction: the mutex it owned is marked.                              *)
Leaves(p, u) ==
    /\ IsTxn(u) /\ u.pc = "idle"
    /\ txn' = [txn EXCEPT ![p] = u]
    /\ env' = [env EXCEPT ![p] = Closed]
    /\ HasFields(info', InfoFields)
    /\ info'.txnid = info.txnid
    /\ info'.wmutex = IF info.wmutex = p THEN Dead ELSE info.wmutex
    /\ meta' = meta /\ hist' = hist

(* Such a step keeps the invariant.                                        *)
LEMMA LeavesIInv ==
    ASSUME IInv, NEW p \in Procs, NEW u, Leaves(p, u)
    PROVE  IInv'
<1> USE DEF IInv
<1>1. /\ txn' = [q \in Procs |-> txn'[q]]
      /\ \A q \in Procs : /\ txn'[q] = IF q = p THEN u ELSE txn[q]
                          /\ IsTxn(txn'[q])
  BY TxnSet DEF Leaves
<1>2. pick_meta' = pick_meta /\ Committed' = Committed
  BY DEF Leaves, Committed, pick_meta
<1>3. \A q \in Procs : /\ HasFields(env'[q], EnvFields)
                       /\ q # p => env'[q] = env[q]
                       /\ env'[q].open => env[q].open
  BY DEF Leaves, Shape, HasFields, EnvFields, Closed
<1>4. Shape'
  BY <1>1, <1>2, <1>3 DEF Shape, Leaves
<1>5. Opened'
  BY <1>1, <1>3 DEF Opened, Leaves
<1>6. Owner'
  BY <1>1, LmdbTxnAssumption DEF Owner, Leaves, Holding
<1>7. Newest'
  BY <1>2 DEF Newest
<1>8. LockFile'
  <2>1. (info'.wmutex = Free /\ \E q \in Procs : env'[q].open) =>
           info'.txnid = pick_meta'.txnid
    BY <1>2, <1>3, LmdbTxnAssumption DEF LockFile, Leaves
  <2> QED  BY <1>1, <1>2, <2>1 DEF LockFile, Leaves, BeforeCommit
<1> QED  BY <1>4, <1>5, <1>6, <1>7, <1>8

-----------------------------------------------------------------------------
(***************************************************************************)
(* The steps that are quiet, or that a process leaves by.                  *)
(***************************************************************************)
(* A process that is gone with its transaction.                            *)
LEMMA GoneIInv ==
    ASSUME IInv, NEW p \in Procs,
           Gone(p, IF info.wmutex = p THEN Dead ELSE info.wmutex),
           meta' = meta, hist' = hist
    PROVE  IInv'
<1>1. Leaves(p, NoTxn)
  BY NoTxnForm DEF Leaves, Gone, IInv, Shape, HasFields, InfoFields
<1> QED  BY <1>1, LeavesIInv

(* A change of the map by a write transaction.                             *)
LEMMA ChangedIInv ==
    ASSUME IInv, NEW p \in Procs, txn[p].pc \in {"write", "save"},
           NEW pg, NEW t, IsTxn(t), t.txnid = txn[p].txnid,
           t.pc \in {"write", "save", "dbs"},
           Changed(p, pg, t), meta' = meta, hist' = hist
    PROVE  IInv'
<1> USE DEF IInv
<1>1. CASE t.full
  <2>1. info.wmutex = p
    BY DEF Owner, Holding
  <2> QED  BY <1>1, <2>1, GoneIInv DEF Changed
<1>2. CASE ~t.full
  <2>1. env' = env /\ info' = info /\ txn' = [txn EXCEPT ![p] = t]
    BY <1>2 DEF Changed
  <2>2. env[p].open
    BY DEF Opened
  <2>3. Quiet(p, t)
    BY <2>1, <2>2, MetaStays DEF Quiet, Shape, Holding, BeforeCommit
  <2> QED  BY <2>3, QuietIInv
<1> QED  BY <1>1, <1>2

(* Putting and deleting a key.                                             *)
LEMMA PutIInv ==
    ASSUME IInv, NEW p \in Procs, NEW k \in Key, put(p, k)
    PROVE  IInv'
<1>1. IsTxn(txn[p]) /\ SameTxn(txn[p], txn[p])
  BY DEF IInv, Shape, SameTxn
<1> DEFINE r == RootTouched(p)
           c == IF r.t.full THEN r ELSE LeafTouched(r, env[p], k)
           u == [c.t EXCEPT !["puts"] = c.t.puts + 1]
           v == [u EXCEPT !["found_old"] = FALSE]
<1>2. SameTxn(r.t, txn[p])
  BY <1>1, TouchKeepsTxn DEF RootTouched
<1>3. SameTxn(c.t, txn[p])
  <2> HIDE DEF r
  <2> QED  BY <1>2, LeafTouchedKeepsTxn
<1>4. SameTxn(u, txn[p])
  <2> HIDE DEF c
  <2> QED  BY <1>3, KeepsTxn DEF TxnFields
<1>5. SameTxn(v, txn[p])
  <2> HIDE DEF u
  <2> QED  BY <1>4, KeepsTxn DEF TxnFields
<1>6. PICK pg : Changed(p, pg, [c.t EXCEPT !.puts = @ + 1,
                                           !.found_old = FALSE])
  <2> HIDE DEF r
  <2> QED  BY Zenon DEF put, r
<1>7. Changed(p, pg, v)
  <2> HIDE DEF c
  <2> QED  BY <1>6
<1>8. txn[p].pc = "write" /\ meta' = meta /\ hist' = hist
  BY DEF put
<1> HIDE DEF v
<1> QED  BY <1>5, <1>7, <1>8, ChangedIInv DEF SameTxn

(* Deleting a key keeps the invariant.                                     *)
LEMMA DelIInv ==
    ASSUME IInv, NEW p \in Procs, NEW k \in Key, del(p, k)
    PROVE  IInv'
<1>1. IsTxn(txn[p]) /\ SameTxn(txn[p], txn[p])
  BY DEF IInv, Shape, SameTxn
<1> DEFINE r == RootTouched(p)
           c == IF r.t.full THEN r ELSE LeafTouched(r, env[p], k)
           n == IF c.t.full THEN c ELSE Unlinked(c, k)
           u == [n.t EXCEPT !["puts"] = n.t.puts + 1]
           v == [u EXCEPT !["found_old"] = FALSE]
<1>2. SameTxn(r.t, txn[p])
  BY <1>1, TouchKeepsTxn DEF RootTouched
<1>3. SameTxn(c.t, txn[p])
  <2> HIDE DEF r
  <2> QED  BY <1>2, LeafTouchedKeepsTxn
<1>4. SameTxn(n.t, txn[p])
  <2> HIDE DEF c
  <2> QED  BY <1>3, UnlinkedKeepsTxn
<1>5. SameTxn(u, txn[p])
  <2> HIDE DEF n
  <2> QED  BY <1>4, KeepsTxn DEF TxnFields
<1>6. SameTxn(v, txn[p])
  <2> HIDE DEF u
  <2> QED  BY <1>5, KeepsTxn DEF TxnFields
<1>7. PICK pg : Changed(p, pg, [n.t EXCEPT !.puts = @ + 1,
                                           !.found_old = FALSE])
  <2> HIDE DEF r
  <2> QED  BY Zenon DEF del, r
<1>8. Changed(p, pg, v)
  <2> HIDE DEF n
  <2> QED  BY <1>7
<1>9. txn[p].pc = "write" /\ meta' = meta /\ hist' = hist
  BY DEF del
<1> HIDE DEF v
<1> QED  BY <1>6, <1>8, <1>9, ChangedIInv DEF SameTxn

(* Saving the free list.                                                   *)
LEMMA FreelistSaveIInv ==
    ASSUME IInv, NEW p \in Procs, freelist_save(p)
    PROVE  IInv'
<1>1. IsTxn(txn[p]) /\ IsWork([pg |-> page, t |-> txn[p]], txn[p])
  BY DEF IInv, Shape, SameTxn, IsWork, HasFields
<1>2. PICK saved : /\ IsWork(saved, txn[p])
                   /\ Changed(p, saved.pg, [saved.t EXCEPT !.pc = "dbs"])
  <2> DEFINE first == TouchFirst([pg |-> page, t |-> txn[p]], env[p])
             second == TouchToDelete(LooseToFreed(first), env[p])
             third == TouchToSave(DeleteUsed(second), env[p])
             saved == SaveHead(DeleteUsed(SaveFreed(third)))
  <2>1. IsWork(first, txn[p])
    BY <1>1, SavesKeepTxn
  <2>2. IsWork(second, txn[p])
    <3> HIDE DEF first
    <3> QED  BY <2>1, SavesKeepTxn
  <2>3. IsWork(third, txn[p])
    <3> HIDE DEF second
    <3> QED  BY <2>2, SavesKeepTxn
  <2>4. IsWork(saved, txn[p])
    <3> HIDE DEF third
    <3>1. IsWork(DeleteUsed(SaveFreed(third)), txn[p])
      BY <2>3, SavesKeepTxn
    <3> QED  BY <3>1, SavesKeepTxn
  <2>5. Changed(p, saved.pg, [saved.t EXCEPT !.pc = "dbs"])
    BY Zenon DEF freelist_save
  <2> HIDE DEF saved
  <2> QED  BY <2>4, <2>5
<1> DEFINE u == [saved.t EXCEPT !["pc"] = "dbs"]
<1>3. IsTxn(u) /\ u.pc = "dbs" /\ u.txnid = txn[p].txnid
  BY <1>2, TxnForm DEF TxnFields, IsWork, SameTxn
<1>4. Changed(p, saved.pg, u)
  BY <1>2
<1>5. txn[p].pc = "save" /\ meta' = meta /\ hist' = hist
  BY DEF freelist_save
<1> HIDE DEF u
<1> QED  BY <1>3, <1>4, <1>5, ChangedIInv

(* The scan of the reader table, the growing of the map, the decision to   *)
(* commit and the two steps that fill a meta page.                         *)
LEMMA WritingQuietIInv ==
    ASSUME IInv, NEW p \in Procs,
           \/ find_oldest(p) \/ maybe_grow(p) \/ txn_commit(p)
           \/ write_meta_dbs(p) \/ write_meta_last(p)
    PROVE  IInv'
<1> USE DEF IInv
<1>1. IsTxn(txn[p]) /\ (txn[p].pc # "idle" => env[p].open)
  BY DEF Shape, Opened
<1>2. PICK t : t = txn[p]
  OBVIOUS
<1>3. CASE find_oldest(p)
  <2> DEFINE u == [t EXCEPT !["found_old"] = TRUE]
  <2>1. IsTxn(u) /\ u.pc = t.pc /\ u.txnid = t.txnid
    BY <1>1, <1>2, TxnForm DEF TxnFields
  <2>2. txn' = [txn EXCEPT ![p] = u] /\ t.pc \in {"write", "save"}
    BY <1>2, <1>3 DEF find_oldest, Shape
  <2>3. env' = [q \in Procs |-> env'[q]]
        /\ \A q \in Procs : HasFields(env'[q], EnvFields)
                            /\ env'[q].open = env[q].open
    BY <1>3 DEF find_oldest, Shape, HasFields, EnvFields
  <2>4. meta' = meta /\ hist' = hist /\ info' = info
    BY <1>3 DEF find_oldest
  <2> HIDE DEF u
  <2>5. Quiet(p, u)
    BY <1>1, <1>2, <2>1, <2>2, <2>3, <2>4, MetaStays
       DEF Quiet, Shape, Holding, BeforeCommit
  <2> QED  BY <2>5, QuietIInv
<1>4. CASE maybe_grow(p)
  <2> DEFINE u == [t EXCEPT !["pc"] = "grown"]
  <2>1. IsTxn(u) /\ u.pc = "grown" /\ u.txnid = t.txnid
    BY <1>1, <1>2, TxnForm DEF TxnFields
  <2>2. txn' = [txn EXCEPT ![p] = u] /\ t.pc = "idle" /\ env[p].open
    BY <1>2, <1>4 DEF maybe_grow, Shape
  <2>3. env' = [q \in Procs |-> env'[q]]
        /\ \A q \in Procs : HasFields(env'[q], EnvFields)
                            /\ env'[q].open = env[q].open
    <3>1. PICK size :
             env' = env \/ env' = [env EXCEPT ![p].maxpg = size]
      BY <1>4, Zenon DEF maybe_grow
    <3> QED  BY <3>1 DEF Shape, HasFields, EnvFields
  <2>4. meta' = meta /\ hist' = hist /\ info' = info
    BY <1>4 DEF maybe_grow
  <2> HIDE DEF u
  <2>5. Quiet(p, u)
    BY <1>1, <1>2, <2>1, <2>2, <2>3, <2>4, MetaStays
       DEF Quiet, Shape, Holding, BeforeCommit
  <2> QED  BY <2>5, QuietIInv
<1>5. CASE txn_commit(p)
  <2> DEFINE to == IF t.dirty = {} THEN "end" ELSE "save"
             u == [t EXCEPT !["pc"] = to]
  <2>1. IsTxn(u) /\ u.pc = to /\ u.txnid = t.txnid
    <3> HIDE DEF to
    <3> QED  BY <1>1, <1>2, TxnForm DEF TxnFields
  <2>2. txn' = [txn EXCEPT ![p] = u] /\ t.pc = "write"
    BY <1>2, <1>5 DEF txn_commit, Shape
  <2>3. meta' = meta /\ hist' = hist /\ info' = info /\ env' = env
    BY <1>5 DEF txn_commit
  <2> HIDE DEF u
  <2>4. Quiet(p, u)
    BY <1>1, <1>2, <2>1, <2>2, <2>3, MetaStays
       DEF Quiet, Shape, Holding, BeforeCommit
  <2> QED  BY <2>4, QuietIInv
<1>6. CASE write_meta_dbs(p)
  <2> DEFINE u == [t EXCEPT !["pc"] = "last"]
  <2>1. IsTxn(u) /\ u.pc = "last" /\ u.txnid = t.txnid
    BY <1>1, <1>2, TxnForm DEF TxnFields
  <2>2. txn' = [txn EXCEPT ![p] = u] /\ t.pc = "dbs"
    BY <1>2, <1>6 DEF write_meta_dbs, Shape
  <2>3. SameTxnids
    <3> DEFINE m == [meta[Toggle(p)] EXCEPT
                        !.mapsize = Max({meta[1 - Toggle(p)].mapsize,
                                         env[p].maxpg}),
                        !.free = txn[p].free, !.main = txn[p].main,
                        !.owner = txn[p].txnid]
    <3>1. meta' = [meta EXCEPT ![Toggle(p)] = m]
      BY <1>6 DEF write_meta_dbs
    <3>2. HasFields(meta[Toggle(p)], MetaFields) =>
             HasFields(m, MetaFields) /\ m.txnid = meta[Toggle(p)].txnid
      BY DEF HasFields, MetaFields
    <3> HIDE DEF m
    <3> QED  BY <3>1, <3>2 DEF Shape, SameTxnids
  <2>4. hist' = hist /\ info' = info /\ env' = env
    BY <1>6 DEF write_meta_dbs
  <2> HIDE DEF u
  <2>5. Quiet(p, u)
    BY <1>1, <1>2, <2>1, <2>2, <2>3, <2>4
       DEF Quiet, Shape, Holding, BeforeCommit
  <2> QED  BY <2>5, QuietIInv
<1>7. CASE write_meta_last(p)
  <2> DEFINE u == [t EXCEPT !["pc"] = "txnid"]
  <2>1. IsTxn(u) /\ u.pc = "txnid" /\ u.txnid = t.txnid
    BY <1>1, <1>2, TxnForm DEF TxnFields
  <2>2. txn' = [txn EXCEPT ![p] = u] /\ t.pc = "last"
    BY <1>2, <1>7 DEF write_meta_last, Shape
  <2>3. SameTxnids
    <3> DEFINE m == [meta[Toggle(p)] EXCEPT
                        !.last_pg = txn[p].next_pgno - 1,
                        !.last_owner = txn[p].txnid]
    <3>1. meta' = [meta EXCEPT ![Toggle(p)] = m]
      BY <1>7 DEF write_meta_last, Shape
    <3>2. HasFields(meta[Toggle(p)], MetaFields) =>
             HasFields(m, MetaFields) /\ m.txnid = meta[Toggle(p)].txnid
      BY DEF HasFields, MetaFields
    <3> HIDE DEF m
    <3> QED  BY <3>1, <3>2 DEF Shape, SameTxnids
  <2>4. hist' = hist /\ info' = info /\ env' = env
    BY <1>7 DEF write_meta_last
  <2> HIDE DEF u
  <2>5. Quiet(p, u)
    BY <1>1, <1>2, <2>1, <2>2, <2>3, <2>4
       DEF Quiet, Shape, Holding, BeforeCommit
  <2> QED  BY <2>5, QuietIInv
<1> QED  BY <1>3, <1>4, <1>5, <1>6, <1>7

(* The steps of a read transaction.                                        *)
LEMMA ReadingIInv ==
    ASSUME IInv, NEW p \in Procs, Reading(p)
    PROVE  IInv'
<1> USE DEF IInv
<1>1. IsTxn(txn[p]) /\ (txn[p].pc # "idle" => env[p].open)
      /\ (info.wmutex = p => txn[p].pc \in Holding)
  BY DEF Shape, Opened, Owner
<1>2. PICK t : t = txn[p]
  OBVIOUS
<1>3. PICK n : n = info.txnid
  OBVIOUS
<1>4. n \in Nat
  BY <1>3 DEF Shape
<1>5. ASSUME meta' = meta, hist' = hist, env' = env,
             HasFields(info', InfoFields),
             info'.txnid = info.txnid, info'.wmutex = info.wmutex,
             t.pc \notin Holding, t.pc # "idle" \/ env[p].open,
             NEW u, IsTxn(u), txn' = [txn EXCEPT ![p] = u],
             u.pc \notin Holding
      PROVE  IInv'
  <2>1. Quiet(p, u)
    BY <1>1, <1>2, <1>5, MetaStays DEF Quiet, Shape, Holding, BeforeCommit
  <2> QED  BY <2>1, QuietIInv
<1>6. CASE read_txnid(p)
  <2> DEFINE v == [t EXCEPT !["pc"] = "store"]
             u == [v EXCEPT !["txnid"] = n]
  <2>1. IsTxn(v) /\ v.pc = "store"
    BY <1>1, <1>2, TxnForm DEF TxnFields
  <2>2. IsTxn(u) /\ u.pc = "store"
    <3> HIDE DEF v
    <3> QED  BY <1>4, <2>1, TxnForm DEF TxnFields
  <2>3. txn' = [txn EXCEPT ![p] = u]
    BY <1>2, <1>3, <1>6 DEF read_txnid, Shape
  <2> HIDE DEF u
  <2> QED  BY <1>2, <1>5, <1>6, <2>2, <2>3 DEF read_txnid, Holding, Shape
<1>7. CASE store_slot(p)
  <2> DEFINE u == [t EXCEPT !["pc"] = "check"]
  <2>1. IsTxn(u) /\ u.pc = "check"
    BY <1>1, <1>2, TxnForm DEF TxnFields
  <2>2. txn' = [txn EXCEPT ![p] = u]
    BY <1>2, <1>7 DEF store_slot, Shape
  <2>3. HasFields(info', InfoFields) /\ info'.txnid = info.txnid
        /\ info'.wmutex = info.wmutex
    BY <1>7 DEF store_slot, Shape, HasFields, InfoFields
  <2> HIDE DEF u
  <2> QED  BY <1>2, <1>5, <1>7, <2>1, <2>2, <2>3 DEF store_slot, Holding
<1>8. CASE check_slot(p)
  <2> DEFINE to == IF info.slot[p] = info.txnid THEN "copy" ELSE "load"
  <2>1. PICK w : w = to
    OBVIOUS
  <2> DEFINE u == [t EXCEPT !["pc"] = w]
  <2>2. IsTxn(u) /\ u.pc = w
    BY <1>1, <1>2, TxnForm DEF TxnFields
  <2>3. txn' = [txn EXCEPT ![p] = u]
    BY <1>2, <1>8, <2>1 DEF check_slot, Shape
  <2>4. w \notin Holding
    BY <2>1 DEF Holding
  <2> HIDE DEF u, to
  <2> QED  BY <1>2, <1>5, <1>8, <2>2, <2>3, <2>4 DEF check_slot, Holding, Shape
<1>9. CASE copy_dbs(p)
  <2> DEFINE m == meta[txn[p].txnid % 2]
             u == [t EXCEPT !.pc = "copy_last", !.main = m.main,
                            !.from = m.owner,
                            !.sound = m.owner \in Committed,
                            !.view = Data(page, m.main)]
  <2>1. PICK a, b, c, d : a = m.main /\ b = m.owner
                          /\ c = (m.owner \in Committed)
                          /\ d = Data(page, m.main)
    OBVIOUS
  <2>2. u = [t EXCEPT !.pc = "copy_last", !.main = a, !.from = b,
                      !.sound = c, !.view = d]
    BY <2>1, Zenon
  <2>3. IsTxn(u) /\ u.pc = "copy_last"
    <3> HIDE DEF u, m
    <3> QED  BY <1>1, <1>2, <2>2 DEF IsTxn, HasFields, TxnFields
  <2>4. txn' = [txn EXCEPT ![p] = u] /\ t.pc = "copy"
    BY <1>2, <1>9, Zenon DEF copy_dbs
  <2>5. meta' = meta /\ hist' = hist /\ env' = env /\ info' = info
    BY <1>9 DEF copy_dbs
  <2> HIDE DEF u
  <2> QED  BY <1>5, <2>3, <2>4, <2>5 DEF Holding, Shape
<1>10. CASE copy_last(p)
  <2> DEFINE m == meta[txn[p].txnid % 2]
             next == m.last_pg + 1
  <2>1. t.pc = "copy_last" /\ meta' = meta /\ hist' = hist
    BY <1>2, <1>10 DEF copy_last
  <2>2. CASE env[p].maxpg < next
    <3>1. /\ info' = [info EXCEPT !.slot[p] = Idle]
          /\ txn' = [txn EXCEPT ![p] = NoTxn]
          /\ env' = [env EXCEPT ![p] = Closed]
      BY <1>10, <2>2 DEF copy_last
    <3>2. info.wmutex # p
      BY <1>1, <1>2, <2>1 DEF Holding
    <3>3. Leaves(p, NoTxn)
      BY <2>1, <3>1, <3>2, NoTxnForm
         DEF Leaves, Shape, HasFields, InfoFields
    <3> QED  BY <3>3, LeavesIInv
  <2>3. CASE ~(env[p].maxpg < next)
    <3> DEFINE u == [t EXCEPT !.pc = "read", !.next_pgno = next,
                        !.sound = t.sound /\ t.from <= m.last_owner]
    <3>1. PICK a, b : a = next /\ b = (t.sound /\ t.from <= m.last_owner)
      OBVIOUS
    <3>2. u = [t EXCEPT !.pc = "read", !.next_pgno = a, !.sound = b]
      BY <3>1, Zenon
    <3>3. IsTxn(u) /\ u.pc = "read"
      <4> HIDE DEF u, next, m
      <4> QED  BY <1>1, <1>2, <3>2 DEF IsTxn, HasFields, TxnFields
    <3>4. txn' = [txn EXCEPT ![p] = u] /\ info' = info /\ env' = env
      <4>1. /\ txn' = [txn EXCEPT ![p].pc = "read", ![p].next_pgno = next,
                         ![p].sound = @ /\ txn[p].from <= m.last_owner]
            /\ UNCHANGED <<info, env>>
        BY <1>10, <2>3, Zenon DEF copy_last
      <4> QED  BY <1>2, <4>1 DEF Shape, IsTxn, HasFields, TxnFields
    <3> HIDE DEF u
    <3> QED  BY <1>5, <2>1, <3>3, <3>4 DEF Holding, Shape
  <2> QED  BY <2>2, <2>3
<1>11. CASE read_end(p)
  <2>1. HasFields(info', InfoFields) /\ info'.txnid = info.txnid
        /\ info'.wmutex = info.wmutex
    BY <1>11 DEF read_end, Shape, HasFields, InfoFields
  <2> QED  BY <1>2, <1>5, <1>11, <2>1, NoTxnForm DEF read_end, Holding
<1> QED  BY <1>6, <1>7, <1>8, <1>9, <1>10, <1>11 DEF Reading

-----------------------------------------------------------------------------
(***************************************************************************)
(* The steps that open the store, or take, hand on or release the mutex.   *)
(***************************************************************************)
(* The first process to open the store sets the lock file up by the newest *)
(* meta page; nobody was in a transaction.                                 *)
LEMMA OpenIInv ==
    ASSUME IInv, NEW p \in Procs, env_open(p)
    PROVE  IInv'
<1> USE DEF IInv
<1>1. txn' = txn /\ hist' = hist /\ meta' = meta
  BY DEF env_open
<1>2. pick_meta' = pick_meta /\ Committed' = Committed
      /\ pick_meta.txnid \in Nat
  BY <1>1, SameNewest, MetaStays DEF pick_meta, Committed
<1>3. /\ env' = [q \in Procs |-> env'[q]]
      /\ \A q \in Procs : /\ HasFields(env'[q], EnvFields)
                          /\ env[q].open => env'[q].open
  <2>1. PICK size : env' = [env EXCEPT ![p] = [open |-> TRUE, maxpg |-> size,
                                               pgoldest |-> 0]]
    BY DEF env_open
  <2> QED  BY <2>1 DEF Shape, HasFields, EnvFields
<1>4. CASE \E q \in Procs : env[q].open
  <2>1. info' = info
    BY <1>4 DEF env_open
  <2>2. Shape' /\ Opened' /\ Owner' /\ Newest'
    BY <1>1, <1>2, <1>3, <2>1 DEF Shape, Opened, Owner, Newest
  <2>3. LockFile'
    BY <1>1, <1>2, <1>4, <2>1 DEF LockFile
  <2> QED  BY <2>2, <2>3
<1>5. CASE ~\E q \in Procs : env[q].open
  <2>1. info' = [info EXCEPT !.txnid = pick_meta.txnid,
                             !.wmutex = Free, !.stale = {}]
    BY <1>5 DEF env_open
  <2>2. HasFields(info', InfoFields) /\ info'.wmutex = Free
        /\ info'.txnid = pick_meta.txnid
    <3>1. PICK n : n = pick_meta.txnid
      OBVIOUS
    <3> QED  BY <2>1, <3>1 DEF Shape, HasFields, InfoFields
  <2>3. \A q \in Procs : txn[q].pc = "idle"
    BY <1>5 DEF Opened
  <2>4. Shape' /\ Newest'
    BY <1>1, <1>2, <1>3, <2>2 DEF Shape, Newest
  <2>5. Opened' /\ Owner'
    BY <1>1, <2>2, <2>3, LmdbTxnAssumption DEF Opened, Owner, Holding
  <2>6. LockFile'
    BY <1>1, <1>2, <2>2, <2>3 DEF LockFile, BeforeCommit
  <2> QED  BY <2>4, <2>5, <2>6
<1> QED  BY <1>4, <1>5

(* A process that closes the store, or dies with it open.                  *)
LEMMA CloseIInv ==
    ASSUME IInv, NEW p \in Procs, env_close(p)
    PROVE  IInv'
<1>1. info.wmutex # p
  BY DEF env_close, IInv, Owner, Holding
<1>2. Leaves(p, txn[p])
  BY <1>1 DEF env_close, Leaves, IInv, Shape
<1> QED  BY <1>2, LeavesIInv

(* The death of a process keeps the invariant.                             *)
LEMMA CrashIInv ==
    ASSUME IInv, NEW p \in Procs, Crash(p)
    PROVE  IInv'
BY GoneIInv DEF Crash

(* Beginning a write transaction with the lock file j: that of the         *)
(* process before, or the one repaired after its death.                    *)
LEMMA RenewIInv ==
    ASSUME IInv, NEW p \in Procs, NEW j, HasFields(j, InfoFields),
           j.wmutex = Free, j.txnid = pick_meta.txnid,
           info.wmutex \in {Free, Dead}, env[p].open, txn[p].pc = "grown",
           renew0(p, j), meta' = meta, hist' = hist
    PROVE  IInv'
<1> USE DEF IInv
<1>1. pick_meta' = pick_meta /\ Committed' = Committed
      /\ pick_meta.txnid \in Nat
  BY SameNewest, MetaStays DEF pick_meta, Committed
<1>2. \A q \in Procs : txn[q].pc \notin Holding
  BY LmdbTxnAssumption DEF Owner
<1> DEFINE m == meta[j.txnid % 2]
<1>3. CASE env[p].maxpg < m.last_pg + 1
  <2>1. /\ env' = [env EXCEPT ![p] = Closed]
        /\ txn' = [txn EXCEPT ![p] = NoTxn]
        /\ info' = j
    BY <1>3 DEF renew0
  <2>2. /\ txn' = [q \in Procs |-> txn'[q]]
        /\ \A q \in Procs : /\ txn'[q] = IF q = p THEN NoTxn ELSE txn[q]
                            /\ IsTxn(txn'[q])
    BY <2>1, TxnSet, NoTxnForm
  <2>3. \A q \in Procs : HasFields(env'[q], EnvFields)
                         /\ (q # p => env'[q] = env[q])
    BY <2>1 DEF Shape, HasFields, EnvFields, Closed
  <2>4. Shape' /\ Newest'
    BY <1>1, <2>1, <2>2, <2>3 DEF Shape, Newest
  <2>5. Opened'
    BY <2>2, <2>3, NoTxnForm DEF Opened
  <2>6. Owner'
    BY <1>2, <2>1, <2>2, NoTxnForm, LmdbTxnAssumption DEF Owner, Holding
  <2>7. LockFile'
    BY <1>1, <1>2, <2>1, <2>2, NoTxnForm DEF LockFile, BeforeCommit, Holding
  <2> QED  BY <2>4, <2>5, <2>6, <2>7
<1>4. CASE ~(env[p].maxpg < m.last_pg + 1)
  <2> DEFINE u == [NoTxn EXCEPT !.pc = "write", !.txnid = j.txnid + 1,
                                !.main = m.main, !.free = m.free,
                                !.next_pgno = m.last_pg + 1]
  <2>1. /\ env' = env
        /\ txn' = [txn EXCEPT ![p] = u]
        /\ info' = [j EXCEPT !.wmutex = p]
    BY <1>4, Zenon DEF renew0
  <2>2. IsTxn(u) /\ u.pc = "write" /\ u.txnid = pick_meta.txnid + 1
    <3> DEFINE v == [NoTxn EXCEPT !["pc"] = "write"]
               w == [v EXCEPT !["txnid"] = j.txnid + 1]
               x == [w EXCEPT !["main"] = m.main]
               y == [x EXCEPT !["free"] = m.free]
               z == [y EXCEPT !["next_pgno"] = m.last_pg + 1]
    <3>1. IsTxn(v) /\ v.pc = "write"
      BY NoTxnForm, TxnForm DEF TxnFields
    <3>2. IsTxn(w) /\ w.pc = "write" /\ w.txnid = pick_meta.txnid + 1
      <4>1. PICK n : n = j.txnid + 1
        OBVIOUS
      <4>2. n \in Nat /\ n = pick_meta.txnid + 1
        BY <1>1, <4>1
      <4>3. w = [v EXCEPT !["txnid"] = n]
        BY <4>1
      <4> HIDE DEF v, w
      <4>4. IsTxn([v EXCEPT !["txnid"] = n])
            /\ [v EXCEPT !["txnid"] = n]["txnid"] = n
            /\ [v EXCEPT !["txnid"] = n]["pc"] = v["pc"]
        BY <3>1, <4>2, TxnForm DEF TxnFields
      <4> QED  BY <3>1, <4>2, <4>3, <4>4
    <3>3. SameTxn(x, w)
      <4> HIDE DEF w
      <4>1. SameTxn(w, w)
        BY <3>2 DEF SameTxn
      <4> QED  BY <4>1, KeepsTxn DEF TxnFields
    <3>4. SameTxn(y, w)
      <4> HIDE DEF w, x
      <4> QED  BY <3>3, KeepsTxn DEF TxnFields
    <3>5. SameTxn(z, w)
      <4> HIDE DEF w, y
      <4> QED  BY <3>4, KeepsTxn DEF TxnFields
    <3>6. u = z
      OBVIOUS
    <3> HIDE DEF u, w, z
    <3> QED  BY <3>2, <3>5, <3>6 DEF SameTxn
  <2> HIDE DEF u
  <2>3. /\ txn' = [q \in Procs |-> txn'[q]]
        /\ \A q \in Procs : /\ txn'[q] = IF q = p THEN u ELSE txn[q]
                            /\ IsTxn(txn'[q])
    BY <2>1, <2>2, TxnSet
  <2>4. HasFields(info', InfoFields) /\ info'.wmutex = p
        /\ info'.txnid = pick_meta.txnid
    BY <2>1 DEF HasFields, InfoFields
  <2>5. Shape' /\ Newest'
    BY <1>1, <2>1, <2>3, <2>4 DEF Shape, Newest
  <2>6. Opened'
    BY <2>1, <2>3 DEF Opened
  <2>7. Owner'
    BY <1>2, <2>2, <2>3, <2>4 DEF Owner, Holding
  <2>8. LockFile'
    BY <1>1, <1>2, <2>2, <2>3, <2>4, LmdbTxnAssumption
       DEF LockFile, BeforeCommit, Holding
  <2> QED  BY <2>5, <2>6, <2>7, <2>8
<1> QED  BY <1>3, <1>4

(* Beginning a transaction keeps the invariant.                            *)
LEMMA BeginIInv ==
    ASSUME IInv, NEW p \in Procs, txn_begin(p)
    PROVE  IInv'
<1>1. txn[p].pc = "grown" /\ env[p].open /\ meta' = meta /\ hist' = hist
  BY DEF txn_begin, IInv, Opened
<1>2. CASE info.wmutex = Free /\ renew0(p, info)
  <2>1. info.txnid = pick_meta.txnid
    BY <1>1, <1>2 DEF IInv, LockFile
  <2> QED  BY <1>1, <1>2, <2>1, RenewIInv DEF IInv, Shape
<1>3. CASE info.wmutex = Dead
           /\ renew0(p, [mutex_failed(info) EXCEPT !.wmutex = Free])
  <2> DEFINE j == [mutex_failed(info) EXCEPT !.wmutex = Free]
  <2>1. PICK n : n = pick_meta.txnid
    OBVIOUS
  <2>2. j = [[[info EXCEPT !.stale = {}] EXCEPT !.txnid = n]
                EXCEPT !.wmutex = Free]
    BY <2>1 DEF mutex_failed, reader_check
  <2>3. HasFields(j, InfoFields) /\ j.wmutex = Free /\ j.txnid = n
    <3> HIDE DEF j
    <3> QED  BY <2>2 DEF IInv, Shape, HasFields, InfoFields
  <2>4. renew0(p, j)
    BY <1>3
  <2> HIDE DEF j
  <2> QED  BY <1>1, <1>3, <2>1, <2>3, <2>4, RenewIInv
<1> QED  BY <1>2, <1>3 DEF txn_begin

(* The txnid of the meta page makes the transaction count.                 *)
LEMMA CommitIInv ==
    ASSUME IInv, NEW p \in Procs, write_meta_txnid(p)
    PROVE  IInv'
<1> USE DEF IInv
<1>1. PICK t : t = txn[p]
  OBVIOUS
<1>2. PICK n : n = pick_meta.txnid
  OBVIOUS
<1>3. IsTxn(t) /\ t.pc = "txnid" /\ t.txnid = n + 1 /\ n \in Nat
      /\ info.wmutex = p /\ env[p].open
  BY <1>1, <1>2, SameNewest, MetaStays
     DEF write_meta_txnid, Shape, Opened, Owner, LockFile, Holding,
         BeforeCommit, pick_meta
<1> DEFINE u == [t EXCEPT !["pc"] = "publish"]
<1>4. IsTxn(u) /\ u.pc = "publish" /\ u.txnid = n + 1
  BY <1>3, TxnForm DEF TxnFields
<1>5. txn' = [txn EXCEPT ![p] = u] /\ env' = env /\ info' = info
  BY <1>1 DEF write_meta_txnid, Shape
<1> HIDE DEF u
<1>6. /\ txn' = [q \in Procs |-> txn'[q]]
      /\ \A q \in Procs : /\ txn'[q] = IF q = p THEN u ELSE txn[q]
                          /\ IsTxn(txn'[q])
  BY <1>4, <1>5, TxnSet
<1>7. Toggle(p) \in 0..1
  BY <1>1, <1>3 DEF Toggle
<1>8. /\ meta' = [i \in 0..1 |-> meta'[i]]
      /\ \A i \in 0..1 :
            /\ HasFields(meta'[i], MetaFields)
            /\ meta'[i].txnid = IF i = Toggle(p) THEN n + 1
                                ELSE meta[i].txnid
  <2>1. meta' = [meta EXCEPT ![Toggle(p)].txnid = n + 1]
    BY <1>1, <1>3 DEF write_meta_txnid
  <2>2. PICK i : i = Toggle(p)
    OBVIOUS
  <2>3. PICK m : m = [meta[i] EXCEPT !.txnid = n + 1]
    OBVIOUS
  <2>4. meta' = [meta EXCEPT ![i] = m] /\ i \in 0..1
    BY <1>7, <2>1, <2>2, <2>3 DEF Shape
  <2>5. HasFields(m, MetaFields) /\ m.txnid = n + 1
    BY <2>3, <2>4 DEF Shape, HasFields, MetaFields
  <2> QED  BY <2>2, <2>4, <2>5 DEF Shape
<1>9. \A i \in 0..1 : meta[i].txnid <= n /\ meta[i].txnid \in Nat
  BY <1>2 DEF Shape, pick_meta
<1>10. pick_meta'.txnid = n + 1
  BY <1>3, <1>7, <1>8, <1>9 DEF pick_meta
<1>11. Committed' = Committed \cup {n + 1}
  BY <1>1, <1>3 DEF write_meta_txnid, Committed
<1>12. Shape'
  BY <1>3, <1>5, <1>6, <1>8, <1>9, <1>11 DEF Shape
<1>13. Opened' /\ Owner'
  BY <1>3, <1>4, <1>5, <1>6 DEF Opened, Owner, Holding
<1>14. Newest'
  BY <1>2, <1>3, <1>10, <1>11 DEF Newest, Shape
<1>15. LockFile'
  BY <1>3, <1>4, <1>5, <1>6, <1>10, <1>13, LmdbTxnAssumption
     DEF LockFile, Owner, Holding, BeforeCommit
<1> QED  BY <1>12, <1>13, <1>14, <1>15

(* The txnid of the lock file follows, and the mutex is released.          *)
LEMMA EndIInv ==
    ASSUME IInv, NEW p \in Procs, publish(p) \/ txn_end(p)
    PROVE  IInv'
<1> USE DEF IInv
<1>1. PICK t : t = txn[p]
  OBVIOUS
<1>2. pick_meta' = pick_meta /\ Committed' = Committed
      /\ pick_meta.txnid \in Nat /\ meta' = meta /\ env' = env
  BY SameNewest, MetaStays DEF pick_meta, Committed, publish, txn_end
<1>3. IsTxn(t) /\ t.pc \in {"publish", "end"} /\ info.wmutex = p
      /\ env[p].open
  BY <1>1 DEF publish, txn_end, Shape, Owner, Holding, Opened
<1>4. CASE publish(p)
  <2> DEFINE u == [t EXCEPT !["pc"] = "end"]
  <2>1. IsTxn(u) /\ u.pc = "end"
    BY <1>3, TxnForm DEF TxnFields
  <2>2. txn' = [txn EXCEPT ![p] = u]
    BY <1>1, <1>4 DEF publish, Shape
  <2> HIDE DEF u
  <2>3. /\ txn' = [q \in Procs |-> txn'[q]]
        /\ \A q \in Procs : /\ txn'[q] = IF q = p THEN u ELSE txn[q]
                            /\ IsTxn(txn'[q])
    BY <2>1, <2>2, TxnSet
  <2>4. t.pc = "publish" /\ t.txnid = pick_meta.txnid
        /\ info' = [info EXCEPT !.txnid = t.txnid]
    BY <1>1, <1>4 DEF publish, LockFile
  <2>5. HasFields(info', InfoFields) /\ info'.txnid = pick_meta.txnid
        /\ info'.wmutex = p
    BY <1>3, <2>4 DEF Shape, HasFields, InfoFields
  <2>6. Shape' /\ Newest'
    BY <1>2, <2>3, <2>5 DEF Shape, Newest
  <2>7. Opened' /\ Owner'
    BY <1>1, <1>2, <1>3, <2>1, <2>3, <2>5 DEF Opened, Owner, Holding
  <2>8. LockFile'
    BY <1>2, <1>3, <2>1, <2>3, <2>5, LmdbTxnAssumption
       DEF LockFile, Owner, Holding, BeforeCommit
  <2> QED  BY <2>6, <2>7, <2>8
<1>5. CASE txn_end(p)
  <2>1. txn' = [txn EXCEPT ![p] = NoTxn] /\ t.pc = "end"
        /\ info' = [info EXCEPT !.wmutex = Free]
    BY <1>1, <1>5 DEF txn_end
  <2>2. /\ txn' = [q \in Procs |-> txn'[q]]
        /\ \A q \in Procs : /\ txn'[q] = IF q = p THEN NoTxn ELSE txn[q]
                            /\ IsTxn(txn'[q])
    BY <2>1, TxnSet, NoTxnForm
  <2>3. HasFields(info', InfoFields) /\ info'.txnid = pick_meta.txnid
        /\ info'.wmutex = Free
    BY <1>1, <2>1 DEF Shape, HasFields, InfoFields, LockFile
  <2>4. \A q \in Procs : txn'[q].pc \notin Holding
    BY <1>3, <2>2, NoTxnForm DEF Owner, Holding
  <2>5. Shape' /\ Newest'
    BY <1>2, <2>2, <2>3 DEF Shape, Newest
  <2>6. Opened' /\ Owner'
    BY <1>2, <2>2, <2>3, <2>4, NoTxnForm, LmdbTxnAssumption DEF Opened, Owner
  <2>7. LockFile'
    BY <1>2, <2>3, <2>4 DEF LockFile, Holding, BeforeCommit
  <2> QED  BY <2>5, <2>6, <2>7
<1> QED  BY <1>4, <1>5

(* Every step keeps the invariant.                                         *)
LEMMA NextIInv == IInv /\ [Next]_vars => IInv'
<1> SUFFICES ASSUME IInv, [Next]_vars PROVE IInv'
  OBVIOUS
<1>1. CASE UNCHANGED vars
  BY <1>1 DEF vars, IInv, Shape, Opened, Owner, Newest, LockFile, Committed,
              pick_meta
<1>2. CASE Next
  <2>1. PICK p \in Procs : \/ env_open(p) \/ env_close(p) \/ Crash(p)
                           \/ Writing(p) \/ Reading(p)
    BY <1>2 DEF Next
  <2>2. CASE Writing(p)
    BY <2>2, PutIInv, DelIInv, FreelistSaveIInv, WritingQuietIInv, BeginIInv,
       CommitIInv, EndIInv DEF Writing
  <2> QED  BY <2>1, <2>2, OpenIInv, CloseIInv, CrashIInv, ReadingIInv
<1> QED  BY <1>1, <1>2

(***************************************************************************)
(* A write transaction builds on the last commit, also when the writer     *)
(* before it died anywhere in its commit (mdb_mutex_failed repairs         *)
(* mti_txnid): no committed transaction is overwritten by a later one that *)
(* did not see it.                                                         *)
(***************************************************************************)
THEOREM WritersBuildOnLastCommit == Spec => []BuildsOnLastCommit
<1>1. IInv => BuildsOnLastCommit
  BY NewestIsMax DEF IInv, LockFile, BeforeCommit, BuildsOnLastCommit, Procs
<1> QED  BY <1>1, InitIInv, NextIInv, PTL DEF Spec

-----------------------------------------------------------------------------
(***************************************************************************)
(* The pages of the map: what the newest meta page and the readers rest on.*)
(***************************************************************************)
PageFields == {"leaf", "kids", "recs"}

IsPage(r) ==
    /\ HasFields(r, PageFields)
    /\ r.kids = [k \in Key |-> r.kids[k]]
    /\ \A k \in Key : r.kids[k] \in Nat

(* The map: a page with a child for every key at each of its numbers.      *)
IsMap(pg) ==
    /\ pg = [i \in 2..MaxPgno |-> pg[i]]
    /\ \A i \in 2..MaxPgno : IsPage(pg[i])

(* No page has two places in a tree.                                       *)
IsTree(pg, root) ==
    root # P_INVALID =>
        \A k \in Key :
            pg[root].kids[k] # P_INVALID =>
                /\ pg[root].kids[k] # root
                /\ \A l \in Key : pg[root].kids[l] = pg[root].kids[k] => l = k

Valid(i) == {i} \ {P_INVALID}

(* Where the pages up to number last are: in use, freed by the running     *)
(* transaction, loose, in its me_pghead, or in one of the records D of the *)
(* free database.  Every page is in one of these places and in no two.     *)
Parts(use, freed, loose, head, recs, D, last) ==
    /\ \A i \in 2..last : \/ i \in use \/ i \in freed \/ i \in loose
                          \/ i \in head \/ \E j \in D : i \in recs[j]
    /\ \A i \in use : /\ i \in 2..last
                      /\ i \notin freed /\ i \notin loose /\ i \notin head
    /\ \A i \in freed : i \in 2..last /\ i \notin loose /\ i \notin head
    /\ \A i \in loose : i \in 2..last /\ i \notin head
    /\ \A i \in head : i \in 2..last
    /\ \A j \in D : \A i \in recs[j] :
          /\ i \in 2..last
          /\ i \notin use /\ i \notin freed /\ i \notin loose /\ i \notin head
          /\ \A l \in D : i \in recs[l] => l = j

(* A committed state, of transaction n: a tree, the page of the free       *)
(* database, and its records under the txnids that freed the pages.        *)
Intact(pg, main, free, last, n) ==
    /\ main \in Nat /\ free \in Nat
    /\ last \in Nat /\ 1 <= last /\ last <= MaxPgno
    /\ IsTree(pg, main)
    /\ free \notin Reachable(pg, main)
    /\ Parts(Reachable(pg, main) \cup Valid(free), {}, {}, {},
             Recs(pg, free), DOMAIN Recs(pg, free), last)
    /\ \A j \in DOMAIN Recs(pg, free) : j \in 1..n

(* The pages that a transaction may write to which has used up the records *)
(* up to pglast: those of these records and new ones.                      *)
Ours(pglast, recs, last, i) ==
    i > last \/ \E j \in DOMAIN recs : j <= pglast /\ i \in recs[j]

Left(pglast, recs) == {j \in DOMAIN recs : j > pglast}

(* A transaction that changes pages, of which it has use in its trees, and *)
(* that builds on transaction n with its last page and its records.        *)
Account(t, use, recs, last, n) ==
    /\ t.next_pgno \in Nat /\ last < t.next_pgno
    /\ t.next_pgno <= MaxPgno + 1
    /\ t.pglast \in Nat /\ (t.pglast = 0 \/ t.pglast < n)
    /\ t.head = TRUE => t.pglast \in DOMAIN recs
    /\ t.head = FALSE => t.pglast = 0 /\ t.pghead = {}
    /\ Parts(use, t.free_pgs, t.loose, t.pghead, recs,
             Left(t.pglast, recs), t.next_pgno - 1)
    /\ t.loose \subseteq t.dirty
    /\ \A i \in t.dirty : Ours(t.pglast, recs, last, i)
    /\ \A i \in t.pghead : Ours(t.pglast, recs, last, i)

(* In a write transaction t that builds on the meta page m.                *)
Working(pg, m, t) ==
    /\ t.full = FALSE /\ t.head \in BOOLEAN
    /\ t.free = m.free
    /\ t.main \in Nat
    /\ IsTree(pg, t.main)
    /\ t.free \notin Reachable(pg, t.main)
    /\ Account(t, Reachable(pg, t.main) \cup Valid(t.free),
               Recs(pg, m.free), m.last_pg, m.txnid)

(* After mdb_freelist_save, while the meta page mt[x] is written.          *)
Saved(pg, mt, m, t) ==
    LET old == Recs(pg, m.free)
        new == Recs(pg, t.free)
        x   == t.txnid % 2
    IN  /\ Intact(pg, t.main, t.free, t.next_pgno - 1, t.txnid)
        /\ t.next_pgno \in Nat /\ m.last_pg < t.next_pgno
        /\ t.pglast \in Nat /\ (t.pglast = 0 \/ t.pglast < m.txnid)
        /\ \A i \in Reachable(pg, m.main) :
              \/ i \in Reachable(pg, t.main)
              \/ t.txnid \in DOMAIN new /\ i \in new[t.txnid]
        /\ \A j \in DOMAIN old :
              t.pglast < j => j \in DOMAIN new /\ new[j] = old[j]
        /\ t.pc \in {"last", "txnid"} =>
              /\ mt[x].main = t.main /\ mt[x].free = t.free
              /\ mt[x].owner = t.txnid
        /\ t.pc = "txnid" => /\ mt[x].last_pg = t.next_pgno - 1
                             /\ mt[x].last_owner = t.txnid

(* No transaction that leaves the records after s alone writes to the tree *)
(* below root.                                                             *)
Protected(pg, m, root, s) ==
    \A i \in Reachable(pg, root) :
        \/ i \in Reachable(pg, m.main)
        \/ \E j \in DOMAIN Recs(pg, m.free) :
              j > s /\ i \in Recs(pg, m.free)[j]

(* The meta pages mt, the newest of which is m: a meta page that belongs   *)
(* to a committed transaction describes it, and that is the last one or    *)
(* the one before.                                                         *)
Describes(pg, m, h, o) ==
    /\ m.txnid <= o.owner + 1
    /\ o.owner <= o.last_owner
    /\ Data(pg, o.main) = h[o.owner]
    /\ Protected(pg, m, o.main, o.owner)
    /\ \A i \in Reachable(pg, o.main) : i <= o.last_pg

MetaPages(pg, mt, m, h) ==
    /\ m = mt[m.txnid % 2]
    /\ m.owner = m.txnid
    /\ Intact(pg, m.main, m.free, m.last_pg, m.txnid)
    /\ \A x \in 0..1 :
          /\ mt[x].owner \in Nat /\ mt[x].last_owner \in Nat
          /\ mt[x].last_pg \in Nat
          /\ mt[x].txnid = 0 \/ mt[x].txnid % 2 = x
          /\ mt[x].owner \in DOMAIN h => Describes(pg, m, h, mt[x])

(* What a read transaction t has copied from the meta page of its txnid.   *)
Snapshot(pg, mt, m, h, t) ==
    /\ t.pc \in {"copy_last", "read"} =>
          IF t.sound
          THEN /\ t.from \in DOMAIN h /\ t.txnid <= t.from
               /\ t.view = h[t.from]
               /\ Data(pg, t.main) = t.view
               /\ Protected(pg, m, t.main, t.txnid)
          ELSE t.txnid < m.txnid
    /\ t.pc = "copy_last" /\ t.sound =>
          /\ t.from <= mt[t.txnid % 2].last_owner
          /\ \A i \in Reachable(pg, t.main) : i <= mt[t.txnid % 2].last_pg
    /\ t.pc = "read" /\ t.sound =>
          \A i \in Reachable(pg, t.main) : i < t.next_pgno

(***************************************************************************)
(* The invariant of the pages.                                             *)
(***************************************************************************)
Changing == {"write", "save"}
Storing == {"dbs", "last", "txnid"}
Slotted == {"copy", "copy_last", "read"}

Store == IsMap(page) /\ MetaPages(page, meta, pick_meta, hist)

WritersKnow ==
    \A p \in Procs :
        /\ txn[p].pc \in Changing => Working(page, pick_meta, txn[p])
        /\ txn[p].pc \in Storing => Saved(page, meta, pick_meta, txn[p])

ReadersKnow ==
    \A p \in Procs : Snapshot(page, meta, pick_meta, hist, txn[p])

(* No process takes a reader for older than it is.                         *)
Slots ==
    /\ info.slot = [p \in Procs |-> info.slot[p]]
    /\ \A p \in Procs : info.slot[p] \in Nat
    /\ info.stale \subseteq Nat
    /\ info.txnid <= pick_meta.txnid
    /\ \A p \in Procs : /\ env[p].pgoldest \in Nat
                        /\ env[p].pgoldest <= info.txnid

Watched ==
    \A p \in Procs :
        /\ txn[p].pc \in Slotted \cup {"check"} =>
              info.slot[p] = txn[p].txnid
        /\ txn[p].pc \in Slotted =>
              /\ txn[p].txnid <= pick_meta.txnid
              /\ \A w \in Procs :
                    /\ env[w].pgoldest <= txn[p].txnid
                    /\ txn[w].pc \in BeforeCommit =>
                          txn[w].pglast <= txn[p].txnid

PagesInv == Store /\ WritersKnow /\ ReadersKnow /\ Slots /\ Watched

-----------------------------------------------------------------------------
(***************************************************************************)
(* Least and greatest elements.                                            *)
(***************************************************************************)
(* A set of numbers that is not empty has a least element.                 *)
LEMMA LeastNumber ==
    ASSUME NEW B \in SUBSET Nat, B # {}
    PROVE  Min(B) \in B /\ \A j \in B : Min(B) <= j
<1>1. PICK k \in B : \A j \in B : ~ (<<j, k>> \in OpToRel(<, Nat))
  BY NatLessThanWellFounded, WFMin
<1>2. \A j \in B : ~ (j < k)
  BY <1>1 DEF OpToRel
<1>3. k \in B /\ \A j \in B : k <= j
  BY <1>2
<1> QED  BY <1>3 DEF Min

(* One with a bound has a greatest element.                                *)
LEMMA GreatestNumber ==
    ASSUME NEW B \in SUBSET Nat, B # {}, NEW o \in Nat, \A j \in B : j < o
    PROVE  Max(B) \in B /\ \A j \in B : j <= Max(B)
<1> DEFINE U == {b \in Nat : \A j \in B : j <= b}
<1>1. o \in U /\ U \in SUBSET Nat
  OBVIOUS
<1>2. PICK b : b = Min(U)
  OBVIOUS
<1>3. b \in U /\ \A c \in U : b <= c
  BY <1>1, <1>2, LeastNumber
<1>4. b \in B
  <2> SUFFICES ASSUME b \notin B PROVE FALSE
    OBVIOUS
  <2>1. b # 0
    <3>1. PICK j \in B : TRUE
      OBVIOUS
    <3>2. j <= b /\ j \in Nat /\ b \in Nat
      BY <1>3
    <3> QED  BY <3>1, <3>2
  <2>2. b - 1 \in U
    BY <1>3, <2>1
  <2> QED  BY <1>3, <2>2
<1>5. \A x \in B : (\A y \in B : x >= y) => x = b
  BY <1>3, <1>4
<1>6. \A y \in B : b >= y
  BY <1>3
<1>7. Max(B) = b
  BY <1>4, <1>5, <1>6 DEF Max
<1> QED  BY <1>3, <1>4, <1>7

(***************************************************************************)
(* mdb_page_alloc.                                                         *)
(***************************************************************************)
(* The transaction u is t except for the fields in S.                      *)
Same(t, u, S) == IsTxn(u) /\ \A g \in TxnFields \ S : u[g] = t[g]

(* The state that a transaction builds on has numbers where they belong.   *)
Base(recs, last, n) ==
    /\ last \in Nat /\ n \in Nat /\ 1 <= last
    /\ \A j \in DOMAIN recs : j \in 1..n /\ \A i \in recs[j] : i \in 2..last

(* The transaction reads the records it has not used up from its own free  *)
(* database as they were committed.                                        *)
Agree(pg, t, recs) ==
    /\ DOMAIN Recs(pg, t.free) \subseteq Nat \ {0}
    /\ Left(t.pglast, Recs(pg, t.free)) = Left(t.pglast, recs)
    /\ \A j \in Left(t.pglast, recs) : Recs(pg, t.free)[j] = recs[j]

(* Merging records into me_pghead moves their pages, and no other.         *)
LEMMA FetchAccount ==
    ASSUME NEW t, IsTxn(t), NEW pg, NEW use, NEW recs, NEW last, NEW n,
           Base(recs, last, n), Account(t, use, recs, last, n),
           Agree(pg, t, recs), NEW o \in Nat, o <= n,
           NEW f, f = Fetch(pg, t, o)
    PROVE  /\ Same(t, f, {"head", "pglast", "pghead"})
           /\ Account(f, use, recs, last, n)
           /\ Agree(pg, f, recs)
           /\ t.pglast <= f.pglast
           /\ f.pglast = t.pglast \/ f.pglast < o
           /\ t.head \in BOOLEAN => f.head \in BOOLEAN
<1>1. PICK got : got = Fetched(pg, t, o)
  OBVIOUS
<1> DEFINE left == Left(t.pglast, recs)
<1>2. CASE got = {}
  <2>1. f = t
    BY <1>1, <1>2 DEF Fetch
  <2> QED  BY <2>1 DEF Same, Account
<1>3. CASE got # {}
  <2>1. /\ t.pghead = {}
        /\ got = {i \in left : i < o /\ \A j \in left : j < i => recs[j] = {}}
    <3>1. {i \in DOMAIN Recs(pg, t.free) : i > t.pglast} = left
      BY DEF Agree, Left
    <3>2. \A j \in left : Recs(pg, t.free)[j] = recs[j]
      BY DEF Agree
    <3> QED  BY <1>1, <1>3, <3>1, <3>2 DEF Fetched
  <2>2. PICK x : x = Max(got)
    OBVIOUS
  <2>3. x \in got /\ \A j \in got : j <= x
    <3>1. got \in SUBSET Nat /\ \A j \in got : j < o
      BY <2>1 DEF Left, Base
    <3> QED  BY <1>3, <2>2, <3>1, GreatestNumber
  <2>4. PICK h : h = UNION {Recs(pg, t.free)[i] : i \in got}
    OBVIOUS
  <2>5. \A i : i \in h <=> \E j \in got : i \in recs[j]
    <3>1. \A j \in got : Recs(pg, t.free)[j] = recs[j]
      BY <2>1 DEF Agree
    <3>2. \A i : i \in h <=> \E j \in got : i \in Recs(pg, t.free)[j]
      BY <2>4
    <3> QED  BY <3>1, <3>2
  <2>6. f = [t EXCEPT !.head = TRUE, !.pglast = x, !.pghead = h]
    <3>1. f = [t EXCEPT !.head = TRUE, !.pglast = Max(got),
                        !.pghead = UNION {Recs(pg, t.free)[i] : i \in got}]
      BY <1>1, <1>3 DEF Fetch
    <3> QED  BY <2>2, <2>4, <3>1
  <2>7. Same(t, f, {"head", "pglast", "pghead"})
        /\ f.head = TRUE /\ f.pglast = x /\ f.pghead = h
    BY <2>6 DEF Same, IsTxn, HasFields, TxnFields
  <2>8. x \in DOMAIN recs /\ x \in Nat /\ t.pglast < x /\ x < o
    BY <2>1, <2>3 DEF Left, Base
  <2>9. Left(x, recs) = left \ got
    BY <2>1, <2>3, <2>8 DEF Left, Base, Account
  <2>10. Account(f, use, recs, last, n)
    <3>1. /\ f.next_pgno = t.next_pgno /\ f.free_pgs = t.free_pgs
          /\ f.loose = t.loose /\ f.dirty = t.dirty
      BY <2>7 DEF Same, TxnFields
    <3>2. Parts(use, f.free_pgs, f.loose, f.pghead, recs,
                Left(f.pglast, recs), f.next_pgno - 1)
      <4>1. Parts(use, t.free_pgs, t.loose, {}, recs, left, t.next_pgno - 1)
        BY <2>1 DEF Account
      <4>2. got \subseteq left
        BY <2>1
      <4> HIDE DEF left
      <4>3. Parts(use, t.free_pgs, t.loose, h, recs, left \ got,
                  t.next_pgno - 1)
        BY <2>5, <4>1, <4>2 DEF Parts
      <4> QED  BY <2>7, <2>9, <3>1, <4>3
    <3>3. \A i \in f.pghead : Ours(x, recs, last, i)
      BY <2>1, <2>3, <2>5, <2>7 DEF Ours, Left
    <3>4. \A i \in f.dirty : Ours(x, recs, last, i)
      BY <2>8, <3>1 DEF Account, Ours, Base
    <3> QED  BY <2>7, <2>8, <3>1, <3>2, <3>3, <3>4 DEF Account, Base
  <2>11. Agree(pg, f, recs)
    <3>1. f.free = t.free
      BY <2>7 DEF Same, TxnFields
    <3>2. Left(x, recs) \subseteq left
      BY <2>9
    <3>3. Left(x, Recs(pg, t.free)) = {j \in Left(t.pglast, Recs(pg, t.free)) :
                                          j > x}
      BY <2>8 DEF Agree, Left, Account
    <3> QED  BY <2>7, <3>1, <3>2, <3>3 DEF Agree, Left
  <2>12. t.pglast <= f.pglast /\ f.pglast < o
    BY <2>7, <2>8 DEF Account, Base
  <2>13. f.head \in BOOLEAN
    BY <2>7
  <2> QED  BY <2>7, <2>10, <2>11, <2>12, <2>13
<1> QED  BY <1>2, <1>3

(* The fields that mdb_page_alloc may change.                              *)
AllocFields == {"next_pgno", "dirty", "loose", "head", "pghead", "pglast",
                "full"}

(* The records used up go up to g only when no reader below o is left.     *)
UsedUp(t, u, o) == t.pglast <= u.pglast
                   /\ (u.pglast = t.pglast \/ u.pglast < o)

(* A transaction with its account, ready to allocate pages in the          *)
(* environment e.                                                          *)
Ready(pg, t, use, recs, last, n, e) ==
    /\ IsTxn(t) /\ t.full = FALSE /\ t.head \in BOOLEAN
    /\ Base(recs, last, n) /\ Account(t, use, recs, last, n)
    /\ Agree(pg, t, recs)
    /\ e.pgoldest \in Nat /\ e.pgoldest <= n

(* What mdb_page_alloc does: it finds a page that is not in use and that   *)
(* the transaction may write to, or the map is full.                       *)
Allocated(pg, t, use, recs, last, n, e, a) ==
    /\ Same(t, a.t, AllocFields)
    /\ a.t.full \in BOOLEAN /\ a.t.head \in BOOLEAN
    /\ UsedUp(t, a.t, e.pgoldest)
    /\ Agree(pg, a.t, recs)
    /\ a.t.next_pgno <= t.next_pgno + 1 /\ a.t.loose \subseteq t.loose
    /\ a.t.full = TRUE => Account(a.t, use, recs, last, n)
    /\ a.t.full = FALSE =>
          /\ Account(a.t, use \cup {a.np}, recs, last, n)
          /\ a.np \notin use /\ a.np \notin t.free_pgs
          /\ a.np \in 2..MaxPgno
          /\ Ours(a.t.pglast, recs, last, a.np)
          /\ a.t.dirty = t.dirty \cup {a.np}

(* It does that.                                                           *)
LEMMA AllocAccount ==
    ASSUME NEW pg, NEW t, NEW use, NEW recs, NEW last, NEW n, NEW e,
           Ready(pg, t, use, recs, last, n, e), t.next_pgno <= MaxPgno
    PROVE  Allocated(pg, t, use, recs, last, n, e, page_alloc(pg, t, e))
<1> USE DEF Ready
<1>0. PICK a : a = page_alloc(pg, t, e)
  OBVIOUS
<1>1. PICK f : f = Fetch(pg, t, e.pgoldest)
  OBVIOUS
<1>2. /\ Same(t, f, {"head", "pglast", "pghead"})
      /\ Account(f, use, recs, last, n)
      /\ Agree(pg, f, recs)
      /\ UsedUp(t, f, e.pgoldest)
      /\ f.head \in BOOLEAN
  <2>1. e.pgoldest \in Nat /\ e.pgoldest <= n
    OBVIOUS
  <2> QED  BY <1>1, <2>1, FetchAccount DEF UsedUp
<1>3. /\ IsTxn(f) /\ f.main = t.main /\ f.free = t.free
      /\ f.next_pgno = t.next_pgno /\ f.dirty = t.dirty
      /\ f.free_pgs = t.free_pgs /\ f.loose = t.loose /\ f.full = FALSE
  BY <1>2 DEF Same, TxnFields
<1>01. SUFFICES Allocated(pg, t, use, recs, last, n, e, a)
  BY <1>0
<1>4. CASE t.loose # {}
  <2>1. PICK np : np = CHOOSE i \in t.loose : TRUE
    OBVIOUS
  <2>2. np \in t.loose
    BY <1>4, <2>1
  <2>3. PICK u : u = [t EXCEPT !.loose = t.loose \ {np}]
    OBVIOUS
  <2>4. a = [np |-> np, t |-> u]
    BY <1>0, <1>4, <2>1, <2>3 DEF page_alloc
  <2>5. Same(t, u, {"loose"}) /\ u.loose = t.loose \ {np}
    BY <2>3 DEF Same, IsTxn, HasFields, TxnFields
  <2>6. /\ u.next_pgno = t.next_pgno /\ u.dirty = t.dirty
        /\ u.free_pgs = t.free_pgs /\ u.full = FALSE /\ u.head = t.head
        /\ u.pghead = t.pghead /\ u.pglast = t.pglast /\ u.free = t.free
    BY <2>5 DEF Same, TxnFields
  <2>7. Account(u, use \cup {np}, recs, last, n)
    <3>1. Parts(use \cup {np}, t.free_pgs, t.loose \ {np}, t.pghead, recs,
                Left(t.pglast, recs), t.next_pgno - 1)
      BY <2>2 DEF Account, Parts
    <3> QED  BY <2>5, <2>6, <3>1 DEF Account
  <2>8. /\ np \notin use /\ np \notin t.free_pgs /\ np \in 2..MaxPgno
        /\ np \in t.dirty /\ Ours(t.pglast, recs, last, np)
    BY <2>2, BoundsAssumption DEF Account, Parts
  <2>9. t.dirty = t.dirty \cup {np}
    BY <2>8
  <2>10. t.next_pgno <= t.next_pgno + 1 /\ t.pglast <= t.pglast
    BY DEF Account
  <2>11. Same(t, u, AllocFields)
    BY <2>5 DEF Same, AllocFields
  <2>12. a.np = np /\ a.t = u /\ u.loose \subseteq t.loose
    BY <2>4, <2>5
  <2> QED  BY <2>6, <2>7, <2>8, <2>9, <2>10, <2>11, <2>12
           DEF Agree, UsedUp, Allocated
<1>5. CASE t.loose = {} /\ f.pghead # {}
  <2>1. PICK np : np = Min(f.pghead)
    OBVIOUS
  <2>2. np \in f.pghead
    <3>1. f.pghead \in SUBSET Nat
      BY <1>2 DEF Account, Parts
    <3> QED  BY <1>5, <2>1, <3>1, LeastNumber
  <2>3. PICK v : v = [f EXCEPT !.pghead = f.pghead \ {np}]
    OBVIOUS
  <2>4. PICK u : u = [v EXCEPT !.dirty = v.dirty \cup {np}]
    OBVIOUS
  <2>5. a = [np |-> np, t |-> u]
    BY <1>0, <1>1, <1>5, <2>1, <2>3, <2>4 DEF page_alloc, mdb_page_dirty
  <2>6. Same(f, v, {"pghead"}) /\ v.pghead = f.pghead \ {np}
    BY <1>3, <2>3 DEF Same, IsTxn, HasFields, TxnFields
  <2>7. Same(v, u, {"dirty"}) /\ u.dirty = v.dirty \cup {np}
    BY <2>4, <2>6 DEF Same, IsTxn, HasFields, TxnFields
  <2>8. /\ u.next_pgno = f.next_pgno /\ u.dirty = f.dirty \cup {np}
        /\ u.free_pgs = f.free_pgs /\ u.full = FALSE /\ u.head = f.head
        /\ u.pghead = f.pghead \ {np} /\ u.pglast = f.pglast
        /\ u.free = f.free /\ u.loose = f.loose
    BY <1>3, <2>6, <2>7 DEF Same, TxnFields
  <2>9. Account(u, use \cup {np}, recs, last, n)
    <3>1. Parts(use \cup {np}, f.free_pgs, f.loose, f.pghead \ {np}, recs,
                Left(f.pglast, recs), f.next_pgno - 1)
      BY <1>2, <2>2 DEF Account, Parts
    <3>2. Ours(f.pglast, recs, last, np)
      BY <1>2, <2>2 DEF Account
    <3>3. u.head = FALSE => u.pghead = {}
      BY <1>2, <2>2, <2>8 DEF Account
    <3> QED  BY <1>2, <2>2, <2>8, <3>1, <3>2, <3>3 DEF Account
  <2>10. /\ np \notin use /\ np \notin t.free_pgs /\ np \in 2..MaxPgno
         /\ Ours(f.pglast, recs, last, np)
    BY <1>2, <1>3, <2>2, BoundsAssumption DEF Account, Parts
  <2>11. u.next_pgno <= t.next_pgno + 1
    BY <1>3, <2>8 DEF Account
  <2>12. Same(t, u, AllocFields)
    BY <1>2, <2>6, <2>7 DEF Same, AllocFields
  <2>13. a.np = np /\ a.t = u
    BY <2>5
  <2> QED  BY <1>2, <1>3, <2>8, <2>9, <2>10, <2>11, <2>12, <2>13
           DEF Agree, UsedUp, Allocated
<1>6. CASE t.loose = {} /\ f.pghead = {}
  <2>1. a = NewPage(f, e)
    BY <1>0, <1>1, <1>6 DEF page_alloc
  <2>2. CASE f.next_pgno + 1 >= e.maxpg
    <3>1. PICK u : u = [f EXCEPT !.full = TRUE]
      OBVIOUS
    <3>2. a = [np |-> P_INVALID, t |-> u]
      BY <2>1, <2>2, <3>1 DEF NewPage
    <3>3. Same(f, u, {"full"}) /\ u.full = TRUE
      BY <1>3, <3>1 DEF Same, IsTxn, HasFields, TxnFields
    <3>4. /\ u.next_pgno = f.next_pgno /\ u.dirty = f.dirty
          /\ u.free_pgs = f.free_pgs /\ u.head = f.head
          /\ u.pghead = f.pghead /\ u.pglast = f.pglast
          /\ u.free = f.free /\ u.loose = f.loose
      BY <3>3 DEF Same, TxnFields
    <3>5. Account(u, use, recs, last, n)
      BY <1>2, <3>4 DEF Account
    <3>6. Same(t, u, AllocFields)
      BY <1>2, <3>3 DEF Same, AllocFields
    <3>7. u.next_pgno <= t.next_pgno + 1
      BY <1>3, <3>4 DEF Account
    <3>8. a.t = u /\ u.loose \subseteq t.loose
      BY <1>3, <3>2, <3>4
    <3> QED  BY <1>2, <3>3, <3>4, <3>5, <3>6, <3>7, <3>8
             DEF Agree, UsedUp, Allocated
  <2>3. CASE ~(f.next_pgno + 1 >= e.maxpg)
    <3>1. PICK np : np = f.next_pgno
      OBVIOUS
    <3>2. PICK v : v = [f EXCEPT !.next_pgno = np + 1]
      OBVIOUS
    <3>3. PICK u : u = [v EXCEPT !.dirty = v.dirty \cup {np}]
      OBVIOUS
    <3>4. a = [np |-> np, t |-> u]
      BY <2>1, <2>3, <3>1, <3>2, <3>3 DEF NewPage, mdb_page_dirty
    <3>5. Same(f, v, {"next_pgno"}) /\ v.next_pgno = np + 1
      BY <1>3, <3>2 DEF Same, IsTxn, HasFields, TxnFields
    <3>6. Same(v, u, {"dirty"}) /\ u.dirty = v.dirty \cup {np}
      BY <3>3, <3>5 DEF Same, IsTxn, HasFields, TxnFields
    <3>7. /\ u.next_pgno = np + 1 /\ u.dirty = f.dirty \cup {np}
          /\ u.free_pgs = f.free_pgs /\ u.full = FALSE /\ u.head = f.head
          /\ u.pghead = f.pghead /\ u.pglast = f.pglast
          /\ u.free = f.free /\ u.loose = f.loose
      BY <1>3, <3>5, <3>6 DEF Same, TxnFields
    <3>8. /\ np \in Nat /\ last < np /\ np <= MaxPgno /\ MaxPgno \in Nat
          /\ last \in Nat /\ 1 <= last
      BY <1>2, <1>3, <3>1, BoundsAssumption DEF Account, Base
    <3>9. Ours(f.pglast, recs, last, np)
      BY <3>8 DEF Ours
    <3>10. Account(u, use \cup {np}, recs, last, n)
      <4>1. Parts(use \cup {np}, f.free_pgs, f.loose, f.pghead, recs,
                  Left(f.pglast, recs), np)
        <5>1. Parts(use, f.free_pgs, f.loose, f.pghead, recs,
                    Left(f.pglast, recs), np - 1)
          BY <1>2, <3>1 DEF Account
        <5>2. \A i : i \in 2..np <=> i \in 2..(np - 1) \/ i = np
          BY <3>8
        <5>3. np \notin 2..(np - 1)
          BY <3>8
        <5> QED  BY <5>1, <5>2, <5>3 DEF Parts
      <4>2. (np + 1) - 1 = np
        BY <3>8
      <4>3. \A i \in u.dirty : Ours(u.pglast, recs, last, i)
        BY <1>2, <3>7, <3>9 DEF Account
      <4>4. /\ u.next_pgno \in Nat /\ last < u.next_pgno
            /\ u.next_pgno <= MaxPgno + 1
        BY <3>7, <3>8
      <4> QED  BY <1>2, <3>7, <4>1, <4>2, <4>3, <4>4 DEF Account
    <3>11. np \notin use /\ np \notin t.free_pgs /\ np \in 2..MaxPgno
      BY <1>2, <1>3, <3>1, <3>8 DEF Account, Parts
    <3>12. u.next_pgno <= t.next_pgno + 1
      BY <1>3, <3>1, <3>7, <3>8
    <3>13. Same(t, u, AllocFields)
      BY <1>2, <3>5, <3>6 DEF Same, AllocFields
    <3>14. a.np = np /\ a.t = u
      BY <3>4
    <3> QED  BY <1>2, <1>3, <3>7, <3>9, <3>10, <3>11, <3>12, <3>13, <3>14
             DEF Agree, UsedUp, Allocated
  <2> QED  BY <2>2, <2>3
<1> QED  BY <1>4, <1>5, <1>6

(***************************************************************************)
(* mdb_page_touch.                                                         *)
(***************************************************************************)
(* A new page is a page.                                                   *)
LEMMA NoPageForm == IsPage(NoPage) /\ NoPage.recs = EmptyRecs
                    /\ \A k \in Key : NoPage.kids[k] = P_INVALID
BY DEF IsPage, HasFields, PageFields, NoPage, P_INVALID

(* The page that takes the place of page mp.                               *)
Copy(pg, mp) == IF mp = P_INVALID THEN NoPage ELSE pg[mp]

(* What mdb_page_touch does: it puts a page that the transaction may write *)
(* to in the place of page mp, and frees mp if it was committed.           *)
Touched(pg, t, use, recs, last, n, e, mp, a) ==
    /\ Same(t, a.t, AllocFields \cup {"free_pgs"})
    /\ a.t.full \in BOOLEAN /\ a.t.head \in BOOLEAN
    /\ UsedUp(t, a.t, e.pgoldest)
    /\ Agree(pg, a.t, recs)
    /\ a.t.loose \subseteq t.loose
    /\ \/ a.t.next_pgno <= t.next_pgno
       \/ mp \notin t.dirty /\ a.t.next_pgno <= t.next_pgno + 1
    /\ IsMap(a.pg)
    /\ a.t.full = TRUE => Account(a.t, use, recs, last, n) /\ a.pg = pg
    /\ a.t.full = FALSE =>
          /\ Account(a.t, (use \ {mp}) \cup {a.np}, recs, last, n)
          /\ a.np = mp \/ a.np \notin use
          /\ a.np \in 2..MaxPgno /\ a.np \in a.t.dirty
          /\ Ours(a.t.pglast, recs, last, a.np)
          /\ \A i \in 2..MaxPgno :
                a.pg[i] = IF i = a.np THEN Copy(pg, mp) ELSE pg[i]
          /\ a.t.free_pgs = t.free_pgs
                            \cup (IF mp \in t.dirty THEN {} ELSE Valid(mp))

(* It does that.                                                           *)
LEMMA TouchAccount ==
    ASSUME NEW pg, NEW t, NEW use, NEW recs, NEW last, NEW n, NEW e,
           Ready(pg, t, use, recs, last, n, e), IsMap(pg),
           NEW mp, mp = P_INVALID \/ mp \in use,
           mp \in t.dirty \/ t.next_pgno <= MaxPgno
    PROVE  Touched(pg, t, use, recs, last, n, e, mp, page_touch(pg, t, e, mp))
<1>0. PICK a : a = page_touch(pg, t, e, mp)
  OBVIOUS
<1>01. SUFFICES Touched(pg, t, use, recs, last, n, e, mp, a)
  BY <1>0
<1> USE DEF Ready
<1>1. \A i \in use : i \in 2..MaxPgno /\ i # P_INVALID
  BY BoundsAssumption DEF Account, Parts, P_INVALID
<1>2. CASE mp # P_INVALID /\ mp \in t.dirty
  <2>1. PICK b : b = [np |-> mp, pg |-> pg, t |-> t]
    OBVIOUS
  <2>2. a = b
    BY <1>0, <1>2, <2>1 DEF page_touch
  <2>3. a.np = mp /\ a.pg = pg /\ a.t = t
    BY <2>1, <2>2
  <2>4. (use \ {mp}) \cup {mp} = use /\ mp \in use
    BY <1>2
  <2>5. t.free_pgs = t.free_pgs \cup {}
    OBVIOUS
  <2>6. UsedUp(t, t, e.pgoldest) /\ t.next_pgno <= t.next_pgno
    BY DEF UsedUp, Account
  <2>7. Ours(t.pglast, recs, last, mp)
    BY <1>2 DEF Account
  <2>8. Same(t, t, AllocFields \cup {"free_pgs"})
    BY DEF Same
  <2>9. Account(a.t, (use \ {mp}) \cup {a.np}, recs, last, n)
    BY <2>3, <2>4
  <2>10. \A i \in 2..MaxPgno :
            a.pg[i] = IF i = a.np THEN Copy(pg, mp) ELSE pg[i]
    BY <1>2, <2>3 DEF Copy
  <2>11. mp \in 2..MaxPgno
    BY <1>1, <2>4
  <2>12. a.t.free_pgs = t.free_pgs
                        \cup (IF mp \in t.dirty THEN {} ELSE Valid(mp))
    BY <1>2, <2>3, <2>5
  <2>13. a.t.full = FALSE /\ a.t.head \in BOOLEAN
    BY <2>3
  <2>14. /\ Same(t, a.t, AllocFields \cup {"free_pgs"})
         /\ UsedUp(t, a.t, e.pgoldest)
         /\ Agree(pg, a.t, recs) /\ IsMap(a.pg)
         /\ a.t.next_pgno <= t.next_pgno /\ a.t.loose \subseteq t.loose
    BY <2>3, <2>6, <2>8
  <2>15. a.np = mp /\ a.np \in a.t.dirty /\ Ours(a.t.pglast, recs, last, a.np)
    BY <1>2, <2>3, <2>7
  <2> QED  BY <2>9, <2>10, <2>11, <2>12, <2>13, <2>14, <2>15
           DEF Touched
<1>3. CASE ~(mp # P_INVALID /\ mp \in t.dirty)
  <2>1. mp \notin t.dirty
    <3>1. mp = P_INVALID => mp \notin t.dirty
      <4>1. ~ Ours(t.pglast, recs, last, P_INVALID)
        BY DEF Ours, Base, P_INVALID
      <4> QED  BY <4>1 DEF Account
    <3> QED  BY <1>3, <3>1
  <2>2. PICK b : b = page_alloc(pg, t, e)
    OBVIOUS
  <2>3. PICK c : c = b.t
    OBVIOUS
  <2>4. PICK np : np = b.np
    OBVIOUS
  <2>5. /\ Same(t, c, AllocFields)
        /\ c.full \in BOOLEAN /\ c.head \in BOOLEAN
        /\ UsedUp(t, c, e.pgoldest)
        /\ Agree(pg, c, recs)
        /\ c.next_pgno <= t.next_pgno + 1 /\ c.loose \subseteq t.loose
        /\ c.full = TRUE => Account(c, use, recs, last, n)
        /\ c.full = FALSE =>
              /\ Account(c, use \cup {np}, recs, last, n)
              /\ np \notin use /\ np \notin t.free_pgs
              /\ np \in 2..MaxPgno
              /\ Ours(c.pglast, recs, last, np)
              /\ c.dirty = t.dirty \cup {np}
    <3>1. t.next_pgno <= MaxPgno
      BY <2>1
    <3>2. Allocated(pg, t, use, recs, last, n, e, b)
      BY <2>2, <3>1, AllocAccount
    <3> QED  BY <2>3, <2>4, <3>2 DEF Allocated
  <2>6. c.free_pgs = t.free_pgs
    BY <2>5 DEF Same, AllocFields, TxnFields
  <2>7. CASE c.full = TRUE
    <3>1. PICK d : d = [np |-> P_INVALID, pg |-> pg, t |-> c]
      OBVIOUS
    <3>2. a = d
      BY <1>0, <1>3, <2>2, <2>3, <2>7, <3>1, Zenon DEF page_touch
    <3>3. a.pg = pg /\ a.t = c
      BY <3>1, <3>2
    <3>4. Same(t, c, AllocFields \cup {"free_pgs"})
      BY <2>5 DEF Same
    <3> QED  BY <2>1, <2>5, <2>7, <3>3, <3>4 DEF Touched
  <2>8. CASE c.full = FALSE
    <3>1. PICK u : u = [c EXCEPT !.free_pgs = c.free_pgs \cup Valid(mp)]
      OBVIOUS
    <3>2. PICK q : q = [pg EXCEPT ![np] = Copy(pg, mp)]
      OBVIOUS
    <3>3. PICK d : d = [np |-> np, pg |-> q, t |-> u]
      OBVIOUS
    <3>4. a = d
      <4>1. c.full # TRUE
        BY <2>8
      <4>2. a = [np |-> b.np,
                 pg |-> [pg EXCEPT ![b.np] =
                            IF mp = P_INVALID THEN NoPage ELSE pg[mp]],
                 t |-> [b.t EXCEPT !.free_pgs =
                            @ \cup ({mp} \ {P_INVALID})]]
        BY <1>0, <1>3, <2>2, <2>3, <2>8 DEF page_touch
      <4> QED  BY <2>3, <2>4, <3>1, <3>2, <3>3, <4>2 DEF Valid, Copy
    <3>5. a.np = np /\ a.pg = q /\ a.t = u
      BY <3>3, <3>4
    <3>6. Same(c, u, {"free_pgs"}) /\ u.free_pgs = c.free_pgs \cup Valid(mp)
      BY <2>5, <3>1 DEF Same, IsTxn, HasFields, TxnFields
    <3>7. /\ u.next_pgno = c.next_pgno /\ u.dirty = c.dirty
          /\ u.full = c.full /\ u.head = c.head
          /\ u.pghead = c.pghead /\ u.pglast = c.pglast
          /\ u.free = c.free /\ u.loose = c.loose
      BY <3>6 DEF Same, TxnFields
    <3>8. Account(u, (use \ {mp}) \cup {np}, recs, last, n)
      <4>1. Parts((use \ {mp}) \cup {np}, c.free_pgs \cup Valid(mp), c.loose,
                  c.pghead, recs, Left(c.pglast, recs), c.next_pgno - 1)
        <5>1. Parts(use \cup {np}, c.free_pgs, c.loose, c.pghead, recs,
                    Left(c.pglast, recs), c.next_pgno - 1)
          BY <2>5, <2>8 DEF Account
        <5>2. np \notin use /\ (mp = P_INVALID \/ mp \in use)
          BY <2>5, <2>8
        <5>3. CASE mp = P_INVALID
          <6>1. Valid(mp) = {} /\ use \ {mp} = use
            BY <1>1, <5>3 DEF Valid
          <6> QED  BY <5>1, <6>1
        <5>4. CASE mp \in use /\ mp # P_INVALID
          <6>1. Valid(mp) = {mp} /\ mp # np
            BY <5>2, <5>4 DEF Valid
          <6> QED  BY <5>1, <5>4, <6>1 DEF Parts
        <5> QED  BY <5>2, <5>3, <5>4
      <4> QED  BY <2>5, <2>8, <3>6, <3>7, <4>1 DEF Account
    <3>9. /\ IsMap(q)
          /\ \A i \in 2..MaxPgno :
                q[i] = IF i = np THEN Copy(pg, mp) ELSE pg[i]
      <4>1. IsPage(Copy(pg, mp))
        BY <1>1, NoPageForm DEF Copy, IsMap
      <4>2. PICK y : y = Copy(pg, mp)
        OBVIOUS
      <4>3. q = [i \in 2..MaxPgno |-> IF i = np THEN y ELSE pg[i]]
        BY <3>2, <4>2 DEF IsMap
      <4> QED  BY <4>1, <4>2, <4>3 DEF IsMap
    <3>10. Same(t, u, AllocFields \cup {"free_pgs"})
      BY <2>5, <3>6 DEF Same
    <3>11. np \in u.dirty
      BY <2>5, <2>8, <3>7
    <3>12. u.free_pgs = t.free_pgs
                        \cup (IF mp \in t.dirty THEN {} ELSE Valid(mp))
      BY <2>1, <2>6, <3>6
    <3>13. UsedUp(t, u, e.pgoldest) /\ Agree(pg, u, recs)
      BY <2>5, <3>7 DEF UsedUp, Agree
    <3> QED  BY <2>1, <2>5, <2>8, <3>5, <3>7, <3>8, <3>9, <3>10, <3>11,
                <3>12, <3>13
             DEF Touched
  <2> QED  BY <2>5, <2>7, <2>8
<1> QED  BY <1>2, <1>3

(***************************************************************************)
(* Pages that are changed, and pages that are spared.                      *)
(***************************************************************************)
(* Of the pages pg0, only those the transaction may write to have changed. *)
Spared(pg0, pg, pglast, recs, last) ==
    \A i \in 2..MaxPgno : ~ Ours(pglast, recs, last, i) => pg[i] = pg0[i]

(* The transaction t0 has become t, and the pages pg0 pg.                  *)
Partial(pg0, pg, t0, t, recs, last, n, e) ==
    /\ IsMap(pg) /\ Spared(pg0, pg, t.pglast, recs, last)
    /\ UsedUp(t0, t, e.pgoldest)
    /\ t0.pglast \in Nat
    /\ t.pglast \in Nat /\ (t.pglast = 0 \/ t.pglast < n)

(* In use are the tree below root and the page of the free database.       *)
Held(pg, t, root, recs, last, n, e) ==
    /\ Ready(pg, t, Reachable(pg, root) \cup Valid(t.free), recs, last, n, e)
    /\ root \in Nat /\ t.free \in Nat
    /\ IsTree(pg, root)
    /\ t.free \notin Reachable(pg, root)

(* A transaction may write to more pages the more records it uses up.      *)
LEMMA OursGrows ==
    ASSUME NEW recs, NEW last, NEW n, Base(recs, last, n),
           NEW g \in Nat, NEW h \in Nat, g <= h,
           NEW i, Ours(g, recs, last, i)
    PROVE  Ours(h, recs, last, i)
BY DEF Ours, Base

(* Touching a page goes on from a partial change.                          *)
LEMMA TouchPartial ==
    ASSUME NEW pg0, NEW pg, NEW t0, NEW t, NEW recs, NEW last, NEW n, NEW e,
           NEW use, NEW mp, NEW a,
           Partial(pg0, pg, t0, t, recs, last, n, e),
           Ready(pg, t, use, recs, last, n, e),
           Touched(pg, t, use, recs, last, n, e, mp, a)
    PROVE  Partial(pg0, a.pg, t0, a.t, recs, last, n, e)
<1>1. a.t.pglast \in Nat /\ (a.t.pglast = 0 \/ a.t.pglast < n)
  BY DEF Touched, Account
<1>2. t.pglast <= a.t.pglast /\ t.pglast \in Nat
  BY DEF Touched, UsedUp, Partial
<1>3. ASSUME NEW i \in 2..MaxPgno, ~ Ours(a.t.pglast, recs, last, i)
      PROVE  a.pg[i] = pg0[i]
  <2>1. ~ Ours(t.pglast, recs, last, i)
    BY <1>1, <1>2, <1>3, OursGrows DEF Ready
  <2>2. pg[i] = pg0[i]
    BY <2>1 DEF Partial, Spared
  <2>3. a.pg[i] = pg[i]
    BY <1>3 DEF Touched
  <2> QED  BY <2>2, <2>3
<1>4. UsedUp(t0, a.t, e.pgoldest)
  <2>1. /\ UsedUp(t0, t, e.pgoldest) /\ UsedUp(t, a.t, e.pgoldest)
        /\ e.pgoldest \in Nat
        /\ t0.pglast \in Nat /\ t.pglast \in Nat
    BY DEF Partial, Touched, Ready
  <2>2. t0.pglast <= t.pglast /\ t.pglast <= a.t.pglast
    BY <2>1 DEF UsedUp
  <2> QED  BY <1>1, <2>1 DEF UsedUp
<1> QED  BY <1>1, <1>3, <1>4 DEF Partial, Spared, Touched

(* Fields that no account is about.                                        *)
OtherFields == {"pc", "txnid", "main", "found_old", "puts", "from", "sound",
                "view"}

(* Setting them keeps the account.                                         *)
LEMMA ReadySame ==
    ASSUME NEW pg, NEW t, NEW use, NEW recs, NEW last, NEW n, NEW e,
           Ready(pg, t, use, recs, last, n, e),
           NEW u, Same(t, u, OtherFields)
    PROVE  /\ Ready(pg, u, use, recs, last, n, e)
           /\ u.free = t.free /\ u.next_pgno = t.next_pgno
           /\ u.dirty = t.dirty /\ u.pglast = t.pglast
<1>1. /\ u.free = t.free /\ u.next_pgno = t.next_pgno /\ u.dirty = t.dirty
      /\ u.pglast = t.pglast /\ u.full = t.full /\ u.head = t.head
      /\ u.free_pgs = t.free_pgs /\ u.loose = t.loose
      /\ u.pghead = t.pghead
  BY DEF Same, OtherFields, TxnFields
<1> QED  BY <1>1 DEF Ready, Account, Agree, Same

(* What is below a root depends on the children of the root.               *)
LEMMA SameTree ==
    ASSUME NEW pg, NEW q, NEW root,
           root = P_INVALID \/ q[root].kids = pg[root].kids
    PROVE  /\ Reachable(q, root) = Reachable(pg, root)
           /\ Kids(q, root) = Kids(pg, root)
           /\ IsTree(pg, root) => IsTree(q, root)
BY DEF Reachable, Kids, IsTree

(* The pages of a tree are pages of the map.                               *)
LEMMA HeldPages ==
    ASSUME NEW pg, NEW t, NEW root, NEW recs, NEW last, NEW n, NEW e,
           Held(pg, t, root, recs, last, n, e)
    PROVE  \A i \in Reachable(pg, root) \cup Valid(t.free) :
              i \in 2..MaxPgno
<1>1. /\ t.next_pgno \in Nat /\ t.next_pgno - 1 <= MaxPgno
      /\ Parts(Reachable(pg, root) \cup Valid(t.free), t.free_pgs, t.loose,
               t.pghead, recs, Left(t.pglast, recs), t.next_pgno - 1)
  BY BoundsAssumption DEF Held, Ready, Account
<1> QED  BY <1>1, BoundsAssumption DEF Parts

(* The root of the main database made writable.                            *)
LEMMA RootAccount ==
    ASSUME NEW pg0, NEW pg, NEW t, NEW recs, NEW last, NEW n, NEW e,
           IsMap(pg), Partial(pg0, pg, t, t, recs, last, n, e),
           Held(pg, t, t.main, recs, last, n, e), t.next_pgno <= MaxPgno,
           NEW r, r = page_touch(pg, t, e, t.main)
    PROVE  /\ Partial(pg0, r.pg, t, r.t, recs, last, n, e)
           /\ Same(t, r.t, AllocFields \cup {"free_pgs"})
           /\ r.t.full \in BOOLEAN
           /\ r.t.next_pgno <= t.next_pgno + 1
           /\ r.t.full = FALSE =>
                 /\ Held(r.pg, r.t, r.np, recs, last, n, e)
                 /\ r.np \in 2..MaxPgno
                 /\ Ours(r.t.pglast, recs, last, r.np)
<1> DEFINE use == Reachable(pg, t.main) \cup Valid(t.free)
<1>1. Ready(pg, t, use, recs, last, n, e)
  BY DEF Held
<1>2. t.main = P_INVALID \/ t.main \in use
  BY DEF Reachable
<1>3. Touched(pg, t, use, recs, last, n, e, t.main, r)
  BY <1>1, <1>2, TouchAccount
<1>4. Partial(pg0, r.pg, t, r.t, recs, last, n, e)
  BY <1>1, <1>3, TouchPartial
<1>5. r.t.free = t.free
  BY <1>3 DEF Touched, Same, AllocFields, TxnFields
<1>6. r.t.next_pgno <= t.next_pgno + 1
  <2>1. t.next_pgno \in Nat
    BY <1>1 DEF Ready, Account
  <2>2. r.t.next_pgno \in Nat
    BY <1>3 DEF Touched, Account
  <2> QED  BY <1>3, <2>1, <2>2 DEF Touched
<1>7. CASE r.t.full = FALSE
  <2>1. /\ Account(r.t, (use \ {t.main}) \cup {r.np}, recs, last, n)
        /\ r.np = t.main \/ r.np \notin use
        /\ r.np \in 2..MaxPgno
        /\ Ours(r.t.pglast, recs, last, r.np)
        /\ \A i \in 2..MaxPgno :
              r.pg[i] = IF i = r.np THEN Copy(pg, t.main) ELSE pg[i]
        /\ Agree(pg, r.t, recs)
    BY <1>3, <1>7 DEF Touched
  <2>2. r.np # P_INVALID /\ r.np \in Nat
    BY <2>1, BoundsAssumption DEF P_INVALID
  <2>3. r.np # t.free
    <3>1. CASE r.np = t.main
      BY <2>2, <3>1 DEF Held, Reachable
    <3>2. CASE r.np \notin use
      BY <2>2, <3>2 DEF Valid
    <3> QED  BY <2>1, <3>1, <3>2
  <2>4. r.pg[r.np] = Copy(pg, t.main)
    BY <2>1
  <2>5. Kids(r.pg, r.np) = Kids(pg, t.main) /\ IsTree(r.pg, r.np)
    <3>1. CASE t.main = P_INVALID
      <4>1. \A k \in Key : r.pg[r.np].kids[k] = P_INVALID
        BY <2>4, <3>1, NoPageForm DEF Copy
      <4>2. Kids(r.pg, r.np) = {}
        BY <2>2, <4>1 DEF Kids
      <4>3. Kids(pg, t.main) = {}
        BY <3>1 DEF Kids
      <4>4. IsTree(r.pg, r.np)
        BY <4>1 DEF IsTree
      <4> QED  BY <4>2, <4>3, <4>4
    <3>2. CASE t.main # P_INVALID
      <4>1. r.pg[r.np].kids = pg[t.main].kids
        BY <2>4, <3>2 DEF Copy
      <4>2. Kids(r.pg, r.np) = Kids(pg, t.main)
        BY <2>2, <3>2, <4>1 DEF Kids
      <4>3. \A k \in Key : pg[t.main].kids[k] # P_INVALID =>
                              pg[t.main].kids[k] \in use
        BY <3>2 DEF Reachable, Kids
      <4>4. \A k \in Key : pg[t.main].kids[k] # P_INVALID =>
                              pg[t.main].kids[k] # r.np
        BY <2>1, <3>2, <4>3 DEF Held, IsTree
      <4>5. IsTree(r.pg, r.np)
        BY <3>2, <4>1, <4>4 DEF Held, IsTree
      <4> QED  BY <4>2, <4>5
    <3> QED  BY <3>1, <3>2
  <2>6. (use \ {t.main}) \cup {r.np}
           = Reachable(r.pg, r.np) \cup Valid(r.t.free)
    <3>1. Reachable(r.pg, r.np) = {r.np} \cup Kids(pg, t.main)
      BY <2>2, <2>5 DEF Reachable
    <3>2. t.main \notin Kids(pg, t.main)
      BY DEF Held, IsTree, Kids
    <3>3. t.main \notin Valid(t.free)
      BY DEF Held, Reachable, Valid
    <3>4. CASE t.main = P_INVALID
      <4>1. use = Kids(pg, t.main) \cup Valid(t.free)
        BY <3>4 DEF Reachable, Kids
      <4>2. t.main \notin use
        BY <3>2, <3>3, <4>1
      <4> QED  BY <1>5, <3>1, <4>1, <4>2
    <3>5. CASE t.main # P_INVALID
      <4>1. use = {t.main} \cup Kids(pg, t.main) \cup Valid(t.free)
        BY <3>5 DEF Reachable
      <4> QED  BY <1>5, <3>1, <3>2, <3>3, <4>1
    <3> QED  BY <3>4, <3>5
  <2>7. Account(r.t, Reachable(r.pg, r.np) \cup Valid(r.t.free), recs, last, n)
    BY <2>1, <2>6
  <2>8. r.t.free \notin Reachable(r.pg, r.np)
    <3>1. Reachable(r.pg, r.np) = {r.np} \cup Kids(pg, t.main)
      BY <2>2, <2>5 DEF Reachable
    <3>2. t.free \notin Kids(pg, t.main)
      BY DEF Held, Reachable, Kids
    <3> QED  BY <1>5, <2>3, <3>1, <3>2
  <2>9. Agree(r.pg, r.t, recs)
    <3>1. Recs(r.pg, t.free) = Recs(pg, t.free)
      <4>1. CASE t.free = P_INVALID
        BY <4>1 DEF Recs
      <4>2. CASE t.free # P_INVALID
        <5>1. t.free \in 2..MaxPgno
          BY <4>2, HeldPages DEF Valid
        <5> QED  BY <2>1, <2>3, <5>1 DEF Recs
      <4> QED  BY <4>1, <4>2
    <3> QED  BY <1>5, <2>1, <3>1 DEF Agree
  <2>10. Ready(r.pg, r.t, Reachable(r.pg, r.np) \cup Valid(r.t.free),
               recs, last, n, e)
    BY <1>1, <1>3, <1>7, <2>7, <2>9 DEF Ready, Touched, Same
  <2>11. Held(r.pg, r.t, r.np, recs, last, n, e)
    BY <1>5, <2>2, <2>5, <2>8, <2>10 DEF Held
  <2> QED  BY <1>3, <1>4, <1>6, <1>7, <2>1, <2>11 DEF Touched
<1>8. CASE r.t.full # FALSE
  BY <1>3, <1>4, <1>6, <1>8 DEF Touched
<1> QED  BY <1>7, <1>8

(* A child of a page replaced.                                             *)
SetKid(pg, root, k, np) == [pg EXCEPT ![root].kids[k] = np]

(* The page map q is pg but for the child k of the page root, which is np. *)
KidSet(pg, q, root, k, np) ==
    /\ IsMap(q)
    /\ \A i \in 2..MaxPgno : /\ i # root => q[i] = pg[i]
                             /\ q[i].leaf = pg[i].leaf
                             /\ q[i].recs = pg[i].recs
    /\ \A l \in Key :
          q[root].kids[l] = IF l = k THEN np ELSE pg[root].kids[l]

(* Nothing else changes.                                                   *)
LEMMA SetKidForm ==
    ASSUME NEW pg, IsMap(pg), NEW root, root \in 2..MaxPgno,
           NEW k, k \in Key, NEW np, np \in Nat
    PROVE  KidSet(pg, SetKid(pg, root, k, np), root, k, np)
<1>1. PICK r : r = pg[root]
  OBVIOUS
<1>2. IsPage(r)
  BY <1>1 DEF IsMap
<1>3. PICK s : s = [l \in Key |-> IF l = k THEN np ELSE r.kids[l]]
  OBVIOUS
<1>4. [r.kids EXCEPT ![k] = np] = s
  BY <1>2, <1>3 DEF IsPage
<1>5. PICK v : v = [r EXCEPT !.kids = s]
  OBVIOUS
<1>6. IsPage(v) /\ v.kids = s /\ v.leaf = r.leaf /\ v.recs = r.recs
  BY <1>2, <1>3, <1>5 DEF IsPage, HasFields, PageFields
<1>7. SetKid(pg, root, k, np) = [pg EXCEPT ![root] = v]
  BY <1>1, <1>4, <1>5 DEF SetKid
<1>8. SetKid(pg, root, k, np)
         = [i \in 2..MaxPgno |-> IF i = root THEN v ELSE pg[i]]
  BY <1>7 DEF IsMap
<1>9. \A l \in Key : v.kids[l] = IF l = k THEN np ELSE pg[root].kids[l]
  BY <1>1, <1>3, <1>6
<1> HIDE DEF SetKid
<1>10. /\ IsMap(SetKid(pg, root, k, np))
       /\ \A i \in 2..MaxPgno :
             SetKid(pg, root, k, np)[i] = IF i = root THEN v ELSE pg[i]
  BY <1>6, <1>8 DEF IsMap
<1> QED  BY <1>1, <1>6, <1>9, <1>10 DEF KidSet

(* The root of the main database is writable.                              *)
RootReady(pg0, t0, r, recs, last, n, e) ==
    /\ Partial(pg0, r.pg, t0, r.t, recs, last, n, e)
    /\ Held(r.pg, r.t, r.np, recs, last, n, e)
    /\ r.np \in 2..MaxPgno /\ Ours(r.t.pglast, recs, last, r.np)
    /\ r.t.next_pgno <= MaxPgno

(* The path to the leaf of key k is, or the map is full.                   *)
PathReady(pg0, t0, recs, last, n, e, k, c) ==
    /\ Partial(pg0, c.pg, t0, c.t, recs, last, n, e)
    /\ c.t.full \in BOOLEAN
    /\ c.t.full = FALSE =>
          /\ Held(c.pg, c.t, c.t.main, recs, last, n, e)
          /\ c.t.main \in 2..MaxPgno
          /\ c.np \in 2..MaxPgno /\ c.np \in c.t.dirty
          /\ Ours(c.t.pglast, recs, last, c.np)
          /\ Ours(c.t.pglast, recs, last, c.t.main)
          /\ c.pg[c.t.main].kids[k] = c.np

(* The leaf of a key made writable, under a root that is.                  *)
LEMMA LeafAccount ==
    ASSUME NEW pg0, NEW t0, NEW r, NEW recs, NEW last, NEW n, NEW e,
           RootReady(pg0, t0, r, recs, last, n, e), NEW k \in Key,
           NEW c, c = LeafTouched(r, e, k)
    PROVE  /\ PathReady(pg0, t0, recs, last, n, e, k, c)
           /\ Same(r.t, c.t, AllocFields \cup {"free_pgs", "main"})
<1> USE DEF RootReady
<1> DEFINE use == Reachable(r.pg, r.np) \cup Valid(r.t.free)
<1>1. PICK u : u = [r.t EXCEPT !.main = r.np]
  OBVIOUS
<1>2. PICK mp : mp = r.pg[r.np].kids[k]
  OBVIOUS
<1>3. PICK l : l = page_touch(r.pg, u, e, mp)
  OBVIOUS
<1>4. Same(r.t, u, {"main"}) /\ u.main = r.np
  BY <1>1 DEF Held, Ready, Same, IsTxn, HasFields, TxnFields
<1>5. /\ Ready(r.pg, u, use, recs, last, n, e)
      /\ u.free = r.t.free /\ u.next_pgno = r.t.next_pgno
      /\ u.dirty = r.t.dirty /\ u.pglast = r.t.pglast
  <2>1. Same(r.t, u, OtherFields)
    BY <1>4 DEF Same, OtherFields
  <2>2. Ready(r.pg, r.t, use, recs, last, n, e)
    BY DEF Held
  <2> QED  BY <2>1, <2>2, ReadySame
<1>6. r.np # P_INVALID /\ r.np \in Nat
  BY BoundsAssumption DEF P_INVALID
<1>7. Reachable(r.pg, r.np) = {r.np} \cup Kids(r.pg, r.np)
  BY <1>6 DEF Reachable
<1>8. mp = P_INVALID \/ mp \in Kids(r.pg, r.np)
  BY <1>2, <1>6 DEF Kids
<1>9. Touched(r.pg, u, use, recs, last, n, e, mp, l)
  <2>1. mp = P_INVALID \/ mp \in use
    BY <1>7, <1>8
  <2> QED  BY <1>3, <1>5, <2>1, TouchAccount DEF Partial
<1>10. Partial(pg0, l.pg, t0, l.t, recs, last, n, e)
  <2>1. Partial(pg0, r.pg, t0, u, recs, last, n, e)
    BY <1>5 DEF Partial, UsedUp
  <2> QED  BY <1>5, <1>9, <2>1, TouchPartial
<1>11. PICK q : q = SetKid(l.pg, r.np, k, l.np)
  OBVIOUS
<1>12. /\ c.t = l.t /\ c.np = l.np
       /\ c.pg = IF l.t.full THEN l.pg ELSE q
  <2>1. HasFields(l, {"np", "pg", "t"})
    BY <1>3 DEF page_touch, HasFields
  <2>2. c = [l EXCEPT !.pg = IF l.t.full THEN l.pg ELSE q]
    BY <1>1, <1>2, <1>3, <1>11 DEF LeafTouched, SetKid
  <2>3. PICK z : z = IF l.t.full THEN l.pg ELSE q
    OBVIOUS
  <2>4. c = [l EXCEPT !.pg = z]
    BY <2>2, <2>3
  <2> QED  BY <2>1, <2>3, <2>4 DEF HasFields
<1>13. Same(r.t, c.t, AllocFields \cup {"free_pgs", "main"})
  BY <1>4, <1>9, <1>12 DEF Same, Touched
<1>14. c.t.full \in BOOLEAN
  BY <1>9, <1>12 DEF Touched
<1>15. l.t.main = r.np /\ l.t.free = r.t.free
  BY <1>4, <1>5, <1>9 DEF Touched, Same, AllocFields, TxnFields
<1>16. CASE l.t.full = TRUE
  BY <1>10, <1>12, <1>13, <1>14, <1>16 DEF PathReady
<1>17. CASE l.t.full = FALSE
  <2>1. /\ Account(l.t, (use \ {mp}) \cup {l.np}, recs, last, n)
        /\ l.np = mp \/ l.np \notin use
        /\ l.np \in 2..MaxPgno /\ l.np \in l.t.dirty
        /\ Ours(l.t.pglast, recs, last, l.np)
        /\ \A i \in 2..MaxPgno :
              l.pg[i] = IF i = l.np THEN Copy(r.pg, mp) ELSE r.pg[i]
        /\ Agree(r.pg, l.t, recs) /\ IsMap(l.pg)
    BY <1>9, <1>17 DEF Touched
  <2>2. mp # r.np /\ (mp = P_INVALID \/ mp # r.t.free)
    BY <1>2, <1>6, <1>7, <1>8 DEF Held, IsTree
  <2>3. l.np # r.np /\ l.np # P_INVALID /\ l.np \in Nat
    BY <1>7, <2>1, <2>2, BoundsAssumption DEF P_INVALID
  <2>4. l.np # r.t.free
    <3>1. CASE l.np = mp
      BY <2>2, <2>3, <3>1
    <3>2. CASE l.np \notin use
      BY <2>3, <3>2 DEF Valid
    <3> QED  BY <2>1, <3>1, <3>2
  <2>5. l.pg[r.np] = r.pg[r.np]
    BY <2>1, <2>3
  <2>6. /\ IsMap(q)
        /\ \A i \in 2..MaxPgno : /\ i # r.np => q[i] = l.pg[i]
                                 /\ q[i].recs = l.pg[i].recs
        /\ \A j \in Key : q[r.np].kids[j]
                             = IF j = k THEN l.np ELSE r.pg[r.np].kids[j]
    <3>1. KidSet(l.pg, q, r.np, k, l.np)
      BY <1>11, <2>1, <2>3, SetKidForm
    <3> QED  BY <2>5, <3>1 DEF KidSet
  <2>7. Kids(q, r.np) = (Kids(r.pg, r.np) \ {mp}) \cup {l.np}
    <3>1. \A j \in Key : r.pg[r.np].kids[j] = mp /\ mp # P_INVALID => j = k
      BY <1>2, <1>6 DEF Held, IsTree
    <3>2. \A i : i \in Kids(q, r.np) <=> \E j \in Key :
                 q[r.np].kids[j] = i /\ i # P_INVALID
      BY <1>6 DEF Kids
    <3>3. \A i : i \in Kids(r.pg, r.np) <=> \E j \in Key :
                 r.pg[r.np].kids[j] = i /\ i # P_INVALID
      BY <1>6 DEF Kids
    <3>4. \A i : i \in Kids(q, r.np) <=>
                 i = l.np \/ (i \in Kids(r.pg, r.np) /\ i # mp)
      BY <1>2, <2>3, <2>6, <3>1, <3>2, <3>3
    <3> QED  BY <3>4
  <2>8. Reachable(q, r.np) = {r.np} \cup Kids(q, r.np)
    BY <1>6 DEF Reachable
  <2>9. (use \ {mp}) \cup {l.np} = Reachable(q, r.np) \cup Valid(l.t.free)
    <3>1. mp \notin Valid(r.t.free)
      BY <2>2 DEF Valid
    <3> QED  BY <1>7, <1>15, <2>2, <2>7, <2>8, <3>1
  <2>10. IsTree(q, r.np)
    <3>1. \A j \in Key : r.pg[r.np].kids[j] # P_INVALID =>
             /\ r.pg[r.np].kids[j] # r.np
             /\ \A i \in Key : r.pg[r.np].kids[i] = r.pg[r.np].kids[j] => i = j
      BY <1>6 DEF Held, IsTree
    <3>2. \A j \in Key : j # k => r.pg[r.np].kids[j] # l.np
      <4>1. ASSUME NEW j \in Key, j # k, r.pg[r.np].kids[j] = l.np
            PROVE  FALSE
        <5>1. l.np \in Kids(r.pg, r.np)
          BY <1>6, <2>3, <4>1 DEF Kids
        <5>2. l.np = mp
          BY <1>7, <2>1, <5>1
        <5> QED  BY <1>2, <2>3, <3>1, <4>1, <5>2
      <4> QED  BY <4>1
    <3> QED  BY <2>3, <2>6, <3>1, <3>2 DEF IsTree
  <2>11. l.t.free \notin Reachable(q, r.np)
    <3>1. r.t.free \notin Reachable(r.pg, r.np)
      BY DEF Held
    <3> QED  BY <1>7, <1>15, <2>4, <2>7, <2>8, <3>1
  <2>12. Agree(q, l.t, recs)
    <3>1. Recs(q, r.t.free) = Recs(r.pg, r.t.free)
      <4>1. CASE r.t.free = P_INVALID
        BY <4>1 DEF Recs
      <4>2. CASE r.t.free # P_INVALID
        <5>1. r.t.free \in 2..MaxPgno
          BY <4>2, HeldPages DEF Valid
        <5>2. q[r.t.free].recs = r.pg[r.t.free].recs
          BY <2>1, <2>4, <2>6, <5>1
        <5> QED  BY <4>2, <5>2 DEF Recs
      <4> QED  BY <4>1, <4>2
    <3> QED  BY <1>15, <2>1, <3>1 DEF Agree
  <2>13. Account(l.t, Reachable(q, r.np) \cup Valid(l.t.free), recs, last, n)
    BY <2>1, <2>9
  <2>14. Ready(q, l.t, Reachable(q, r.np) \cup Valid(l.t.free),
               recs, last, n, e)
    BY <1>5, <1>9, <1>17, <2>12, <2>13 DEF Ready, Touched, Same
  <2>15. Held(q, l.t, r.np, recs, last, n, e)
    BY <1>6, <1>15, <2>10, <2>11, <2>14 DEF Held
  <2>16. Ours(l.t.pglast, recs, last, r.np)
    <3>1. /\ r.t.pglast \in Nat /\ l.t.pglast \in Nat
          /\ r.t.pglast <= l.t.pglast /\ Base(recs, last, n)
      BY <1>5, <1>9, <1>10 DEF Touched, UsedUp, Partial, Ready
    <3> QED  BY <3>1, OursGrows
  <2>17. Partial(pg0, q, t0, l.t, recs, last, n, e)
    <3>1. \A i \in 2..MaxPgno :
             ~ Ours(l.t.pglast, recs, last, i) => q[i] = l.pg[i]
      BY <2>6, <2>16
    <3> QED  BY <1>10, <2>6, <3>1 DEF Partial, Spared
  <2>18. c.pg = q /\ q[r.np].kids[k] = l.np
    BY <1>12, <1>17, <2>6
  <2> QED  BY <1>12, <1>13, <1>14, <1>15, <1>17, <2>1, <2>15, <2>16, <2>17,
              <2>18
           DEF PathReady
<1> QED  BY <1>9, <1>16, <1>17 DEF Touched

(***************************************************************************)
(* The changes of a write transaction.                                     *)
(***************************************************************************)
ChangeFields == AllocFields \cup {"free_pgs", "main"}

(* The path to a leaf made writable, as putting and deleting do first.     *)
Path(pg, t, e, k) ==
    LET r == page_touch(pg, t, e, t.main)
    IN  IF r.t.full THEN r ELSE LeafTouched(r, e, k)

(* It is, or the map is full.                                              *)
LEMMA PathAccount ==
    ASSUME NEW pg, NEW t, NEW recs, NEW last, NEW n, NEW e, NEW k \in Key,
           IsMap(pg), Partial(pg, pg, t, t, recs, last, n, e),
           Held(pg, t, t.main, recs, last, n, e), t.next_pgno < MaxPgno,
           NEW c, c = Path(pg, t, e, k)
    PROVE  /\ PathReady(pg, t, recs, last, n, e, k, c)
           /\ Same(t, c.t, ChangeFields)
<1>1. PICK r : r = page_touch(pg, t, e, t.main)
  OBVIOUS
<1>2. t.next_pgno \in Nat /\ t.next_pgno <= MaxPgno
      /\ t.next_pgno + 1 <= MaxPgno
  BY BoundsAssumption DEF Held, Ready, Account
<1>3. /\ Partial(pg, r.pg, t, r.t, recs, last, n, e)
      /\ Same(t, r.t, AllocFields \cup {"free_pgs"})
      /\ r.t.full \in BOOLEAN
      /\ r.t.next_pgno <= t.next_pgno + 1
      /\ r.t.full = FALSE =>
            /\ Held(r.pg, r.t, r.np, recs, last, n, e)
            /\ r.np \in 2..MaxPgno
            /\ Ours(r.t.pglast, recs, last, r.np)
  BY <1>1, <1>2, RootAccount
<1>4. CASE r.t.full = TRUE
  <2>1. c = r
    BY <1>1, <1>4 DEF Path
  <2>2. Same(t, c.t, ChangeFields)
    BY <1>3, <2>1 DEF Same, ChangeFields
  <2> QED  BY <1>3, <1>4, <2>1, <2>2 DEF PathReady
<1>5. CASE r.t.full = FALSE
  <2>1. c = LeafTouched(r, e, k)
    BY <1>1, <1>5 DEF Path
  <2>2. r.t.next_pgno <= MaxPgno
    <3>1. r.t.next_pgno \in Nat
      BY <1>3, <1>5 DEF Held, Ready, Account
    <3> QED  BY <1>2, <1>3, <3>1, BoundsAssumption
  <2>3. /\ PathReady(pg, t, recs, last, n, e, k, c)
        /\ Same(r.t, c.t, AllocFields \cup {"free_pgs", "main"})
    <3>1. RootReady(pg, t, r, recs, last, n, e)
      BY <1>3, <1>5, <2>2 DEF RootReady
    <3> QED  BY <2>1, <3>1, LeafAccount
  <2>4. Same(t, c.t, ChangeFields)
    BY <1>3, <2>3 DEF Same, ChangeFields
  <2> QED  BY <2>3, <2>4
<1> QED  BY <1>3, <1>4, <1>5

(* What a change of a write transaction t that builds on m comes to.       *)
ChangeMade(pg0, pg, t, u, m, e) ==
    /\ Partial(pg0, pg, t, u, Recs(pg0, m.free), m.last_pg, m.txnid, e)
    /\ u.full \in BOOLEAN
    /\ u.full = FALSE =>
          Held(pg, u, u.main, Recs(pg0, m.free), m.last_pg, m.txnid, e)

(* The leaf of a page set.                                                 *)
SetLeaf(pg, np, v) == [pg EXCEPT ![np].leaf = v]

(* Nothing else changes.                                                   *)
LEMMA SetLeafForm ==
    ASSUME NEW pg, IsMap(pg), NEW np, np \in 2..MaxPgno, NEW v
    PROVE  /\ IsMap(SetLeaf(pg, np, v))
           /\ \A i \in 2..MaxPgno :
                 /\ i # np => SetLeaf(pg, np, v)[i] = pg[i]
                 /\ SetLeaf(pg, np, v)[i].kids = pg[i].kids
                 /\ SetLeaf(pg, np, v)[i].recs = pg[i].recs
<1>1. PICK r : r = pg[np]
  OBVIOUS
<1>2. PICK w : w = [r EXCEPT !.leaf = v]
  OBVIOUS
<1>3. IsPage(w) /\ w.kids = r.kids /\ w.recs = r.recs
  BY <1>1, <1>2 DEF IsMap, IsPage, HasFields, PageFields
<1>4. SetLeaf(pg, np, v) = [pg EXCEPT ![np] = w]
  BY <1>1, <1>2 DEF SetLeaf
<1>5. SetLeaf(pg, np, v)
         = [i \in 2..MaxPgno |-> IF i = np THEN w ELSE pg[i]]
  BY <1>4 DEF IsMap
<1> HIDE DEF SetLeaf
<1>6. IsMap(SetLeaf(pg, np, v))
  BY <1>3, <1>5 DEF IsMap
<1> QED  BY <1>1, <1>3, <1>5, <1>6

(* A page that the transaction may write to changes, the tree does not.    *)
LEMMA HeldSame ==
    ASSUME NEW pg, NEW t, NEW root, NEW recs, NEW last, NEW n, NEW e,
           Held(pg, t, root, recs, last, n, e), NEW q,
           \A i \in 2..MaxPgno : /\ q[i].kids = pg[i].kids
                                 /\ q[i].recs = pg[i].recs
    PROVE  Held(q, t, root, recs, last, n, e)
<1>1. /\ Reachable(q, root) = Reachable(pg, root)
      /\ IsTree(q, root)
  <2>1. root = P_INVALID \/ root \in 2..MaxPgno
    BY HeldPages DEF Reachable
  <2> QED  BY <2>1, SameTree DEF Held
<1>2. Recs(q, t.free) = Recs(pg, t.free)
  <2>1. t.free = P_INVALID \/ t.free \in 2..MaxPgno
    BY HeldPages DEF Valid
  <2> QED  BY <2>1 DEF Recs
<1> QED  BY <1>1, <1>2 DEF Held, Ready, Agree

(* Setting fields of a transaction that its account is not about.          *)
LEMMA HeldOther ==
    ASSUME NEW pg, NEW t, NEW root, NEW recs, NEW last, NEW n, NEW e,
           Held(pg, t, root, recs, last, n, e),
           NEW u, Same(t, u, OtherFields)
    PROVE  Held(pg, u, root, recs, last, n, e)
<1> DEFINE use == Reachable(pg, root) \cup Valid(t.free)
<1>1. Ready(pg, t, use, recs, last, n, e)
  BY DEF Held
<1>2. Ready(pg, u, use, recs, last, n, e) /\ u.free = t.free
  BY <1>1, ReadySame
<1> QED  BY <1>2 DEF Held

(* Putting a key.                                                          *)
LEMMA PutAccount ==
    ASSUME NEW pg, NEW t, NEW m, NEW e, NEW k \in Key, NEW v,
           IsMap(pg),
           Partial(pg, pg, t, t, Recs(pg, m.free), m.last_pg, m.txnid, e),
           Held(pg, t, t.main, Recs(pg, m.free), m.last_pg, m.txnid, e),
           t.next_pgno < MaxPgno,
           NEW c, c = Path(pg, t, e, k),
           NEW u, Same(c.t, u, {"puts", "found_old"}),
           NEW q, q = IF c.t.full THEN c.pg ELSE SetLeaf(c.pg, c.np, v)
    PROVE  ChangeMade(pg, q, t, u, m, e)
<1> DEFINE recs == Recs(pg, m.free)
<1>1. PathReady(pg, t, recs, m.last_pg, m.txnid, e, k, c)
  <2> HIDE DEF recs
  <2>1. /\ Partial(pg, pg, t, t, recs, m.last_pg, m.txnid, e)
        /\ Held(pg, t, t.main, recs, m.last_pg, m.txnid, e)
    BY DEF recs
  <2> QED  BY <2>1, PathAccount
<1>2. u.full = c.t.full /\ u.pglast = c.t.pglast /\ u.main = c.t.main
      /\ Same(c.t, u, OtherFields)
  BY DEF Same, TxnFields, OtherFields
<1> HIDE DEF recs
<1>3. CASE c.t.full = TRUE
  BY <1>1, <1>2, <1>3 DEF PathReady, ChangeMade, Partial, UsedUp, recs
<1>4. CASE c.t.full = FALSE
  <2>1. q = SetLeaf(c.pg, c.np, v)
    BY <1>4
  <2>2. /\ IsMap(q)
        /\ \A i \in 2..MaxPgno : /\ i # c.np => q[i] = c.pg[i]
                                 /\ q[i].kids = c.pg[i].kids
                                 /\ q[i].recs = c.pg[i].recs
    BY <1>1, <1>4, <2>1, SetLeafForm DEF PathReady, Partial
  <2>3. Held(q, c.t, c.t.main, recs, m.last_pg, m.txnid, e)
    BY <1>1, <1>4, <2>2, HeldSame DEF PathReady
  <2>4. Held(q, u, u.main, recs, m.last_pg, m.txnid, e)
    BY <1>2, <2>3, HeldOther
  <2>5. Partial(pg, q, t, u, recs, m.last_pg, m.txnid, e)
    BY <1>1, <1>2, <1>4, <2>2 DEF PathReady, Partial, Spared, UsedUp
  <2> QED  BY <1>2, <1>4, <2>4, <2>5 DEF ChangeMade, recs
<1> QED  BY <1>1, <1>3, <1>4 DEF PathReady

(* Deleting the leaf of a key.                                             *)
LEMMA UnlinkAccount ==
    ASSUME NEW pg0, NEW t0, NEW recs, NEW last, NEW n, NEW e, NEW k \in Key,
           NEW c, PathReady(pg0, t0, recs, last, n, e, k, c),
           c.t.full = FALSE, NEW w, w = Unlinked(c, k)
    PROVE  /\ Partial(pg0, w.pg, t0, w.t, recs, last, n, e)
           /\ Held(w.pg, w.t, w.t.main, recs, last, n, e)
<1>1. PICK root : root = c.t.main
  OBVIOUS
<1>2. PICK np : np = c.np
  OBVIOUS
<1>3. /\ Partial(pg0, c.pg, t0, c.t, recs, last, n, e)
      /\ Held(c.pg, c.t, root, recs, last, n, e)
      /\ root \in 2..MaxPgno /\ np \in 2..MaxPgno /\ np \in c.t.dirty
      /\ Ours(c.t.pglast, recs, last, root)
      /\ c.pg[root].kids[k] = np /\ IsMap(c.pg)
  BY <1>1, <1>2 DEF PathReady, Partial
<1>4. root # P_INVALID /\ np # P_INVALID /\ P_INVALID \in Nat
  BY <1>3, BoundsAssumption DEF P_INVALID
<1>5. PICK q : q = SetKid(c.pg, root, k, P_INVALID)
  OBVIOUS
<1>6. KidSet(c.pg, q, root, k, P_INVALID)
  BY <1>3, <1>4, <1>5, SetKidForm
<1>7. Kids(q, root) = Kids(c.pg, root) \ {np}
  <2>1. \A i : i \in Kids(q, root) <=> \E j \in Key :
               q[root].kids[j] = i /\ i # P_INVALID
    BY <1>4 DEF Kids
  <2>2. \A i : i \in Kids(c.pg, root) <=> \E j \in Key :
               c.pg[root].kids[j] = i /\ i # P_INVALID
    BY <1>4 DEF Kids
  <2>3. \A j \in Key : c.pg[root].kids[j] = np => j = k
    BY <1>3, <1>4 DEF Held, IsTree
  <2>4. \A j \in Key : q[root].kids[j]
                          = IF j = k THEN P_INVALID ELSE c.pg[root].kids[j]
    BY <1>6 DEF KidSet
  <2> QED  BY <1>3, <2>1, <2>2, <2>3, <2>4
<1>8. /\ Reachable(q, root) = {root} \cup Kids(q, root)
      /\ Reachable(c.pg, root) = {root} \cup Kids(c.pg, root)
      /\ np \in Kids(c.pg, root) /\ root \notin Kids(c.pg, root)
  BY <1>3, <1>4 DEF Reachable, Kids, Held, IsTree
<1>9. IsTree(q, root)
  BY <1>3, <1>4, <1>6 DEF KidSet, Held, IsTree
<1>10. PICK t : t = [c.t EXCEPT !.loose = c.t.loose \cup {np}]
  OBVIOUS
<1>11. Same(c.t, t, {"loose"}) /\ t.loose = c.t.loose \cup {np}
  BY <1>3, <1>10 DEF Held, Ready, Same, IsTxn, HasFields, TxnFields
<1>12. /\ t.next_pgno = c.t.next_pgno /\ t.dirty = c.t.dirty
       /\ t.free_pgs = c.t.free_pgs /\ t.full = c.t.full
       /\ t.head = c.t.head /\ t.pghead = c.t.pghead
       /\ t.pglast = c.t.pglast /\ t.free = c.t.free /\ t.main = root
  BY <1>1, <1>11 DEF Same, TxnFields
<1>13. Recs(q, t.free) = Recs(c.pg, c.t.free)
  <2>1. t.free = P_INVALID \/ t.free \in 2..MaxPgno
    BY <1>3, <1>12, HeldPages DEF Valid
  <2> QED  BY <1>6, <1>12, <2>1 DEF Recs, KidSet
<1>14. Agree(q, t, recs)
  BY <1>3, <1>12, <1>13 DEF Agree, Held, Ready
<1>15. np \notin Valid(c.t.free) /\ root \notin Valid(c.t.free)
       /\ c.t.free \notin Kids(q, root)
  BY <1>3, <1>7, <1>8 DEF Held, Valid
<1>16. Account(t, Reachable(q, root) \cup Valid(t.free), recs, last, n)
  <2>1. Reachable(q, root) \cup Valid(t.free)
           = (Reachable(c.pg, root) \cup Valid(c.t.free)) \ {np}
    BY <1>7, <1>8, <1>12, <1>15
  <2>2. PICK use : use = Reachable(c.pg, root) \cup Valid(c.t.free)
    OBVIOUS
  <2>3. Account(c.t, use, recs, last, n) /\ np \in use
    BY <1>3, <1>8, <2>2 DEF Held, Ready
  <2>4. Parts(use \ {np}, t.free_pgs, c.t.loose \cup {np}, t.pghead, recs,
              Left(t.pglast, recs), t.next_pgno - 1)
    BY <1>12, <2>3 DEF Account, Parts
  <2>5. Account(t, use \ {np}, recs, last, n)
    BY <1>3, <1>11, <1>12, <2>3, <2>4 DEF Account
  <2> QED  BY <2>1, <2>2, <2>5
<1>17. Partial(pg0, q, t0, t, recs, last, n, e)
  BY <1>3, <1>6, <1>12 DEF Partial, Spared, KidSet, UsedUp
<1>18. /\ page_loose(c.t, c.np) = t
       /\ [c.pg EXCEPT ![c.t.main].kids[k] = P_INVALID] = q
  BY <1>1, <1>2, <1>5, <1>10 DEF page_loose, SetKid
<1>19. t.head \in BOOLEAN /\ IsTxn(t) /\ Base(recs, last, n)
       /\ e.pgoldest \in Nat /\ e.pgoldest <= n
       /\ t.full = FALSE /\ t.free \in Nat
  BY <1>3, <1>11, <1>12 DEF Held, Ready, Same
<1>20. CASE Kids(q, root) # {}
  <2>1. w = [pg |-> q, t |-> t]
    BY <1>1, <1>18, <1>20, Zenon DEF Unlinked
  <2>2. w.pg = q /\ w.t = t
    BY <2>1
  <2>3. t.free \notin Reachable(q, root)
    BY <1>3, <1>7, <1>8, <1>12 DEF Held
  <2>4. Held(q, t, root, recs, last, n, e)
    BY <1>3, <1>9, <1>14, <1>16, <1>19, <2>3 DEF Held, Ready
  <2> QED  BY <1>12, <1>17, <2>2, <2>4
<1>21. CASE Kids(q, root) = {}
  <2>1. PICK v : v = [t EXCEPT !.main = P_INVALID]
    OBVIOUS
  <2>2. PICK u : u = [v EXCEPT !.free_pgs = v.free_pgs \cup {root}]
    OBVIOUS
  <2>3. w = [pg |-> q, t |-> u]
    <3>1. w = [pg |-> q, t |-> [t EXCEPT !.main = P_INVALID,
                                         !.free_pgs = @ \cup {c.t.main}]]
      BY <1>1, <1>18, <1>21, Zenon DEF Unlinked
    <3> QED  BY <1>1, <2>1, <2>2, <3>1
  <2>4. w.pg = q /\ w.t = u
    BY <2>3
  <2>5. Same(t, v, {"main"}) /\ v.main = P_INVALID
    BY <1>19, <2>1 DEF Same, IsTxn, HasFields, TxnFields
  <2>6. Same(v, u, {"free_pgs"}) /\ u.free_pgs = v.free_pgs \cup {root}
    BY <2>2, <2>5 DEF Same, IsTxn, HasFields, TxnFields
  <2>7. /\ u.next_pgno = t.next_pgno /\ u.dirty = t.dirty
        /\ u.free_pgs = t.free_pgs \cup {root} /\ u.full = t.full
        /\ u.head = t.head /\ u.pghead = t.pghead
        /\ u.pglast = t.pglast /\ u.free = t.free /\ u.main = P_INVALID
        /\ u.loose = t.loose /\ IsTxn(u)
    BY <2>5, <2>6 DEF Same, TxnFields
  <2>8. Reachable(q, P_INVALID) = {} /\ IsTree(q, P_INVALID)
    BY DEF Reachable, IsTree
  <2>9. Account(u, Valid(u.free), recs, last, n)
    <3>1. Account(t, {root} \cup Valid(t.free), recs, last, n)
      BY <1>8, <1>16, <1>21
    <3>2. Parts(Valid(t.free), t.free_pgs \cup {root}, t.loose, t.pghead,
                recs, Left(t.pglast, recs), t.next_pgno - 1)
      <4>1. root \notin Valid(t.free)
        BY <1>12, <1>15
      <4> QED  BY <3>1, <4>1 DEF Account, Parts
    <3> QED  BY <2>7, <3>1, <3>2 DEF Account
  <2>10. Agree(q, u, recs)
    BY <1>14, <2>7 DEF Agree
  <2>11. Held(q, u, P_INVALID, recs, last, n, e)
    <3>1. {} \cup Valid(u.free) = Valid(u.free)
      OBVIOUS
    <3> QED  BY <1>4, <1>19, <2>7, <2>8, <2>9, <2>10, <3>1 DEF Held, Ready
  <2>12. Partial(pg0, q, t0, u, recs, last, n, e)
    BY <1>17, <2>7 DEF Partial, UsedUp
  <2> QED  BY <2>4, <2>7, <2>11, <2>12
<1> QED  BY <1>20, <1>21

(* Deleting a key.                                                         *)
LEMMA DelAccount ==
    ASSUME NEW pg, NEW t, NEW m, NEW e, NEW k \in Key,
           IsMap(pg),
           Partial(pg, pg, t, t, Recs(pg, m.free), m.last_pg, m.txnid, e),
           Held(pg, t, t.main, Recs(pg, m.free), m.last_pg, m.txnid, e),
           t.next_pgno < MaxPgno,
           NEW c, c = Path(pg, t, e, k),
           NEW w, w = IF c.t.full THEN c ELSE Unlinked(c, k),
           NEW u, Same(w.t, u, {"puts", "found_old"})
    PROVE  ChangeMade(pg, w.pg, t, u, m, e)
<1> DEFINE recs == Recs(pg, m.free)
<1>1. PathReady(pg, t, recs, m.last_pg, m.txnid, e, k, c)
  <2> HIDE DEF recs
  <2>1. /\ Partial(pg, pg, t, t, recs, m.last_pg, m.txnid, e)
        /\ Held(pg, t, t.main, recs, m.last_pg, m.txnid, e)
    BY DEF recs
  <2> QED  BY <2>1, PathAccount
<1>2. /\ u.full = w.t.full /\ u.pglast = w.t.pglast /\ u.main = w.t.main
      /\ Same(w.t, u, OtherFields)
  BY DEF Same, TxnFields, OtherFields
<1> HIDE DEF recs
<1>3. CASE c.t.full = TRUE
  BY <1>1, <1>2, <1>3 DEF PathReady, ChangeMade, Partial, UsedUp, recs
<1>4. CASE c.t.full = FALSE
  <2>1. w = Unlinked(c, k)
    BY <1>4
  <2>2. /\ Partial(pg, w.pg, t, w.t, recs, m.last_pg, m.txnid, e)
        /\ Held(w.pg, w.t, w.t.main, recs, m.last_pg, m.txnid, e)
    BY <1>1, <1>4, <2>1, UnlinkAccount
  <2>3. Held(w.pg, u, u.main, recs, m.last_pg, m.txnid, e)
    BY <1>2, <2>2, HeldOther
  <2>4. Partial(pg, w.pg, t, u, recs, m.last_pg, m.txnid, e)
    BY <1>2, <2>2 DEF Partial, UsedUp
  <2>5. u.full \in BOOLEAN
    BY <1>2, <2>2 DEF Held, Ready
  <2> QED  BY <2>3, <2>4, <2>5 DEF ChangeMade, recs
<1> QED  BY <1>1, <1>3, <1>4 DEF PathReady

(***************************************************************************)
(* mdb_freelist_save.                                                      *)
(***************************************************************************)
(* The records of the page of the free database replaced.                  *)
SetRecs(pg, free, r) == [pg EXCEPT ![free].recs = r]

(* The page map q is pg but for the records r of the page free.            *)
RecsSet(pg, q, free, r) ==
    /\ IsMap(q)
    /\ \A i \in 2..MaxPgno : /\ i # free => q[i] = pg[i]
                             /\ q[i].kids = pg[i].kids
    /\ q[free].recs = r

(* Nothing else changes.                                                   *)
LEMMA SetRecsForm ==
    ASSUME NEW pg, IsMap(pg), NEW free, free \in 2..MaxPgno, NEW r
    PROVE  RecsSet(pg, SetRecs(pg, free, r), free, r)
<1>1. PICK o : o = pg[free]
  OBVIOUS
<1>2. PICK w : w = [o EXCEPT !.recs = r]
  OBVIOUS
<1>3. IsPage(w) /\ w.kids = o.kids /\ w.recs = r
  BY <1>1, <1>2 DEF IsMap, IsPage, HasFields, PageFields
<1>4. SetRecs(pg, free, r) = [pg EXCEPT ![free] = w]
  BY <1>1, <1>2 DEF SetRecs
<1>5. SetRecs(pg, free, r)
         = [i \in 2..MaxPgno |-> IF i = free THEN w ELSE pg[i]]
  BY <1>4 DEF IsMap
<1> HIDE DEF SetRecs
<1>6. IsMap(SetRecs(pg, free, r))
  BY <1>3, <1>5 DEF IsMap
<1> QED  BY <1>1, <1>3, <1>5, <1>6 DEF RecsSet

(* A step of mdb_freelist_save came to s; the tree is as it was when it    *)
(* began with t0 and pg0.                                                  *)
Saving(pg0, t0, recs, last, n, e, s) ==
    /\ HasFields(s, {"pg", "t"})
    /\ Partial(pg0, s.pg, t0, s.t, recs, last, n, e)
    /\ s.t.full \in BOOLEAN
    /\ s.t.head = TRUE \/ s.t.pglast = 0
    /\ s.t.full = FALSE =>
          /\ Held(s.pg, s.t, t0.main, recs, last, n, e)
          /\ s.t.main = t0.main /\ s.t.txnid = t0.txnid

(* The page of the free database is writable, unless the map is full.      *)
FreeTouched(s, c) ==
    c.t.full = FALSE =>
        /\ s.t.pglast <= c.t.pglast
        /\ \/ c.t.next_pgno <= s.t.next_pgno
           \/ s.t.free \notin s.t.dirty /\ c.t.next_pgno <= s.t.next_pgno + 1
        /\ c.t.loose \subseteq s.t.loose
        /\ c.t.free \in c.t.dirty
        /\ s.t.free_pgs \subseteq c.t.free_pgs
        /\ s.t.free # P_INVALID /\ s.t.free \notin s.t.dirty =>
              c.t.free_pgs # {}

(* Making that page writable does that.                                    *)
LEMMA TouchFreeAccount ==
    ASSUME NEW pg0, NEW t0, NEW recs, NEW last, NEW n, NEW e, NEW s,
           Saving(pg0, t0, recs, last, n, e, s), s.t.full = FALSE,
           s.t.free \in s.t.dirty \/ s.t.next_pgno <= MaxPgno,
           NEW c, c = TouchFree(s, e)
    PROVE  Saving(pg0, t0, recs, last, n, e, c) /\ FreeTouched(s, c)
<1> DEFINE root == t0.main
           use == Reachable(s.pg, root) \cup Valid(s.t.free)
<1>1. PICK free : free = s.t.free
  OBVIOUS
<1>2. PICK a : a = page_touch(s.pg, s.t, e, free)
  OBVIOUS
<1>3. /\ Partial(pg0, s.pg, t0, s.t, recs, last, n, e)
      /\ Held(s.pg, s.t, root, recs, last, n, e)
      /\ s.t.main = root /\ s.t.txnid = t0.txnid
  BY DEF Saving
<1>4. Ready(s.pg, s.t, use, recs, last, n, e)
  BY <1>3 DEF Held
<1>5. free = P_INVALID \/ free \in use
  BY <1>1 DEF Valid
<1>6. Touched(s.pg, s.t, use, recs, last, n, e, free, a)
  <2>1. free \in s.t.dirty \/ s.t.next_pgno <= MaxPgno
    BY <1>1
  <2>2. IsMap(s.pg)
    BY <1>3 DEF Partial
  <2> HIDE DEF use
  <2> QED  BY <1>2, <1>4, <1>5, <2>1, <2>2, TouchAccount
<1>7. Partial(pg0, a.pg, t0, a.t, recs, last, n, e)
  <2> HIDE DEF use
  <2> QED  BY <1>3, <1>4, <1>6, TouchPartial
<1>8. CASE a.t.full = TRUE
  <2>1. c = [pg |-> a.pg, t |-> a.t]
    BY <1>1, <1>2, <1>8 DEF TouchFree
  <2>2. c.pg = a.pg /\ c.t = a.t /\ HasFields(c, {"pg", "t"})
    BY <2>1 DEF HasFields
  <2>3. a.t.head = TRUE \/ a.t.pglast = 0
    BY <1>6, <1>8 DEF Touched, Account
  <2> QED  BY <1>7, <1>8, <2>2, <2>3 DEF Saving, FreeTouched
<1>9. CASE a.t.full = FALSE
  <2>1. PICK np : np = a.np
    OBVIOUS
  <2>2. PICK u : u = [a.t EXCEPT !.free = np]
    OBVIOUS
  <2>3. c = [pg |-> a.pg, t |-> u]
    BY <1>1, <1>2, <1>9, <2>1, <2>2 DEF TouchFree
  <2>4. c.pg = a.pg /\ c.t = u /\ HasFields(c, {"pg", "t"})
    BY <2>3 DEF HasFields
  <2>5. /\ Same(s.t, a.t, AllocFields \cup {"free_pgs"})
        /\ a.t.head \in BOOLEAN
        /\ UsedUp(s.t, a.t, e.pgoldest)
        /\ Agree(s.pg, a.t, recs)
        /\ a.t.loose \subseteq s.t.loose
        /\ \/ a.t.next_pgno <= s.t.next_pgno
           \/ free \notin s.t.dirty /\ a.t.next_pgno <= s.t.next_pgno + 1
        /\ IsMap(a.pg)
        /\ Account(a.t, (use \ {free}) \cup {np}, recs, last, n)
        /\ np = free \/ np \notin use
        /\ np \in 2..MaxPgno /\ np \in a.t.dirty
        /\ \A i \in 2..MaxPgno :
              a.pg[i] = IF i = np THEN Copy(s.pg, free) ELSE s.pg[i]
        /\ a.t.free_pgs = s.t.free_pgs
                          \cup (IF free \in s.t.dirty THEN {} ELSE Valid(free))
    BY <1>6, <1>9, <2>1 DEF Touched
  <2>6. Same(a.t, u, {"free"}) /\ u.free = np
    BY <2>2, <2>5 DEF Same, IsTxn, HasFields, TxnFields
  <2>7. /\ u.next_pgno = a.t.next_pgno /\ u.dirty = a.t.dirty
        /\ u.free_pgs = a.t.free_pgs /\ u.full = FALSE
        /\ u.head = a.t.head /\ u.pghead = a.t.pghead
        /\ u.pglast = a.t.pglast /\ u.main = root
        /\ u.txnid = t0.txnid /\ u.loose = a.t.loose /\ IsTxn(u)
    BY <1>3, <1>9, <2>5, <2>6 DEF Same, TxnFields, AllocFields
  <2>8. np # P_INVALID /\ np \in Nat
    BY <2>5, BoundsAssumption DEF P_INVALID
  <2>9. free \notin Reachable(s.pg, root)
    BY <1>1, <1>3 DEF Held
  <2>10. np \notin Reachable(s.pg, root)
    BY <2>5, <2>9
  <2>11. /\ Reachable(a.pg, root) = Reachable(s.pg, root)
         /\ IsTree(a.pg, root)
    <3>1. root = P_INVALID \/ (root \in 2..MaxPgno /\ root # np)
      <4>1. \A i \in Reachable(s.pg, root) : i \in 2..MaxPgno
        BY <1>3, HeldPages
      <4>2. root = P_INVALID \/ root \in Reachable(s.pg, root)
        BY DEF Reachable
      <4> QED  BY <2>10, <4>1, <4>2
    <3>2. root = P_INVALID \/ a.pg[root].kids = s.pg[root].kids
      BY <2>5, <3>1
    <3> QED  BY <1>3, <3>2, SameTree DEF Held
  <2>12. Account(u, Reachable(a.pg, root) \cup Valid(np), recs, last, n)
    <3>1. (use \ {free}) \cup {np} = Reachable(a.pg, root) \cup Valid(np)
      BY <1>1, <2>8, <2>9, <2>11 DEF Valid
    <3> QED  BY <2>5, <2>7, <3>1 DEF Account
  <2>13. Agree(a.pg, u, recs)
    <3>1. a.pg[np] = Copy(s.pg, free)
      BY <2>5
    <3>2. Recs(a.pg, np) = Recs(s.pg, free)
      BY <2>8, <3>1, NoPageForm DEF Recs, Copy
    <3>3. a.t.free = free
      BY <1>1, <2>5 DEF Same, TxnFields, AllocFields
    <3> QED  BY <2>5, <2>6, <2>7, <3>2, <3>3 DEF Agree
  <2>14. Held(a.pg, u, root, recs, last, n, e)
    BY <1>3, <1>4, <2>5, <2>6, <2>7, <2>8, <2>10, <2>11, <2>12, <2>13
       DEF Held, Ready
  <2>15. Partial(pg0, a.pg, t0, u, recs, last, n, e)
    BY <1>7, <2>7 DEF Partial, UsedUp
  <2>16. FreeTouched(s, c)
    <3>1. free # P_INVALID /\ free \notin s.t.dirty => free \in a.t.free_pgs
      BY <2>5 DEF Valid
    <3> QED  BY <1>1, <2>4, <2>5, <2>6, <2>7, <3>1 DEF FreeTouched, UsedUp
  <2>17. u.head = TRUE \/ u.pglast = 0
    BY <2>5, <2>7 DEF Account
  <2> QED  BY <2>4, <2>7, <2>14, <2>15, <2>16, <2>17 DEF Saving
<1> QED  BY <1>6, <1>8, <1>9 DEF Touched

(* What mdb_freelist_save has before it saves the pages it frees: the page *)
(* of the free database is writable where records are to be dropped.       *)
Settled(s) ==
    s.t.full = FALSE =>
        /\ s.t.pglast = 0 \/ s.t.free \in s.t.dirty
        /\ s.t.next_pgno <= MaxPgno
        /\ s.t.head = FALSE => s.t.loose = {}
        /\ s.t.free_pgs # {}

(* Fields that a step on the records leaves.                               *)
SameCounts(s, c) ==
    /\ c.t.full = FALSE /\ c.t.next_pgno = s.t.next_pgno
    /\ c.t.pglast = s.t.pglast /\ c.t.head = s.t.head
    /\ s.t.free_pgs \subseteq c.t.free_pgs

(* What freeing the loose pages, and deleting records, comes to.           *)
Loosened(pg0, t0, recs, last, n, e, s, c) ==
    /\ Saving(pg0, t0, recs, last, n, e, c) /\ SameCounts(s, c)
    /\ c.t.loose = {} /\ c.t.free = s.t.free

Deleted(pg0, t0, recs, last, n, e, s, c) ==
    /\ Saving(pg0, t0, recs, last, n, e, c) /\ SameCounts(s, c)
    /\ c.t.loose = s.t.loose

(* The loose pages are freed when me_pghead was never filled.              *)
LEMMA LooseAccount ==
    ASSUME NEW pg0, NEW t0, NEW recs, NEW last, NEW n, NEW e, NEW s,
           Saving(pg0, t0, recs, last, n, e, s), s.t.full = FALSE,
           s.t.head = FALSE, NEW c, c = LooseToFreed(s)
    PROVE  Loosened(pg0, t0, recs, last, n, e, s, c)
<1>1. /\ Partial(pg0, s.pg, t0, s.t, recs, last, n, e)
      /\ Held(s.pg, s.t, t0.main, recs, last, n, e)
      /\ s.t.main = t0.main /\ s.t.txnid = t0.txnid
      /\ HasFields(s, {"pg", "t"})
  BY DEF Saving
<1>2. PICK v : v = [s.t EXCEPT !.free_pgs = s.t.free_pgs \cup s.t.loose]
  OBVIOUS
<1>3. PICK u : u = [v EXCEPT !.loose = {}]
  OBVIOUS
<1>4. c = [s EXCEPT !.t = u]
  <2>1. c = [s EXCEPT !.t.free_pgs = @ \cup s.t.loose, !.t.loose = {}]
    BY DEF LooseToFreed
  <2>2. PICK b : b = [s EXCEPT !.t = v]
    OBVIOUS
  <2>3. b.t = v /\ HasFields(b, {"pg", "t"}) /\ b.pg = s.pg
    BY <1>1, <2>2 DEF HasFields
  <2>4. c = [b EXCEPT !.t.loose = {}]
    BY <1>2, <2>1, <2>2
  <2>5. c = [b EXCEPT !.t = u]
    BY <1>3, <2>3, <2>4
  <2> QED  BY <1>1, <2>2, <2>3, <2>5 DEF HasFields
<1>5. c.t = u /\ c.pg = s.pg /\ HasFields(c, {"pg", "t"})
  BY <1>1, <1>4 DEF HasFields
<1>6. Same(s.t, v, {"free_pgs"}) /\ v.free_pgs = s.t.free_pgs \cup s.t.loose
  BY <1>1, <1>2 DEF Held, Ready, Same, IsTxn, HasFields, TxnFields
<1>7. Same(v, u, {"loose"}) /\ u.loose = {}
  BY <1>3, <1>6 DEF Same, IsTxn, HasFields, TxnFields
<1>8. /\ u.next_pgno = s.t.next_pgno /\ u.dirty = s.t.dirty
      /\ u.free_pgs = s.t.free_pgs \cup s.t.loose /\ u.full = s.t.full
      /\ u.head = s.t.head /\ u.pghead = s.t.pghead
      /\ u.pglast = s.t.pglast /\ u.main = s.t.main /\ u.free = s.t.free
      /\ u.txnid = s.t.txnid /\ IsTxn(u)
  BY <1>6, <1>7 DEF Same, TxnFields
<1>9. PICK use : use = Reachable(s.pg, t0.main) \cup Valid(s.t.free)
  OBVIOUS
<1>10. Account(u, use, recs, last, n)
  <2>1. Account(s.t, use, recs, last, n)
    BY <1>1, <1>9 DEF Held, Ready
  <2>2. Parts(use, s.t.free_pgs \cup s.t.loose, {}, s.t.pghead, recs,
              Left(s.t.pglast, recs), s.t.next_pgno - 1)
    BY <2>1 DEF Account, Parts
  <2> QED  BY <1>7, <1>8, <2>1, <2>2 DEF Account
<1>11. Agree(s.pg, u, recs)
  BY <1>1, <1>8 DEF Held, Ready, Agree
<1>12. Held(s.pg, u, t0.main, recs, last, n, e)
  BY <1>1, <1>8, <1>9, <1>10, <1>11 DEF Held, Ready
<1>13. Partial(pg0, s.pg, t0, u, recs, last, n, e)
  BY <1>1, <1>8 DEF Partial, UsedUp
<1> QED  BY <1>1, <1>5, <1>7, <1>8, <1>12, <1>13
        DEF Saving, SameCounts, Loosened

(* The step from s to c writes the records r of the free database.         *)
Rewritten(s, c, r) ==
    /\ HasFields(c, {"pg", "t"}) /\ c.t = s.t
    /\ RecsSet(s.pg, c.pg, s.t.free, r)

(* Then the tree below the root, and what is not to be written to, stay.   *)
TreeStays(pg0, t0, recs, last, n, e, s, c, r) ==
    /\ Partial(pg0, c.pg, t0, c.t, recs, last, n, e)
    /\ Reachable(c.pg, t0.main) = Reachable(s.pg, t0.main)
    /\ IsTree(c.pg, t0.main)
    /\ Recs(c.pg, c.t.free) = r
    /\ s.t.free \in 2..MaxPgno

(* They do.                                                                *)
LEMMA RewriteAccount ==
    ASSUME NEW pg0, NEW t0, NEW recs, NEW last, NEW n, NEW e, NEW s,
           Saving(pg0, t0, recs, last, n, e, s), s.t.full = FALSE,
           s.t.free \in s.t.dirty, NEW c, NEW r, Rewritten(s, c, r)
    PROVE  TreeStays(pg0, t0, recs, last, n, e, s, c, r)
<1>1. /\ Partial(pg0, s.pg, t0, s.t, recs, last, n, e)
      /\ Held(s.pg, s.t, t0.main, recs, last, n, e)
  BY DEF Saving
<1>2. Ours(s.t.pglast, recs, last, s.t.free)
  BY <1>1 DEF Held, Ready, Account
<1>3. s.t.free # P_INVALID
  <2>1. ~ Ours(s.t.pglast, recs, last, P_INVALID)
    BY <1>1 DEF Ours, Held, Ready, Base, P_INVALID
  <2> QED  BY <1>2, <2>1
<1>4. \A i \in Reachable(s.pg, t0.main) \cup Valid(s.t.free) : i \in 2..MaxPgno
  BY <1>1, HeldPages
<1>5. s.t.free \in 2..MaxPgno
  BY <1>3, <1>4 DEF Valid
<1>6. t0.main = P_INVALID \/ c.pg[t0.main].kids = s.pg[t0.main].kids
  <2>1. t0.main = P_INVALID \/ t0.main \in Reachable(s.pg, t0.main)
    BY DEF Reachable
  <2>2. \A i \in 2..MaxPgno : c.pg[i].kids = s.pg[i].kids
    BY DEF Rewritten, RecsSet
  <2> QED  BY <1>4, <2>1, <2>2
<1>7. /\ Reachable(c.pg, t0.main) = Reachable(s.pg, t0.main)
      /\ IsTree(c.pg, t0.main)
  BY <1>1, <1>6, SameTree DEF Held
<1>8. Partial(pg0, c.pg, t0, c.t, recs, last, n, e)
  BY <1>1, <1>2 DEF Partial, Spared, UsedUp, Rewritten, RecsSet
<1>9. Recs(c.pg, c.t.free) = r
  BY <1>3 DEF Recs, Rewritten, RecsSet
<1> QED  BY <1>5, <1>7, <1>8, <1>9 DEF TreeStays

(* The records used up are deleted, and with the last record the page.     *)
LEMMA DeleteAccount ==
    ASSUME NEW pg0, NEW t0, NEW recs, NEW last, NEW n, NEW e, NEW s,
           Saving(pg0, t0, recs, last, n, e, s), s.t.full = FALSE,
           s.t.pglast = 0 \/ s.t.free \in s.t.dirty,
           NEW c, c = DeleteUsed(s)
    PROVE  Deleted(pg0, t0, recs, last, n, e, s, c)
<1> USE DEF Deleted
<1>1. /\ Partial(pg0, s.pg, t0, s.t, recs, last, n, e)
      /\ Held(s.pg, s.t, t0.main, recs, last, n, e)
      /\ s.t.main = t0.main /\ s.t.txnid = t0.txnid
      /\ HasFields(s, {"pg", "t"})
  BY DEF Saving
<1>2. CASE Used(s) = {}
  <2>1. c = s
    BY <1>2, Zenon DEF DeleteUsed
  <2> QED  BY <1>1, <2>1 DEF SameCounts
<1>3. CASE Used(s) # {}
  <2>1. PICK R : R = Recs(s.pg, s.t.free)
    OBVIOUS
  <2>2. PICK free : free = s.t.free
    OBVIOUS
  <2>3. DOMAIN R \subseteq Nat \ {0} /\ s.t.pglast \in Nat
    BY <1>1, <2>1 DEF Held, Ready, Agree, Account
  <2>4. Used(s) = {i \in DOMAIN R : i <= s.t.pglast}
    BY <2>1 DEF Used
  <2>5. s.t.pglast # 0
    BY <1>3, <2>3, <2>4
  <2>6. free \in s.t.dirty
    BY <2>2, <2>5
  <2>7. PICK left : left = DOMAIN R \ Used(s)
    OBVIOUS
  <2>8. left = Left(s.t.pglast, R)
    BY <2>3, <2>4, <2>7 DEF Left
  <2>9. Left(s.t.pglast, R) = Left(s.t.pglast, recs)
    BY <1>1, <2>1 DEF Held, Ready, Agree
  <2>10. CASE left = {}
    <3>1. PICK v : v = [s.t EXCEPT !.free = P_INVALID]
      OBVIOUS
    <3>2. PICK u : u = [v EXCEPT !.free_pgs = s.t.free_pgs \cup {free}]
      OBVIOUS
    <3>3. Same(s.t, v, {"free"}) /\ v.free = P_INVALID
      BY <1>1, <3>1 DEF Held, Ready, Same, IsTxn, HasFields, TxnFields
    <3>4. Same(v, u, {"free_pgs"}) /\ u.free_pgs = s.t.free_pgs \cup {free}
      BY <3>2, <3>3 DEF Same, IsTxn, HasFields, TxnFields
    <3>5. c.t = u /\ c.pg = s.pg /\ HasFields(c, {"pg", "t"})
      <4>1. c = [s EXCEPT !.t.free = P_INVALID,
                          !.t.free_pgs = @ \cup {s.t.free}]
        BY <1>3, <2>1, <2>7, <2>10 DEF DeleteUsed
      <4>2. IsTxn(s.t)
        BY <1>1 DEF Held, Ready
      <4> QED  BY <1>1, <2>2, <3>1, <3>2, <4>1, <4>2
               DEF HasFields, IsTxn, TxnFields
    <3>6. /\ u.next_pgno = s.t.next_pgno /\ u.dirty = s.t.dirty
          /\ u.full = s.t.full /\ u.loose = s.t.loose
          /\ u.head = s.t.head /\ u.pghead = s.t.pghead
          /\ u.pglast = s.t.pglast /\ u.main = s.t.main
          /\ u.free = P_INVALID /\ u.txnid = s.t.txnid /\ IsTxn(u)
      BY <3>3, <3>4 DEF Same, TxnFields
    <3>7. free # P_INVALID
      BY <1>3, <2>1, <2>2, <2>4 DEF Recs, EmptyRecs
    <3>8. PICK tree : tree = Reachable(s.pg, t0.main)
      OBVIOUS
    <3>9. Account(u, tree, recs, last, n)
      <4>1. Account(s.t, tree \cup {free}, recs, last, n) /\ free \notin tree
        BY <1>1, <2>2, <3>7, <3>8 DEF Held, Ready, Valid
      <4>2. Parts(tree, s.t.free_pgs \cup {free}, s.t.loose, s.t.pghead, recs,
                  Left(s.t.pglast, recs), s.t.next_pgno - 1)
        BY <4>1 DEF Account, Parts
      <4> QED  BY <3>4, <3>6, <4>1, <4>2 DEF Account
    <3>10. Agree(s.pg, u, recs)
      <4>1. Recs(s.pg, u.free) = EmptyRecs
        BY <3>6 DEF Recs
      <4>2. Left(u.pglast, recs) = {} /\ Left(u.pglast, EmptyRecs) = {}
        BY <2>8, <2>9, <2>10, <3>6 DEF Left, EmptyRecs
      <4>3. DOMAIN EmptyRecs = {}
        BY DEF EmptyRecs
      <4> QED  BY <4>1, <4>2, <4>3 DEF Agree
    <3>11. tree \cup Valid(u.free) = tree
      BY <3>6 DEF Valid
    <3>12. P_INVALID \in Nat /\ P_INVALID \notin tree
      <4>1. \A i \in tree : i \in 2..MaxPgno
        BY <1>1, <3>8, HeldPages
      <4> QED  BY <4>1, BoundsAssumption DEF P_INVALID
    <3>13. Held(s.pg, u, t0.main, recs, last, n, e)
      BY <1>1, <3>6, <3>8, <3>9, <3>10, <3>11, <3>12 DEF Held, Ready
    <3>14. Partial(pg0, s.pg, t0, u, recs, last, n, e)
      BY <1>1, <3>6 DEF Partial, UsedUp
    <3> QED  BY <1>1, <3>4, <3>5, <3>6, <3>13, <3>14 DEF Saving, SameCounts
  <2>11. CASE left # {}
    <3>1. PICK r : r = [i \in left |-> R[i]]
      OBVIOUS
    <3>2. PICK q : q = SetRecs(s.pg, free, r)
      OBVIOUS
    <3>3. c = [s EXCEPT !.pg = q]
      <4>1. c = [s EXCEPT !.pg[s.t.free].recs = [i \in left |-> R[i]]]
        BY <1>3, <2>1, <2>7, <2>11 DEF DeleteUsed
      <4> QED  BY <2>2, <3>1, <3>2, <4>1 DEF SetRecs
    <3>4. c.t = s.t /\ c.pg = q /\ HasFields(c, {"pg", "t"})
      BY <1>1, <3>3 DEF HasFields
    <3>5. free \in 2..MaxPgno
      <4>1. free # P_INVALID
        BY <1>3, <2>1, <2>2, <2>4 DEF Recs, EmptyRecs
      <4> QED  BY <1>1, <2>2, <4>1, HeldPages DEF Valid
    <3>6. Rewritten(s, c, r)
      BY <1>1, <2>2, <3>2, <3>4, <3>5, SetRecsForm DEF Partial, Rewritten
    <3>7. TreeStays(pg0, t0, recs, last, n, e, s, c, r)
      <4>1. s.t.free \in s.t.dirty
        BY <2>2, <2>6
      <4> QED  BY <3>6, <4>1, RewriteAccount
    <3>8. Agree(c.pg, c.t, recs)
      <4>1. Agree(s.pg, s.t, recs)
        BY <1>1 DEF Held, Ready
      <4>2. DOMAIN r = left /\ \A i \in left : r[i] = R[i]
        BY <3>1
      <4>3. Left(s.t.pglast, r) = left
        BY <2>8, <4>2 DEF Left
      <4>4. left \subseteq Nat \ {0}
        BY <2>3, <2>7
      <4> QED  BY <2>1, <2>8, <2>9, <3>4, <3>7, <4>1, <4>2, <4>3, <4>4
               DEF Agree, TreeStays
    <3>9. Held(c.pg, c.t, t0.main, recs, last, n, e)
      BY <1>1, <3>4, <3>7, <3>8 DEF Held, Ready, TreeStays
    <3> QED  BY <1>1, <3>4, <3>7, <3>9 DEF Saving, SameCounts, TreeStays
  <2> QED  BY <2>10, <2>11
<1> QED  BY <1>2, <1>3

(* Storing a record writes the page of the free database.                  *)
LEMMA PutRecordForm ==
    ASSUME NEW s, HasFields(s, {"pg", "t"}), IsMap(s.pg),
           s.t.free \in 2..MaxPgno, NEW id, NEW pgs, NEW o,
           o = s.pg[s.t.free].recs, NEW r,
           r = [i \in DOMAIN o \cup {id} |-> IF i = id THEN pgs ELSE o[i]]
    PROVE  Rewritten(s, PutRecord(s, id, pgs), r)
<1>1. PICK q : q = SetRecs(s.pg, s.t.free, r)
  OBVIOUS
<1>2. PICK c : c = PutRecord(s, id, pgs)
  OBVIOUS
<1>3. c = [s EXCEPT !.pg = q]
  <2>1. c = [s EXCEPT !.pg[s.t.free].recs =
                [i \in DOMAIN o \cup {id} |-> IF i = id THEN pgs ELSE o[i]]]
    BY <1>2 DEF PutRecord
  <2> QED  BY <1>1, <2>1 DEF SetRecs
<1>4. c.t = s.t /\ c.pg = q /\ HasFields(c, {"pg", "t"})
  BY <1>3 DEF HasFields
<1>5. RecsSet(s.pg, q, s.t.free, r)
  BY <1>1, SetRecsForm
<1> QED  BY <1>2, <1>4, <1>5 DEF Rewritten

(* Two writes to that page are one.                                        *)
LEMMA RewrittenTwice ==
    ASSUME NEW s, NEW b, NEW c, NEW r, NEW o,
           Rewritten(s, b, o), Rewritten(b, c, r)
    PROVE  Rewritten(s, c, r)
BY DEF Rewritten, RecsSet

(* The records that mdb_freelist_save leaves: those that were not used up, *)
(* the pages freed by transaction id, and what is left of me_pghead.       *)
NewRecs(r, recs, g, id, freed, rest) ==
    /\ DOMAIN r = Left(g, recs) \cup {id}
                  \cup (IF rest = {} THEN {} ELSE {g})
    /\ r[id] = freed
    /\ rest # {} => r[g] = rest
    /\ \A j \in Left(g, recs) : r[j] = recs[j]

(* The pages of a committed state and its records, as the next transaction *)
(* u with the pages q stores them.                                         *)
FreeSaved(q, u, recs, last, free) ==
    /\ Intact(q, u.main, u.free, u.next_pgno - 1, u.txnid)
    /\ u.next_pgno \in Nat /\ last < u.next_pgno
    /\ \A i \in 2..last :
          (i # free /\ \A j \in DOMAIN recs : i \notin recs[j]) =>
             \/ i \in Reachable(q, u.main)
             \/ /\ u.txnid \in DOMAIN Recs(q, u.free)
                /\ i \in Recs(q, u.free)[u.txnid]
    /\ \A j \in Left(u.pglast, recs) :
          /\ j \in DOMAIN Recs(q, u.free)
          /\ Recs(q, u.free)[j] = recs[j]

(* What mdb_freelist_save comes to.                                        *)
AllSaved(pg0, t0, recs, last, n, e, free, c) ==
    /\ Partial(pg0, c.pg, t0, c.t, recs, last, n, e)
    /\ c.t.full \in BOOLEAN
    /\ c.t.full = FALSE => FreeSaved(c.pg, c.t, recs, last, free)

(* Storing the records gives the next committed state.                     *)
LEMMA SaveAccount ==
    ASSUME NEW pg0, NEW t0, NEW recs, NEW last, NEW n, NEW e, NEW s,
           Saving(pg0, t0, recs, last, n, e, s), s.t.full = FALSE,
           s.t.free \in s.t.dirty, s.t.free_pgs # {},
           s.t.head = FALSE => s.t.loose = {},
           t0.txnid = n + 1,
           NEW free,
           NEW c, c = SaveHead(DeleteUsed(SaveFreed(s)))
    PROVE  AllSaved(pg0, t0, recs, last, n, e, free, c)
<1>1. /\ Partial(pg0, s.pg, t0, s.t, recs, last, n, e)
      /\ Held(s.pg, s.t, t0.main, recs, last, n, e)
      /\ s.t.main = t0.main /\ s.t.txnid = t0.txnid
      /\ HasFields(s, {"pg", "t"}) /\ IsMap(s.pg)
  BY DEF Saving, Partial
<1>2. PICK g : g = s.t.pglast
  OBVIOUS
<1>3. PICK id : id = s.t.txnid
  OBVIOUS
<1>4. PICK R : R = Recs(s.pg, s.t.free)
  OBVIOUS
<1>5. PICK rest : rest = s.t.pghead \cup s.t.loose
  OBVIOUS
<1>6. /\ Base(recs, last, n) /\ Agree(s.pg, s.t, recs)
      /\ Account(s.t, Reachable(s.pg, t0.main) \cup Valid(s.t.free),
                 recs, last, n)
      /\ s.t.head \in BOOLEAN
  BY <1>1 DEF Held, Ready
<1>7. Ours(g, recs, last, s.t.free)
  BY <1>2, <1>6 DEF Account
<1>8. s.t.free # P_INVALID /\ s.t.free \in 2..MaxPgno
  <2>1. ~ Ours(g, recs, last, P_INVALID)
    BY <1>6 DEF Ours, Base, P_INVALID
  <2>2. s.t.free # P_INVALID
    BY <1>7, <2>1
  <2>3. \A i \in Reachable(s.pg, t0.main) \cup Valid(s.t.free) :
           i \in 2..MaxPgno
    BY <1>1, HeldPages
  <2> QED  BY <2>2, <2>3 DEF Valid
<1>9. /\ g \in Nat /\ g < id /\ id = n + 1 /\ n \in Nat
      /\ Left(g, recs) \subseteq 1..n
      /\ rest # {} => g \in 1..n
  <2>1. g \in Nat /\ (g = 0 \/ g < n) /\ n \in Nat
    BY <1>2, <1>6 DEF Account, Base
  <2>2. id = n + 1
    BY <1>1, <1>3
  <2>3. Left(g, recs) \subseteq 1..n
    BY <1>6 DEF Left, Base
  <2>4. rest # {} => g \in 1..n
    <3>1. s.t.head = FALSE => s.t.pghead = {}
      BY <1>6 DEF Account
    <3>2. s.t.head = TRUE => g \in 1..n
      BY <1>2, <1>6 DEF Account, Base
    <3> QED  BY <1>5, <1>6, <3>1, <3>2
  <2> QED  BY <2>1, <2>2, <2>3, <2>4
<1>10. /\ R = s.pg[s.t.free].recs
       /\ DOMAIN R \subseteq Nat \ {0} /\ Left(g, R) = Left(g, recs)
       /\ \A j \in Left(g, recs) : R[j] = recs[j]
  BY <1>2, <1>4, <1>6, <1>8 DEF Recs, Agree
<1>11. PICK r1 : r1 = [i \in DOMAIN R \cup {id} |->
                          IF i = id THEN s.t.free_pgs ELSE R[i]]
  OBVIOUS
<1>12. PICK s1 : s1 = SaveFreed(s)
  OBVIOUS
<1>13. Rewritten(s, s1, r1)
  <2>1. s1 = PutRecord(s, id, s.t.free_pgs)
    BY <1>3, <1>12 DEF SaveFreed
  <2> QED  BY <1>1, <1>8, <1>10, <1>11, <2>1, PutRecordForm
<1>14. s1.t = s.t /\ HasFields(s1, {"pg", "t"}) /\ IsMap(s1.pg)
       /\ Recs(s1.pg, s1.t.free) = r1
  BY <1>8, <1>13 DEF Rewritten, RecsSet, Recs
<1>15. PICK s2 : s2 = DeleteUsed(s1)
  OBVIOUS
<1>16. \E r2 : Rewritten(s, s2, r2)
               /\ NewRecs(r2, recs, g, id, s.t.free_pgs, {})
  <2>1. DOMAIN r1 = DOMAIN R \cup {id} /\ r1[id] = s.t.free_pgs
        /\ \A j \in Left(g, recs) : r1[j] = recs[j]
    BY <1>9, <1>10, <1>11 DEF Left
  <2>2. PICK used : used = {i \in DOMAIN r1 : i <= g}
    OBVIOUS
  <2>3. Used(s1) = used
    BY <1>2, <1>14, <2>2 DEF Used
  <2>4. DOMAIN r1 \ used = Left(g, recs) \cup {id}
    <3>1. \A i \in DOMAIN R : i > g <=> i \in Left(g, recs)
      BY <1>10 DEF Left
    <3>2. \A i \in DOMAIN R : ~ (i <= g) <=> i > g
      BY <1>9, <1>10
    <3>3. Left(g, recs) \subseteq DOMAIN R
      BY <1>10 DEF Left
    <3> QED  BY <1>9, <2>1, <2>2, <3>1, <3>2, <3>3
  <2>5. CASE used = {}
    <3>1. s2 = s1
      BY <1>15, <2>3, <2>5, Zenon DEF DeleteUsed
    <3>2. NewRecs(r1, recs, g, id, s.t.free_pgs, {})
      BY <2>1, <2>4, <2>5 DEF NewRecs
    <3> QED  BY <1>13, <3>1, <3>2
  <2>6. CASE used # {}
    <3>1. PICK left : left = DOMAIN r1 \ used
      OBVIOUS
    <3>2. left # {}
      BY <2>4, <3>1
    <3>3. PICK r2 : r2 = [i \in left |-> r1[i]]
      OBVIOUS
    <3>4. PICK q : q = SetRecs(s1.pg, s1.t.free, r2)
      OBVIOUS
    <3>5. s2 = [s1 EXCEPT !.pg = q]
      <4>1. s1.t.full = FALSE
        BY <1>14
      <4>2. s2 = [s1 EXCEPT !.pg[s1.t.free].recs = [i \in left |-> r1[i]]]
        BY <1>14, <1>15, <2>3, <2>6, <3>1, <3>2, <4>1 DEF DeleteUsed
      <4> QED  BY <3>3, <3>4, <4>2 DEF SetRecs
    <3>6. s2.t = s1.t /\ s2.pg = q /\ HasFields(s2, {"pg", "t"})
      BY <1>14, <3>5 DEF HasFields
    <3>7. RecsSet(s1.pg, q, s1.t.free, r2)
      BY <1>8, <1>14, <3>4, SetRecsForm
    <3>8. Rewritten(s1, s2, r2)
      BY <3>6, <3>7 DEF Rewritten
    <3>9. Rewritten(s, s2, r2)
      BY <1>13, <3>8, RewrittenTwice
    <3>10. NewRecs(r2, recs, g, id, s.t.free_pgs, {})
      BY <2>1, <2>4, <3>1, <3>3 DEF NewRecs
    <3> QED  BY <3>9, <3>10
  <2> QED  BY <2>5, <2>6
<1>17. PICK r2 : Rewritten(s, s2, r2)
                 /\ NewRecs(r2, recs, g, id, s.t.free_pgs, {})
  BY <1>16
<1>18. \E r : Rewritten(s, c, r) /\ NewRecs(r, recs, g, id, s.t.free_pgs, rest)
  <2>1. s2.t = s.t /\ HasFields(s2, {"pg", "t"}) /\ IsMap(s2.pg)
        /\ s2.pg[s2.t.free].recs = r2
    BY <1>17 DEF Rewritten, RecsSet
  <2>2. c = SaveHead(s2)
    BY <1>12, <1>15
  <2>3. CASE rest = {}
    <3>1. c = s2
      BY <1>5, <2>1, <2>2, <2>3, Zenon DEF SaveHead
    <3> QED  BY <1>17, <2>3, <3>1
  <2>4. CASE rest # {}
    <3>1. c = PutRecord(s2, g, rest)
      <4>1. s2.t.full = FALSE
        BY <2>1
      <4>2. s2.t.pghead \cup s2.t.loose = rest /\ s2.t.pglast = g
        BY <1>2, <1>5, <2>1
      <4> QED  BY <2>2, <2>4, <4>1, <4>2 DEF SaveHead
    <3>2. PICK r : r = [i \in DOMAIN r2 \cup {g} |->
                           IF i = g THEN rest ELSE r2[i]]
      OBVIOUS
    <3>3. Rewritten(s2, c, r)
      BY <1>8, <2>1, <3>1, <3>2, PutRecordForm
    <3>4. Rewritten(s, c, r)
      BY <1>17, <3>3, RewrittenTwice
    <3>5. NewRecs(r, recs, g, id, s.t.free_pgs, rest)
      <4>1. g # id /\ g \notin Left(g, recs)
        BY <1>9 DEF Left
      <4> QED  BY <1>17, <2>4, <3>2, <4>1 DEF NewRecs
    <3> QED  BY <3>4, <3>5
  <2> QED  BY <2>3, <2>4
<1>19. PICK r : Rewritten(s, c, r)
                /\ NewRecs(r, recs, g, id, s.t.free_pgs, rest)
  BY <1>18
<1>20. TreeStays(pg0, t0, recs, last, n, e, s, c, r)
  BY <1>19, RewriteAccount
<1>21. c.t = s.t /\ Recs(c.pg, c.t.free) = r
  BY <1>19, <1>20 DEF Rewritten, TreeStays
<1>22. PICK tree : tree = Reachable(s.pg, t0.main)
  OBVIOUS
<1>23. PICK left : left = Left(g, recs)
  OBVIOUS
<1>24. Parts(tree \cup Valid(s.t.free), s.t.free_pgs, s.t.loose, s.t.pghead,
             recs, left, s.t.next_pgno - 1)
  BY <1>2, <1>6, <1>22, <1>23 DEF Account
<1>25. /\ DOMAIN r = left \cup {id} \cup (IF rest = {} THEN {} ELSE {g})
       /\ r[id] = s.t.free_pgs
       /\ rest # {} => r[g] = rest
       /\ \A j \in left : r[j] = recs[j]
  BY <1>19, <1>23 DEF NewRecs
<1>26. /\ id \notin left /\ g \notin left /\ id # g
       /\ \A j \in DOMAIN r : j \in 1..id
  BY <1>9, <1>23, <1>25 DEF Left
<1>27. Parts(tree \cup Valid(s.t.free), {}, {}, {}, r, DOMAIN r,
             s.t.next_pgno - 1)
  BY <1>5, <1>24, <1>25, <1>26 DEF Parts
<1>28. FreeSaved(c.pg, c.t, recs, last, free)
  <2>1. Intact(c.pg, c.t.main, c.t.free, c.t.next_pgno - 1, c.t.txnid)
    <3>1. /\ s.t.next_pgno \in Nat /\ last \in Nat /\ 1 <= last
          /\ last < s.t.next_pgno /\ s.t.next_pgno <= MaxPgno + 1
      BY <1>6 DEF Account, Base
    <3>2. /\ s.t.next_pgno - 1 \in Nat /\ 1 <= s.t.next_pgno - 1
          /\ s.t.next_pgno - 1 <= MaxPgno
      BY <3>1, BoundsAssumption
    <3>3. /\ t0.main \in Nat /\ s.t.free \in Nat
          /\ s.t.free \notin Reachable(s.pg, t0.main)
      BY <1>1 DEF Held
    <3> QED  BY <1>1, <1>3, <1>20, <1>21, <1>22, <1>26, <1>27, <3>2, <3>3
             DEF Intact, TreeStays
  <2>2. ASSUME NEW i \in 2..last, i # free,
               \A j \in DOMAIN recs : i \notin recs[j]
        PROVE  i \in tree \/ i \in s.t.free_pgs
    <3>1. ~ Ours(g, recs, last, i)
      BY <1>6, <2>2 DEF Ours, Base
    <3>2. i \in 2..(s.t.next_pgno - 1)
      BY <1>6 DEF Account, Base
    <3>3. i \notin Valid(s.t.free)
      BY <1>7, <3>1 DEF Valid
    <3>4. \A j \in left : i \notin recs[j]
      BY <1>23, <2>2 DEF Left
    <3>5. i \notin s.t.loose /\ i \notin s.t.pghead
      BY <1>2, <1>6, <3>1 DEF Account
    <3> QED  BY <1>24, <3>2, <3>3, <3>4, <3>5 DEF Parts
  <2>3. Reachable(c.pg, c.t.main) = tree
    BY <1>1, <1>20, <1>21, <1>22 DEF TreeStays
  <2>4. \A j \in Left(c.t.pglast, recs) : j \in DOMAIN r /\ r[j] = recs[j]
    BY <1>2, <1>21, <1>23, <1>25
  <2>5. c.t.next_pgno \in Nat /\ last < c.t.next_pgno
    BY <1>6, <1>21 DEF Account
  <2>6. id \in DOMAIN r /\ c.t.txnid = id
    BY <1>3, <1>21, <1>25
  <2> QED  BY <1>21, <1>25, <2>1, <2>2, <2>3, <2>4, <2>5, <2>6 DEF FreeSaved
<1> QED  BY <1>20, <1>21, <1>28 DEF TreeStays, AllSaved

(* When the map is full nothing more is done.                              *)
LEMMA FullStays ==
    ASSUME NEW s, s.t.full = TRUE, NEW e
    PROVE  /\ TouchToDelete(s, e) = s /\ DeleteUsed(s) = s
           /\ TouchToSave(s, e) = s /\ SaveFreed(s) = s /\ SaveHead(s) = s
BY Zenon DEF TouchToDelete, DeleteUsed, TouchToSave, SaveFreed, SaveHead

(* The second half of mdb_freelist_save.                                   *)
LEMMA SecondHalf ==
    ASSUME NEW pg0, NEW t0, NEW recs, NEW last, NEW n, NEW e, NEW s,
           Saving(pg0, t0, recs, last, n, e, s), Settled(s),
           t0.txnid = n + 1, NEW f, f = TouchToSave(DeleteUsed(s), e),
           NEW c, c = SaveHead(DeleteUsed(SaveFreed(f)))
    PROVE  AllSaved(pg0, t0, recs, last, n, e, t0.free, c)
<1>1. CASE s.t.full = TRUE
  <2>1. c = s
    BY <1>1, FullStays
  <2> QED  BY <1>1, <2>1 DEF AllSaved, Saving
<1>2. CASE s.t.full = FALSE
  <2>1. PICK d : d = DeleteUsed(s)
    OBVIOUS
  <2>2. /\ s.t.pglast = 0 \/ s.t.free \in s.t.dirty
        /\ s.t.next_pgno <= MaxPgno
        /\ s.t.head = FALSE => s.t.loose = {}
        /\ s.t.free_pgs # {}
    BY <1>2 DEF Settled
  <2>3. /\ Saving(pg0, t0, recs, last, n, e, d)
        /\ d.t.full = FALSE /\ d.t.next_pgno = s.t.next_pgno
        /\ d.t.pglast = s.t.pglast /\ d.t.head = s.t.head
        /\ d.t.loose = s.t.loose
        /\ s.t.free_pgs \subseteq d.t.free_pgs
    <3>1. Deleted(pg0, t0, recs, last, n, e, s, d)
      BY <1>2, <2>1, <2>2, DeleteAccount
    <3> QED  BY <3>1 DEF Deleted, SameCounts
  <2>4. d.t.free_pgs # {} /\ d.t.next_pgno <= MaxPgno
    BY <2>2, <2>3
  <2>5. f = TouchFree(d, e)
    BY <2>1, <2>3, <2>4 DEF TouchToSave
  <2>6. Saving(pg0, t0, recs, last, n, e, f) /\ FreeTouched(d, f)
    BY <2>3, <2>4, <2>5, TouchFreeAccount
  <2>7. CASE f.t.full = TRUE
    <3>1. c = f
      BY <2>7, FullStays
    <3> QED  BY <2>6, <2>7, <3>1 DEF AllSaved, Saving
  <2>8. CASE f.t.full = FALSE
    <3>1. /\ f.t.free \in f.t.dirty /\ f.t.free_pgs # {}
          /\ d.t.pglast <= f.t.pglast /\ f.t.loose \subseteq d.t.loose
      BY <2>4, <2>6, <2>8 DEF FreeTouched
    <3>2. f.t.head = FALSE => f.t.loose = {}
      <4>1. CASE f.t.head = FALSE
        <5>1. /\ f.t.pglast = 0 /\ d.t.pglast \in Nat
              /\ d.t.head \in BOOLEAN
              /\ d.t.head = TRUE => d.t.pglast \in 1..n
          BY <2>3, <2>6, <4>1 DEF Saving, Held, Ready, Account, Base
        <5>2. d.t.head = FALSE
          BY <3>1, <5>1
        <5> QED  BY <2>2, <2>3, <3>1, <5>2
      <4> QED  BY <4>1
    <3> QED  BY <2>6, <2>8, <3>1, <3>2, SaveAccount
  <2> QED  BY <2>6, <2>7, <2>8 DEF Saving
<1> QED  BY <1>1, <1>2 DEF Saving

(* mdb_freelist_save as a whole.                                           *)
LEMMA FreelistAccount ==
    ASSUME NEW pg, NEW t, NEW recs, NEW last, NEW n, NEW e,
           Partial(pg, pg, t, t, recs, last, n, e),
           Held(pg, t, t.main, recs, last, n, e),
           recs = Recs(pg, t.free), ~ Ours(t.pglast, recs, last, t.free),
           t.next_pgno < MaxPgno, t.txnid = n + 1,
           NEW s0, s0 = [pg |-> pg, t |-> t],
           NEW s1, s1 = TouchFirst(s0, e),
           NEW s2, s2 = TouchToDelete(LooseToFreed(s1), e),
           NEW s3, s3 = TouchToSave(DeleteUsed(s2), e),
           NEW c, c = SaveHead(DeleteUsed(SaveFreed(s3)))
    PROVE  AllSaved(pg, t, recs, last, n, e, t.free, c)
<1>1. /\ Base(recs, last, n) /\ Agree(pg, t, recs)
      /\ Account(t, Reachable(pg, t.main) \cup Valid(t.free), recs, last, n)
      /\ t.head \in BOOLEAN /\ t.full = FALSE /\ t.free \in Nat
      /\ IsTree(pg, t.main) /\ t.free \notin Reachable(pg, t.main)
  BY DEF Held, Ready
<1>2. s0.pg = pg /\ s0.t = t /\ HasFields(s0, {"pg", "t"})
  BY DEF HasFields
<1>3. t.head = TRUE \/ t.pglast = 0
  BY <1>1 DEF Account
<1>4. Saving(pg, t, recs, last, n, e, s0)
  BY <1>1, <1>2, <1>3 DEF Saving
<1>5. t.free \notin t.dirty
  BY <1>1 DEF Account
<1>6. t.next_pgno \in Nat /\ t.next_pgno + 1 <= MaxPgno
      /\ t.next_pgno <= MaxPgno
  BY <1>1, BoundsAssumption DEF Account
<1>7. CASE t.head = TRUE
  <2>1. t.pglast \in DOMAIN recs /\ t.pglast \in 1..n /\ t.free # P_INVALID
    BY <1>1, <1>7 DEF Account, Base, Recs, EmptyRecs
  <2>2. s1 = TouchFree(s0, e)
    BY <1>2, <1>7, <2>1 DEF TouchFirst
  <2>3. Saving(pg, t, recs, last, n, e, s1) /\ FreeTouched(s0, s1)
    <3>1. s0.t.full = FALSE /\ s0.t.next_pgno <= MaxPgno
      BY <1>1, <1>2, <1>6
    <3> QED  BY <1>4, <2>2, <3>1, TouchFreeAccount
  <2>4. s1.t.head = TRUE
    <3>1. t.pglast <= s1.t.pglast /\ s1.t.pglast \in Nat
      BY <2>3 DEF Saving, Partial, UsedUp
    <3>2. s1.t.pglast # 0
      BY <2>1, <3>1
    <3> QED  BY <2>3, <3>2 DEF Saving
  <2>5. LooseToFreed(s1) = s1
    BY <2>4, Zenon DEF LooseToFreed
  <2>6. CASE s1.t.full = TRUE
    <3>1. s2 = s1
      BY <2>5, <2>6, FullStays
    <3>2. s3 = s1
      BY <2>6, <3>1, FullStays
    <3>3. c = s1
      BY <2>6, <3>2, FullStays
    <3> QED  BY <2>3, <2>6, <3>3 DEF AllSaved, Saving
  <2>7. CASE s1.t.full = FALSE
    <3>1. /\ s1.t.next_pgno <= MaxPgno /\ s1.t.free \in s1.t.dirty
          /\ s1.t.free_pgs # {}
      <4>1. s1.t.next_pgno \in Nat
        BY <2>3, <2>7 DEF Saving, Held, Ready, Account
      <4> QED  BY <1>2, <1>5, <1>6, <2>1, <2>3, <2>7, <4>1, BoundsAssumption
               DEF FreeTouched
    <3>2. CASE s2 = s1
      <4>1. Settled(s2)
        BY <2>4, <3>1, <3>2 DEF Settled
      <4> QED  BY <2>3, <3>2, <4>1, SecondHalf
    <3>3. CASE s2 = TouchFree(s1, e)
      <4>1. Saving(pg, t, recs, last, n, e, s2) /\ FreeTouched(s1, s2)
        BY <2>3, <2>7, <3>1, <3>3, TouchFreeAccount
      <4>2. Settled(s2)
        <5>1. CASE s2.t.full = FALSE
          <6>1. /\ s2.t.next_pgno <= s1.t.next_pgno
                /\ s2.t.free \in s2.t.dirty /\ s2.t.free_pgs # {}
            BY <3>1, <4>1, <5>1 DEF FreeTouched
          <6>2. s2.t.next_pgno \in Nat /\ s1.t.next_pgno \in Nat
            BY <2>3, <2>7, <4>1, <5>1 DEF Saving, Held, Ready, Account
          <6>3. s2.t.next_pgno <= MaxPgno
            BY <3>1, <6>1, <6>2, BoundsAssumption
          <6>4. s2.t.head = TRUE
            <7>1. t.pglast <= s2.t.pglast /\ s2.t.pglast \in Nat
              BY <4>1 DEF Saving, Partial, UsedUp
            <7>2. s2.t.pglast # 0
              BY <2>1, <7>1
            <7> QED  BY <4>1, <7>2 DEF Saving
          <6> QED  BY <6>1, <6>3, <6>4 DEF Settled
        <5> QED  BY <5>1 DEF Settled
      <4> QED  BY <4>1, <4>2, SecondHalf
    <3> QED  BY <2>5, <3>2, <3>3, Zenon DEF TouchToDelete
  <2> QED  BY <2>3, <2>6, <2>7 DEF Saving
<1>8. CASE t.head = FALSE
  <2>1. t.pglast = 0 /\ t.pghead = {}
    BY <1>1, <1>8 DEF Account
  <2>2. s1 = s0
    BY <1>2, <1>8 DEF TouchFirst
  <2>3. PICK l : l = LooseToFreed(s1)
    OBVIOUS
  <2>4. /\ Saving(pg, t, recs, last, n, e, l) /\ l.t.loose = {}
        /\ l.t.full = FALSE /\ l.t.next_pgno = s0.t.next_pgno
        /\ l.t.pglast = s0.t.pglast /\ l.t.free = s0.t.free
    <3>1. /\ s1.t.full = FALSE /\ s1.t.head = FALSE
          /\ Saving(pg, t, recs, last, n, e, s1)
      BY <1>1, <1>2, <1>4, <1>8, <2>2
    <3>2. Loosened(pg, t, recs, last, n, e, s1, l)
      BY <2>3, <3>1, LooseAccount
    <3> QED  BY <2>2, <3>2 DEF Loosened, SameCounts
  <2>5. Used(l) = {}
    <3>1. Agree(l.pg, l.t, recs)
      BY <2>4 DEF Saving, Held, Ready
    <3>2. DOMAIN Recs(l.pg, l.t.free) \subseteq Nat \ {0} /\ l.t.pglast = 0
      BY <1>2, <2>1, <2>4, <3>1 DEF Agree
    <3> QED  BY <3>2 DEF Used
  <2>6. s2 = l
    BY <2>3, <2>5, Zenon DEF TouchToDelete
  <2>7. CASE l.t.free_pgs # {}
    <3>1. Settled(s2)
      BY <1>2, <1>6, <2>1, <2>4, <2>6, <2>7 DEF Settled
    <3> QED  BY <2>4, <2>6, <3>1, SecondHalf
  <2>8. CASE l.t.free_pgs = {}
    <3>1. l.pg = pg
      BY <1>2, <2>2, <2>3, <1>8 DEF LooseToFreed
    <3>2. /\ Held(pg, l.t, t.main, recs, last, n, e) /\ l.t.main = t.main
          /\ l.t.txnid = t.txnid /\ l.t.free = t.free /\ l.t.pglast = 0
      BY <1>2, <2>1, <2>4, <3>1 DEF Saving
    <3>3. l.t.pghead = {}
      <4>1. l.t.head # TRUE
        <5>1. /\ l.t.head = TRUE => l.t.pglast \in DOMAIN recs
              /\ \A j \in DOMAIN recs : j # 0
          BY <3>2 DEF Held, Ready, Account, Base
        <5> QED  BY <3>2, <5>1
      <4> QED  BY <3>2, <4>1 DEF Held, Ready, Account
    <3>4. s3 = l
      <4>1. DeleteUsed(s2) = l
        BY <2>5, <2>6, Zenon DEF DeleteUsed
      <4> QED  BY <2>8, <4>1, Zenon DEF TouchToSave
    <3>5. c = l
      <4>1. SaveFreed(l) = l
        BY <2>8, Zenon DEF SaveFreed
      <4>2. DeleteUsed(l) = l
        BY <2>5, Zenon DEF DeleteUsed
      <4>3. l.t.pghead \cup l.t.loose = {}
        BY <2>4, <3>3
      <4> QED  BY <3>4, <4>1, <4>2, <4>3, Zenon DEF SaveHead
    <3>6. FreeSaved(pg, l.t, recs, last, t.free)
      <4>1. Left(0, recs) = DOMAIN recs
        <5>1. \A j \in DOMAIN recs : j > 0
          BY <1>1 DEF Base
        <5> QED  BY <5>1 DEF Left
      <4>2. Parts(Reachable(pg, t.main) \cup Valid(t.free), {}, {}, {}, recs,
                  DOMAIN recs, l.t.next_pgno - 1)
        BY <2>4, <2>8, <3>2, <3>3, <4>1 DEF Held, Ready, Account
      <4>3. /\ l.t.next_pgno \in Nat /\ last < l.t.next_pgno
            /\ l.t.next_pgno <= MaxPgno + 1 /\ last \in Nat /\ 1 <= last
            /\ n \in Nat
        BY <1>1, <3>2 DEF Held, Ready, Account, Base
      <4>4. /\ l.t.next_pgno - 1 \in Nat /\ 1 <= l.t.next_pgno - 1
            /\ l.t.next_pgno - 1 <= MaxPgno /\ last <= l.t.next_pgno - 1
        BY <4>3, BoundsAssumption
      <4>5. \A j \in DOMAIN recs : j \in 1..l.t.txnid
        BY <1>1, <3>2, <4>3 DEF Base
      <4>6. t.main \in Nat
        BY DEF Held
      <4>7. Intact(pg, l.t.main, l.t.free, l.t.next_pgno - 1, l.t.txnid)
        BY <1>1, <3>2, <4>2, <4>4, <4>5, <4>6 DEF Intact
      <4>8. ASSUME NEW i \in 2..last, i # t.free,
                   \A j \in DOMAIN recs : i \notin recs[j]
            PROVE  i \in Reachable(pg, l.t.main)
        <5>1. i \in 2..(l.t.next_pgno - 1)
          BY <4>3, <4>4
        <5> QED  BY <3>2, <4>2, <4>8, <5>1 DEF Parts, Valid
      <4> QED  BY <3>2, <4>1, <4>3, <4>7, <4>8 DEF FreeSaved
    <3> QED  BY <2>4, <3>1, <3>5, <3>6 DEF AllSaved, Saving
  <2> QED  BY <2>7, <2>8
<1> QED  BY <1>1, <1>7, <1>8

(***************************************************************************)
(* What no transaction writes to.                                          *)
(***************************************************************************)
(* The pages of the map change from pg to q by a transaction that builds   *)
(* on the meta page m and has used up the records up to g.                 *)
Frame(pg, q, m, g) ==
    /\ IsMap(pg) /\ IsMap(q)
    /\ Intact(pg, m.main, m.free, m.last_pg, m.txnid)
    /\ Spared(pg, q, g, Recs(pg, m.free), m.last_pg)
    /\ g \in Nat /\ (g = 0 \/ g < m.txnid)
    /\ m.txnid \in Nat

(* Then the state that m describes stays.                                  *)
MainStays(pg, q, m) ==
    /\ Recs(q, m.free) = Recs(pg, m.free)
    /\ Reachable(q, m.main) = Reachable(pg, m.main)
    /\ Intact(q, m.main, m.free, m.last_pg, m.txnid)
    /\ \A i \in Reachable(pg, m.main) \cup Valid(m.free) :
          i \in 2..MaxPgno /\ q[i] = pg[i]

(* The pages and records of the newest meta page are its own.              *)
LEMMA FrameMain ==
    ASSUME NEW pg, NEW q, NEW m, NEW g, Frame(pg, q, m, g)
    PROVE  MainStays(pg, q, m)
<1>1. /\ Parts(Reachable(pg, m.main) \cup Valid(m.free), {}, {}, {},
               Recs(pg, m.free), DOMAIN Recs(pg, m.free), m.last_pg)
      /\ m.last_pg \in Nat /\ m.last_pg <= MaxPgno /\ IsTree(pg, m.main)
  BY DEF Frame, Intact
<1>2. \A i \in Reachable(pg, m.main) \cup Valid(m.free) :
         /\ i \in 2..MaxPgno
         /\ ~ Ours(g, Recs(pg, m.free), m.last_pg, i)
  BY <1>1, BoundsAssumption DEF Parts, Ours
<1>3. \A i \in Reachable(pg, m.main) \cup Valid(m.free) :
         i \in 2..MaxPgno /\ q[i] = pg[i]
  BY <1>2 DEF Frame, Spared
<1>4. m.main = P_INVALID \/ q[m.main].kids = pg[m.main].kids
  BY <1>3 DEF Reachable
<1>5. Reachable(q, m.main) = Reachable(pg, m.main) /\ IsTree(q, m.main)
  BY <1>1, <1>4, SameTree
<1>6. Recs(q, m.free) = Recs(pg, m.free)
  BY <1>3 DEF Recs, Valid
<1>7. Intact(q, m.main, m.free, m.last_pg, m.txnid)
  BY <1>5, <1>6 DEF Frame, Intact
<1> QED  BY <1>3, <1>5, <1>6, <1>7 DEF MainStays

(* A tree whose pages stay is the same tree with the same data.            *)
TreeSame(pg, q, root) ==
    /\ Reachable(q, root) = Reachable(pg, root)
    /\ Data(q, root) = Data(pg, root)

(* Such a tree reads the same.                                             *)
LEMMA DataSame ==
    ASSUME NEW pg, NEW q, NEW root,
           \A i \in Reachable(pg, root) : q[i] = pg[i]
    PROVE  TreeSame(pg, q, root)
<1>1. root = P_INVALID \/ q[root] = pg[root]
  BY DEF Reachable
<1>2. Reachable(q, root) = Reachable(pg, root)
  BY <1>1, SameTree
<1>3. ASSUME NEW k \in Key
      PROVE  Data(q, root)[k] = Data(pg, root)[k]
  <2>1. CASE root = P_INVALID
    BY <2>1 DEF Data
  <2>2. CASE root # P_INVALID
    <3>1. q[root].kids[k] = pg[root].kids[k]
      BY <1>1, <2>2
    <3>2. pg[root].kids[k] # P_INVALID =>
             pg[root].kids[k] \in Reachable(pg, root)
      BY <2>2 DEF Reachable, Kids
    <3> QED  BY <2>2, <3>1, <3>2 DEF Data
  <2> QED  BY <2>1, <2>2
<1>4. /\ Data(q, root) = [k \in Key |-> Data(q, root)[k]]
      /\ Data(pg, root) = [k \in Key |-> Data(pg, root)[k]]
  BY DEF Data
<1>5. Data(q, root) = Data(pg, root)
  BY <1>3, <1>4
<1> QED  BY <1>2, <1>5 DEF TreeSame

(* So does a tree that is protected from transactions that leave the       *)
(* records after s.                                                        *)
LEMMA FrameTree ==
    ASSUME NEW pg, NEW q, NEW m, NEW g, Frame(pg, q, m, g),
           NEW root, NEW s, s \in Nat, g <= s, Protected(pg, m, root, s)
    PROVE  TreeSame(pg, q, root) /\ Protected(q, m, root, s)
<1>1. MainStays(pg, q, m)
  BY FrameMain
<1>2. PICK recs : recs = Recs(pg, m.free)
  OBVIOUS
<1>3. /\ Parts(Reachable(pg, m.main) \cup Valid(m.free), {}, {}, {},
               recs, DOMAIN recs, m.last_pg)
      /\ m.last_pg \in Nat /\ m.last_pg <= MaxPgno
      /\ \A j \in DOMAIN recs : j \in 1..m.txnid
      /\ g \in Nat /\ m.txnid \in Nat
  BY <1>2 DEF Frame, Intact
<1>4. ASSUME NEW i \in Reachable(pg, root)
      PROVE  q[i] = pg[i]
  <2>1. CASE i \in Reachable(pg, m.main)
    BY <1>1, <2>1 DEF MainStays
  <2>2. CASE \E j \in DOMAIN recs : j > s /\ i \in recs[j]
    <3>1. PICK j \in DOMAIN recs : j > s /\ i \in recs[j]
      BY <2>2
    <3>2. j \in Nat /\ j > g
      BY <1>3, <3>1
    <3>3. i \in 2..m.last_pg /\ \A l \in DOMAIN recs : i \in recs[l] => l = j
      BY <1>3, <3>1 DEF Parts
    <3>4. ~ Ours(g, recs, m.last_pg, i)
      BY <1>3, <3>2, <3>3 DEF Ours
    <3>5. i \in 2..MaxPgno
      BY <1>3, <3>3, BoundsAssumption
    <3> QED  BY <1>2, <3>4, <3>5 DEF Frame, Spared
  <2> QED  BY <1>2, <2>1, <2>2 DEF Protected
<1>5. TreeSame(pg, q, root)
  BY <1>4, DataSame
<1>6. Protected(q, m, root, s)
  BY <1>1, <1>5 DEF Protected, MainStays, TreeSame
<1> QED  BY <1>5, <1>6

(* The meta pages go on describing what they describe.                     *)
LEMMA FrameMeta ==
    ASSUME NEW pg, NEW q, NEW m, NEW g, Frame(pg, q, m, g),
           NEW mt, NEW h, MetaPages(pg, mt, m, h)
    PROVE  MetaPages(q, mt, m, h)
<1>1. MainStays(pg, q, m)
  BY FrameMain
<1>2. ASSUME NEW x \in 0..1, mt[x].owner \in DOMAIN h
      PROVE  Describes(q, m, h, mt[x])
  <2>1. PICK o : o = mt[x]
    OBVIOUS
  <2>2. Describes(pg, m, h, o) /\ o.owner \in Nat
    BY <1>2, <2>1 DEF MetaPages
  <2>3. g <= o.owner
    <3>1. m.txnid <= o.owner + 1 /\ o.owner \in Nat
      BY <2>2 DEF Describes
    <3>2. g \in Nat /\ (g = 0 \/ g < m.txnid) /\ m.txnid \in Nat
      BY DEF Frame
    <3> QED  BY <3>1, <3>2
  <2>4. Protected(pg, m, o.main, o.owner)
    BY <2>2 DEF Describes
  <2>5. TreeSame(pg, q, o.main) /\ Protected(q, m, o.main, o.owner)
    BY <2>2, <2>3, <2>4, FrameTree
  <2> QED  BY <2>1, <2>2, <2>5 DEF Describes, TreeSame
<1> QED  BY <1>1, <1>2 DEF MetaPages, MainStays

(* So do the readers that leave the records up to g alone.                 *)
LEMMA FrameSnapshot ==
    ASSUME NEW pg, NEW q, NEW m, NEW g, Frame(pg, q, m, g),
           NEW mt, NEW h, NEW t, Snapshot(pg, mt, m, h, t),
           t.txnid \in Nat, t.pc \in Slotted => g <= t.txnid
    PROVE  Snapshot(q, mt, m, h, t)
<1>1. CASE t.pc \in {"copy_last", "read"} /\ t.sound
  <2>1. Protected(pg, m, t.main, t.txnid) /\ g <= t.txnid
    BY <1>1 DEF Snapshot, Slotted
  <2>2. TreeSame(pg, q, t.main) /\ Protected(q, m, t.main, t.txnid)
    BY <2>1, FrameTree
  <2> QED  BY <1>1, <2>2 DEF Snapshot, TreeSame
<1>2. CASE ~ (t.pc \in {"copy_last", "read"} /\ t.sound)
  BY <1>2 DEF Snapshot
<1> QED  BY <1>1, <1>2

-----------------------------------------------------------------------------
(***************************************************************************)
(* Steps that commit nothing.                                              *)
(***************************************************************************)
(* Process p goes on to the transaction u.                                 *)
Goes(p, u) ==
    /\ \A q \in Procs : txn'[q] = IF q = p THEN u ELSE txn[q]
    /\ meta' = meta /\ hist' = hist

(* What holds of it then.                                                  *)
Knows(u) ==
    /\ u.pc \in Changing => Working(page', pick_meta, u)
    /\ u.pc \in Storing => Saved(page', meta, pick_meta, u)
    /\ Snapshot(page', meta, pick_meta, hist, u)

(* The facts of the invariants that the steps need.                        *)
LEMMA StateFacts ==
    ASSUME IInv, PagesInv
    PROVE  /\ pick_meta.txnid \in Nat
           /\ IsMap(page) /\ MetaPages(page, meta, pick_meta, hist)
           /\ Intact(page, pick_meta.main, pick_meta.free,
                     pick_meta.last_pg, pick_meta.txnid)
           /\ \A p \in Procs : txn[p].txnid \in Nat /\ IsTxn(txn[p])
BY NewestIsMax DEF IInv, PagesInv, Store, MetaPages, Shape, IsTxn

(* Such a step keeps what is known of the pages.                           *)
LEMMA StepKeeps ==
    ASSUME IInv, PagesInv, NEW p \in Procs, NEW u, Goes(p, u), Knows(u),
           NEW g, Frame(page, page', pick_meta, g),
           page' = page \/ info.wmutex = p,
           \A q \in Procs : txn[q].pc \in Slotted => g <= txn[q].txnid,
           Slots', Watched'
    PROVE  PagesInv'
<1>1. /\ MetaPages(page, meta, pick_meta, hist) /\ IsMap(page)
      /\ \A q \in Procs : txn[q].txnid \in Nat
  BY StateFacts
<1>2. pick_meta' = pick_meta
  BY DEF Goes, pick_meta
<1>3. Store'
  BY <1>1, <1>2, FrameMeta DEF Store, Goes, Frame
<1>4. WritersKnow'
  <2> SUFFICES ASSUME NEW q \in Procs
               PROVE  /\ txn'[q].pc \in Changing =>
                            Working(page', pick_meta, txn'[q])
                      /\ txn'[q].pc \in Storing =>
                            Saved(page', meta, pick_meta, txn'[q])
    BY <1>2 DEF WritersKnow, Goes
  <2>1. CASE q = p
    BY <2>1 DEF Goes, Knows
  <2>2. CASE q # p /\ page' = page
    BY <2>2 DEF Goes, PagesInv, WritersKnow
  <2>3. CASE q # p /\ info.wmutex = p
    <3>1. txn[q].pc \notin Holding
      BY <2>3 DEF IInv, Owner
    <3> QED  BY <2>3, <3>1 DEF Goes, Holding, Changing, Storing
  <2> QED  BY <2>1, <2>2, <2>3
<1>5. ReadersKnow'
  <2> SUFFICES ASSUME NEW q \in Procs
               PROVE  Snapshot(page', meta, pick_meta, hist, txn'[q])
    BY <1>2 DEF ReadersKnow, Goes
  <2>1. CASE q = p
    BY <2>1 DEF Goes, Knows
  <2>2. CASE q # p
    <3>1. Snapshot(page, meta, pick_meta, hist, txn[q])
      BY DEF PagesInv, ReadersKnow
    <3>2. txn'[q] = txn[q]
      BY <2>2 DEF Goes
    <3>3. Snapshot(page', meta, pick_meta, hist, txn[q])
      BY <1>1, <3>1, FrameSnapshot
    <3> QED  BY <3>2, <3>3
  <2> QED  BY <2>1, <2>2
<1> QED  BY <1>3, <1>4, <1>5 DEF PagesInv

(* The lock file and the cached oldest readers after a step of process p   *)
(* that takes no reader for older than it is.                              *)
PlainLock(p) ==
    /\ \A w \in Procs : /\ env'[w].pgoldest \in Nat
                        /\ env'[w].pgoldest <= env[w].pgoldest
    /\ info'.txnid \in Nat /\ info.txnid <= info'.txnid
    /\ info'.txnid <= pick_meta.txnid
    /\ info'.stale \subseteq Nat
    /\ info'.slot = [q \in Procs |-> info'.slot[q]]
    /\ \A q \in Procs : /\ info'.slot[q] \in Nat
                        /\ q # p => info'.slot[q] = info.slot[q]

(* The transaction u that process p goes on to when it writes no page.     *)
PlainTxn(p, u) ==
    /\ u.pc \in Slotted \cup {"check"} => info'.slot[p] = u.txnid
    /\ u.pc \in Slotted =>
          \/ txn[p].pc \in Slotted /\ u.txnid = txn[p].txnid
          \/ u.txnid = info.txnid
    /\ u.pc \in BeforeCommit =>
          \/ u.pglast = 0
          \/ txn[p].pc \in BeforeCommit /\ u.pglast = txn[p].pglast

(* The records that a writer has used up are older than the last commit.   *)
LEMMA UsedRecords ==
    ASSUME IInv, PagesInv, NEW w \in Procs, txn[w].pc \in BeforeCommit
    PROVE  /\ txn[w].pglast \in Nat
           /\ txn[w].pglast = 0 \/ txn[w].pglast < pick_meta.txnid
           /\ info.txnid = pick_meta.txnid
<1>1. info.txnid = pick_meta.txnid
  BY DEF IInv, LockFile
<1>2. CASE txn[w].pc \in Changing
  BY <1>1, <1>2 DEF PagesInv, WritersKnow, Working, Account
<1>3. CASE txn[w].pc \in Storing
  BY <1>1, <1>3 DEF PagesInv, WritersKnow, Saved
<1> QED  BY <1>2, <1>3 DEF BeforeCommit, Changing, Storing

(* Such a step takes no reader for older than it is.                       *)
LEMMA PlainWatch ==
    ASSUME IInv, PagesInv, NEW p \in Procs, NEW u, Goes(p, u),
           PlainLock(p), PlainTxn(p, u)
    PROVE  Slots' /\ Watched'
<1>1. \A q \in Procs : txn[q].txnid \in Nat
  BY StateFacts
<1>2. pick_meta' = pick_meta
  BY DEF Goes, pick_meta
<1>3. Slots'
  <2>1. \A w \in Procs : /\ env'[w].pgoldest \in Nat
                         /\ env'[w].pgoldest <= info'.txnid
    <3>1. \A w \in Procs : /\ env[w].pgoldest \in Nat
                           /\ env[w].pgoldest <= info.txnid
      BY DEF PagesInv, Slots
    <3>2. info.txnid \in Nat
      BY DEF IInv, Shape
    <3> QED  BY <3>1, <3>2 DEF PlainLock
  <2> QED  BY <1>2, <2>1 DEF Slots, PlainLock
<1>4. Watched'
  <2>1. \A w \in Procs :
           /\ env'[w].pgoldest \in Nat /\ env[w].pgoldest \in Nat
           /\ env'[w].pgoldest <= env[w].pgoldest
           /\ env[w].pgoldest <= info.txnid
    BY DEF PlainLock, PagesInv, Slots
  <2>2. info.txnid \in Nat /\ info.txnid <= pick_meta.txnid
    BY DEF IInv, Shape, PagesInv, Slots
  <2>3. ASSUME NEW q \in Procs, txn'[q].pc \in Slotted \cup {"check"}
        PROVE  info'.slot[q] = txn'[q].txnid
    BY <2>3 DEF Goes, PlainTxn, PlainLock, PagesInv, Watched
  <2>4. ASSUME NEW q \in Procs, txn'[q].pc \in Slotted
        PROVE  /\ txn'[q].txnid \in Nat
               /\ txn'[q].txnid <= pick_meta.txnid
               /\ \A w \in Procs :
                     /\ env[w].pgoldest <= txn'[q].txnid
                     /\ txn[w].pc \in BeforeCommit =>
                           txn[w].pglast <= txn'[q].txnid
    <3>1. CASE txn[q].pc \in Slotted /\ txn'[q].txnid = txn[q].txnid
      BY <1>1, <3>1 DEF PagesInv, Watched
    <3>2. CASE txn'[q].txnid = info.txnid
      <4>1. ASSUME NEW w \in Procs, txn[w].pc \in BeforeCommit
            PROVE  txn[w].pglast <= info.txnid
        BY <2>2, <4>1, UsedRecords, StateFacts
      <4> QED  BY <2>1, <2>2, <3>2, <4>1
    <3> QED  BY <2>4, <3>1, <3>2 DEF Goes, PlainTxn
  <2>5. ASSUME NEW q \in Procs, txn'[q].pc \in Slotted, NEW w \in Procs,
               txn'[w].pc \in BeforeCommit
        PROVE  txn'[w].pglast <= txn'[q].txnid
    <3>1. txn'[w].pglast = 0
          \/ (txn[w].pc \in BeforeCommit /\ txn'[w].pglast = txn[w].pglast)
      BY <2>5 DEF Goes, PlainTxn
    <3> QED  BY <2>4, <2>5, <3>1
  <2>6. ASSUME NEW q \in Procs, txn'[q].pc \in Slotted, NEW w \in Procs
        PROVE  env'[w].pgoldest <= txn'[q].txnid
    BY <2>1, <2>4, <2>6
  <2> QED  BY <1>2, <2>3, <2>4, <2>5, <2>6 DEF Watched
<1> QED  BY <1>3, <1>4

(* Such a step keeps what is known of the pages.                           *)
LEMMA PlainKeeps ==
    ASSUME IInv, PagesInv, NEW p \in Procs, NEW u, Goes(p, u),
           page' = page, Knows(u), PlainLock(p), PlainTxn(p, u)
    PROVE  PagesInv'
<1>1. /\ pick_meta.txnid \in Nat /\ IsMap(page)
      /\ Intact(page, pick_meta.main, pick_meta.free,
                pick_meta.last_pg, pick_meta.txnid)
      /\ \A q \in Procs : txn[q].txnid \in Nat
  BY StateFacts
<1>2. Frame(page, page', pick_meta, 0)
  BY <1>1 DEF Frame, Spared
<1>3. \A q \in Procs : 0 <= txn[q].txnid
  BY <1>1
<1> QED  BY <1>1, <1>2, <1>3, PlainWatch, StepKeeps

(* A transaction that neither changes pages nor stores them, nor has       *)
(* copied a meta page, needs to know nothing.                              *)
LEMMA NothingToKnow ==
    ASSUME NEW u, u.pc \notin Changing \cup Storing \cup {"copy_last", "read"}
    PROVE  Knows(u)
BY DEF Knows, Snapshot

(* The lock file stays, and the cached oldest readers.                     *)
LEMMA LockStays ==
    ASSUME IInv, PagesInv, NEW p \in Procs, info' = info,
           \A w \in Procs : env'[w].pgoldest \in {env[w].pgoldest, 0}
    PROVE  PlainLock(p)
<1>1. info.txnid \in Nat /\ info.txnid <= pick_meta.txnid
  BY DEF IInv, Shape, PagesInv, Slots
<1>2. \A w \in Procs : env[w].pgoldest \in Nat
  BY DEF PagesInv, Slots
<1> QED  BY <1>1, <1>2 DEF PlainLock, PagesInv, Slots

(* A reader slot is set.                                                   *)
LEMMA SlotSet ==
    ASSUME IInv, PagesInv, NEW p \in Procs, NEW s \in Nat,
           info' = [info EXCEPT !.slot[p] = s],
           \A w \in Procs : env'[w].pgoldest \in {env[w].pgoldest, 0}
    PROVE  PlainLock(p) /\ info'.slot[p] = s
<1>1. PICK o : o = [info.slot EXCEPT ![p] = s]
  OBVIOUS
<1>2. info' = [info EXCEPT !.slot = o]
  BY <1>1
<1>3. info'.txnid = info.txnid /\ info'.stale = info.stale /\ info'.slot = o
  BY <1>2 DEF IInv, Shape, HasFields, InfoFields
<1>4. /\ o = [q \in Procs |-> o[q]] /\ o[p] = s
      /\ \A q \in Procs : o[q] \in Nat /\ (q # p => o[q] = info.slot[q])
  BY <1>1 DEF PagesInv, Slots
<1>5. info.txnid \in Nat /\ info.txnid <= pick_meta.txnid
  BY DEF IInv, Shape, PagesInv, Slots
<1>6. \A w \in Procs : env[w].pgoldest \in Nat
  BY DEF PagesInv, Slots
<1> QED  BY <1>3, <1>4, <1>5, <1>6 DEF PlainLock, PagesInv, Slots

(* A process is gone: nobody may take its slot for free before the stale   *)
(* slots are cleared.                                                      *)
LEMMA GoneLock ==
    ASSUME IInv, PagesInv, NEW p \in Procs, NEW lock, Gone(p, lock)
    PROVE  /\ PlainLock(p)
           /\ \A q \in Procs : txn'[q] = IF q = p THEN NoTxn ELSE txn[q]
<1>1. PICK st : st = info.stale \cup ({info.slot[p]} \ {Idle})
  OBVIOUS
<1>2. PICK o : o = [info.slot EXCEPT ![p] = Idle]
  OBVIOUS
<1>3. info' = [info EXCEPT !.wmutex = lock, !.stale = st, !.slot = o]
  BY <1>1, <1>2 DEF Gone, IInv, Shape, HasFields, InfoFields
<1>4. info'.txnid = info.txnid /\ info'.stale = st /\ info'.slot = o
  BY <1>3 DEF IInv, Shape, HasFields, InfoFields
<1>5. Idle \in Nat
  BY BoundsAssumption DEF Idle
<1>6. /\ o = [q \in Procs |-> o[q]] /\ st \subseteq Nat
      /\ \A q \in Procs : o[q] \in Nat /\ (q # p => o[q] = info.slot[q])
  BY <1>1, <1>2, <1>5 DEF PagesInv, Slots
<1>7. info.txnid \in Nat /\ info.txnid <= pick_meta.txnid
  BY DEF IInv, Shape, PagesInv, Slots
<1>8. \A w \in Procs : env[w].pgoldest \in Nat
                       /\ env'[w].pgoldest \in {env[w].pgoldest, 0}
  BY DEF PagesInv, Slots, Gone, Closed, IInv, Shape
<1>9. \A q \in Procs : txn'[q] = IF q = p THEN NoTxn ELSE txn[q]
  BY NoTxnForm, TxnSet DEF Gone, IInv
<1> QED  BY <1>4, <1>6, <1>7, <1>8, <1>9 DEF PlainLock

-----------------------------------------------------------------------------
(***************************************************************************)
(* The steps that write no page.                                           *)
(***************************************************************************)
(* Where a process has neither pages nor a reader slot.                    *)
Aside == {"idle", "grown", "publish", "end", "load", "store"}

(* A process that steps aside needs to know nothing.                       *)
LEMMA AsideKeeps ==
    ASSUME IInv, PagesInv, NEW p \in Procs, NEW u, Goes(p, u),
           page' = page, PlainLock(p), u.pc \in Aside
    PROVE  PagesInv'
<1>1. Knows(u)
  BY NothingToKnow DEF Aside, Changing, Storing
<1>2. PlainTxn(p, u)
  BY DEF PlainTxn, Aside, Slotted, BeforeCommit
<1> QED  BY <1>1, <1>2, PlainKeeps

(* The transaction u that process p goes on to is at another place x.      *)
Moves(p, u, x) ==
    /\ u.pc = x /\ Same(txn[p], u, {"pc"})
    /\ \A q \in Procs : txn'[q] = IF q = p THEN u ELSE txn[q]

(* A process goes on to another place in the same transaction.             *)
LEMMA PcSet ==
    ASSUME IInv, NEW p \in Procs, NEW x, txn' = [txn EXCEPT ![p].pc = x]
    PROVE  \E u : Moves(p, u, x)
<1>1. PICK t : t = txn[p]
  OBVIOUS
<1>2. IsTxn(t)
  BY <1>1 DEF IInv, Shape
<1>3. PICK u : u = [t EXCEPT !["pc"] = x]
  OBVIOUS
<1>4. IsTxn(u) /\ u.pc = x /\ \A g \in TxnFields \ {"pc"} : u[g] = t[g]
  BY <1>2, <1>3 DEF IsTxn, HasFields, TxnFields
<1>5. txn' = [txn EXCEPT ![p] = u]
  BY <1>1, <1>3 DEF IInv, Shape
<1>6. \A q \in Procs : txn'[q] = IF q = p THEN u ELSE txn[q]
  BY <1>5 DEF IInv, Shape
<1>7. u.pc = x /\ Same(t, u, {"pc"})
  BY <1>4 DEF Same
<1>8. Moves(p, u, x)
  BY <1>1, <1>6, <1>7 DEF Moves
<1> QED  BY <1>8

(* Opening the store: the first process sets up the lock file.             *)
LEMMA OpenPages ==
    ASSUME IInv, PagesInv, NEW p \in Procs, env_open(p)
    PROVE  PagesInv'
<1>1. Goes(p, txn[p]) /\ page' = page
  BY DEF env_open, Goes
<1>2. Knows(txn[p])
  BY <1>1 DEF Knows, PagesInv, WritersKnow, ReadersKnow
<1>3. \A w \in Procs : env'[w].pgoldest \in {env[w].pgoldest, 0}
  <2>1. PICK size : env' = [env EXCEPT ![p] = [open |-> TRUE, maxpg |-> size,
                                               pgoldest |-> 0]]
    BY DEF env_open
  <2> QED  BY <2>1 DEF IInv, Shape
<1>4. CASE \E q \in Procs : env[q].open
  <2>1. info' = info
    BY <1>4 DEF env_open
  <2>2. PlainLock(p)
    BY <1>3, <2>1, LockStays
  <2>3. PlainTxn(p, txn[p])
    BY <2>1 DEF PlainTxn, PagesInv, Watched
  <2> QED  BY <1>1, <1>2, <2>2, <2>3, PlainKeeps
<1>5. CASE ~ \E q \in Procs : env[q].open
  <2>1. PICK n : n = pick_meta.txnid
    OBVIOUS
  <2>2. info' = [info EXCEPT !.txnid = n, !.wmutex = Free, !.stale = {}]
    BY <1>5, <2>1 DEF env_open
  <2>3. info'.txnid = n /\ info'.stale = {} /\ info'.slot = info.slot
    BY <2>2 DEF IInv, Shape, HasFields, InfoFields
  <2>4. PlainLock(p)
    <3>1. /\ n \in Nat /\ info.txnid \in Nat /\ info.txnid <= n
          /\ \A w \in Procs : env[w].pgoldest \in Nat
      BY <2>1, StateFacts DEF IInv, Shape, PagesInv, Slots
    <3> QED  BY <1>3, <2>1, <2>3, <3>1 DEF PlainLock, PagesInv, Slots
  <2>5. txn[p].pc = "idle"
    BY <1>5 DEF IInv, Opened
  <2> QED  BY <1>1, <2>4, <2>5, AsideKeeps DEF Aside
<1> QED  BY <1>4, <1>5

(* Closing the store.                                                      *)
LEMMA ClosePages ==
    ASSUME IInv, PagesInv, NEW p \in Procs, env_close(p)
    PROVE  PagesInv'
<1>1. Goes(p, txn[p]) /\ page' = page /\ info' = info /\ txn[p].pc = "idle"
  BY DEF env_close, Goes
<1>2. \A w \in Procs : env'[w].pgoldest \in {env[w].pgoldest, 0}
  BY DEF env_close, Closed, IInv, Shape
<1>3. PlainLock(p)
  BY <1>1, <1>2, LockStays
<1> QED  BY <1>1, <1>3, AsideKeeps DEF Aside

(* A process that is gone leaves the pages as they are.                    *)
LEMMA GonePages ==
    ASSUME IInv, PagesInv, NEW p \in Procs, NEW lock, Gone(p, lock),
           page' = page, meta' = meta, hist' = hist
    PROVE  PagesInv'
<1>1. Goes(p, NoTxn) /\ PlainLock(p)
  BY GoneLock DEF Goes
<1> QED  BY <1>1, AsideKeeps, NoTxnForm DEF Aside

(* Growing the map of a process.                                           *)
LEMMA GrowPages ==
    ASSUME IInv, PagesInv, NEW p \in Procs, maybe_grow(p)
    PROVE  PagesInv'
<1>1. /\ txn' = [txn EXCEPT ![p].pc = "grown"]
      /\ page' = page /\ info' = info /\ meta' = meta /\ hist' = hist
  BY DEF maybe_grow
<1>2. \A w \in Procs : env'[w].pgoldest \in {env[w].pgoldest, 0}
  <2>1. PICK size : env' = env \/ env' = [env EXCEPT ![p].maxpg = size]
    BY Zenon DEF maybe_grow
  <2> QED  BY <2>1 DEF IInv, Shape, HasFields, EnvFields
<1>3. PICK u : Moves(p, u, "grown")
  BY <1>1, PcSet
<1>4. u.pc = "grown" /\ Goes(p, u)
  BY <1>1, <1>3 DEF Moves, Goes
<1>5. PlainLock(p)
  BY <1>1, <1>2, LockStays
<1> QED  BY <1>1, <1>5, <1>4, AsideKeeps DEF Aside

(* The txnid of the lock file follows that of the newest meta page, and    *)
(* the mutex is released.                                                  *)
LEMMA EndPages ==
    ASSUME IInv, PagesInv, NEW p \in Procs, publish(p) \/ txn_end(p)
    PROVE  PagesInv'
<1>1. /\ page' = page /\ meta' = meta /\ hist' = hist /\ env' = env
      /\ \A w \in Procs : env[w].pgoldest \in Nat
      /\ pick_meta.txnid \in Nat /\ info.txnid \in Nat
      /\ info.txnid <= pick_meta.txnid
  BY StateFacts DEF publish, txn_end, PagesInv, Slots, IInv, Shape
<1>2. CASE publish(p)
  <2>1. PICK n : n = txn[p].txnid
    OBVIOUS
  <2>2. n = pick_meta.txnid /\ info' = [info EXCEPT !.txnid = n]
    BY <1>2, <2>1 DEF publish, IInv, LockFile
  <2>3. info'.txnid = n /\ info'.stale = info.stale /\ info'.slot = info.slot
    BY <2>2 DEF IInv, Shape, HasFields, InfoFields
  <2>4. PlainLock(p)
    BY <1>1, <2>2, <2>3 DEF PlainLock, PagesInv, Slots
  <2>5. txn' = [txn EXCEPT ![p].pc = "end"]
    BY <1>2 DEF publish
  <2>6. PICK u : Moves(p, u, "end")
    BY <2>5, PcSet
  <2>7. u.pc = "end" /\ Goes(p, u)
    BY <1>1, <2>6 DEF Moves, Goes
  <2> QED  BY <1>1, <2>4, <2>7, AsideKeeps DEF Aside
<1>3. CASE txn_end(p)
  <2>1. /\ info'.txnid = info.txnid /\ info'.stale = info.stale
        /\ info'.slot = info.slot
    BY <1>3 DEF txn_end, IInv, Shape, HasFields, InfoFields
  <2>2. PlainLock(p)
    BY <1>1, <2>1 DEF PlainLock, PagesInv, Slots
  <2>3. Goes(p, NoTxn)
    BY <1>1, <1>3, TxnSet, NoTxnForm DEF txn_end, Goes, IInv
  <2> QED  BY <1>1, <2>2, <2>3, AsideKeeps, NoTxnForm DEF Aside
<1> QED  BY <1>2, <1>3

(* Working on, or ending a transaction that changed nothing.               *)
LEMMA CommitPages ==
    ASSUME IInv, PagesInv, NEW p \in Procs, txn_commit(p)
    PROVE  PagesInv'
<1>1. PICK x : x = IF txn[p].dirty = {} THEN "end" ELSE "save"
  OBVIOUS
<1>2. /\ txn' = [txn EXCEPT ![p].pc = x] /\ txn[p].pc = "write"
      /\ page' = page /\ info' = info /\ meta' = meta /\ hist' = hist
      /\ env' = env
  BY <1>1 DEF txn_commit
<1>3. PICK u : Moves(p, u, x)
  BY <1>2, PcSet
<1>4. u.pc = x /\ Same(txn[p], u, {"pc"}) /\ Goes(p, u)
  BY <1>2, <1>3 DEF Moves, Goes
<1>5. PlainLock(p)
  BY <1>2, LockStays
<1>6. CASE x = "end"
  BY <1>2, <1>4, <1>5, <1>6, AsideKeeps DEF Aside
<1>7. CASE x = "save"
  <2>1. Working(page, pick_meta, txn[p])
    BY <1>2 DEF PagesInv, WritersKnow, Changing
  <2>2. Working(page, pick_meta, u)
    BY <1>4, <2>1 DEF Same, TxnFields, Working, Account
  <2>3. Knows(u)
    BY <1>2, <1>4, <1>7, <2>2 DEF Knows, Changing, Storing, Snapshot
  <2>4. PlainTxn(p, u)
    BY <1>2, <1>4, <1>7 DEF PlainTxn, Slotted, BeforeCommit, Same, TxnFields
  <2> QED  BY <1>2, <1>4, <1>5, <2>3, <2>4, PlainKeeps
<1> QED  BY <1>1, <1>6, <1>7

-----------------------------------------------------------------------------
(***************************************************************************)
(* A read transaction.                                                     *)
(***************************************************************************)
(* The reader slot is set, compared with the lock file, and cleared.       *)
LEMMA SlotPages ==
    ASSUME IInv, PagesInv, NEW p \in Procs,
           read_txnid(p) \/ store_slot(p) \/ check_slot(p) \/ read_end(p)
    PROVE  PagesInv'
<1>1. /\ page' = page /\ meta' = meta /\ hist' = hist /\ env' = env
      /\ txn[p].txnid \in Nat
  BY StateFacts DEF read_txnid, store_slot, check_slot, read_end
<1>2. \A w \in Procs : env'[w].pgoldest \in {env[w].pgoldest, 0}
  BY <1>1
<1>3. CASE read_txnid(p)
  <2>1. info' = info
    BY <1>3 DEF read_txnid
  <2>2. PICK n : n = info.txnid
    OBVIOUS
  <2>3. txn' = [txn EXCEPT ![p].pc = "store", ![p].txnid = n]
    BY <1>3, <2>2 DEF read_txnid
  <2>4. PICK t : t = txn[p]
    OBVIOUS
  <2>5. PICK u : u = [t EXCEPT !.pc = "store", !.txnid = n]
    OBVIOUS
  <2>6. u.pc = "store"
    <3>1. HasFields(t, TxnFields)
      BY <2>4 DEF IInv, Shape, IsTxn
    <3> QED  BY <2>5, <3>1 DEF HasFields, TxnFields
  <2>7. Goes(p, u)
    BY <1>1, <2>3, <2>4, <2>5 DEF Goes, IInv, Shape
  <2>8. PlainLock(p)
    BY <1>2, <2>1, LockStays
  <2> QED  BY <1>1, <2>6, <2>7, <2>8, AsideKeeps DEF Aside
<1>4. CASE store_slot(p)
  <2>1. PICK s : s = txn[p].txnid
    OBVIOUS
  <2>2. info' = [info EXCEPT !.slot[p] = s] /\ s \in Nat
        /\ txn' = [txn EXCEPT ![p].pc = "check"]
    BY <1>1, <1>4, <2>1 DEF store_slot
  <2>3. PlainLock(p) /\ info'.slot[p] = s
    BY <1>2, <2>2, SlotSet
  <2>4. PICK u : Moves(p, u, "check")
    BY <2>2, PcSet
  <2>5. u.pc = "check" /\ u.txnid = s /\ Goes(p, u)
    BY <1>1, <2>1, <2>4 DEF Moves, Goes, Same, TxnFields
  <2>6. Knows(u)
    BY <2>5, NothingToKnow DEF Changing, Storing
  <2>7. PlainTxn(p, u)
    BY <2>3, <2>5 DEF PlainTxn, Slotted, BeforeCommit
  <2> QED  BY <1>1, <2>3, <2>5, <2>6, <2>7, PlainKeeps
<1>5. CASE check_slot(p)
  <2>1. PICK x : x = IF info.slot[p] = info.txnid THEN "copy" ELSE "load"
    OBVIOUS
  <2>2. txn' = [txn EXCEPT ![p].pc = x] /\ info' = info
        /\ txn[p].pc = "check"
    BY <1>5, <2>1 DEF check_slot
  <2>3. PICK u : Moves(p, u, x)
    BY <2>2, PcSet
  <2>4. u.pc = x /\ u.txnid = txn[p].txnid /\ Goes(p, u)
    BY <1>1, <2>3 DEF Moves, Goes, Same, TxnFields
  <2>5. PlainLock(p)
    BY <1>2, <2>2, LockStays
  <2>6. CASE x = "load"
    BY <1>1, <2>4, <2>5, <2>6, AsideKeeps DEF Aside
  <2>7. CASE x = "copy"
    <3>1. info.slot[p] = txn[p].txnid /\ info.slot[p] = info.txnid
      BY <2>1, <2>2, <2>7 DEF PagesInv, Watched
    <3>2. PlainTxn(p, u)
      BY <2>2, <2>4, <2>7, <3>1 DEF PlainTxn, BeforeCommit
    <3>3. Knows(u)
      BY <2>4, <2>7, NothingToKnow DEF Changing, Storing
    <3> QED  BY <1>1, <2>4, <2>5, <3>2, <3>3, PlainKeeps
  <2> QED  BY <2>1, <2>6, <2>7
<1>6. CASE read_end(p)
  <2>1. info' = [info EXCEPT !.slot[p] = Idle]
        /\ txn' = [txn EXCEPT ![p] = NoTxn]
    BY <1>6 DEF read_end
  <2>2. Idle \in Nat
    BY BoundsAssumption DEF Idle
  <2>3. PlainLock(p)
    BY <1>2, <2>1, <2>2, SlotSet
  <2>4. Goes(p, NoTxn)
    BY <1>1, <2>1, TxnSet, NoTxnForm DEF Goes, IInv
  <2> QED  BY <1>1, <2>3, <2>4, AsideKeeps, NoTxnForm DEF Aside
<1> QED  BY <1>3, <1>4, <1>5, <1>6

(* Copying the roots of a meta page, with what it describes.               *)
LEMMA CopyPages ==
    ASSUME IInv, PagesInv, NEW p \in Procs, copy_dbs(p)
    PROVE  PagesInv'
<1>1. PICK s : s = txn[p].txnid
  OBVIOUS
<1>2. PICK m : m = meta[s % 2]
  OBVIOUS
<1>3. PICK t : t = txn[p]
  OBVIOUS
<1>4. PICK a, b, c, d : /\ a = m.main /\ b = m.owner
                        /\ c = (m.owner \in Committed)
                        /\ d = Data(page, m.main)
  OBVIOUS
<1>5. PICK u : u = [t EXCEPT !.pc = "copy_last", !.main = a, !.from = b,
                             !.sound = c, !.view = d]
  OBVIOUS
<1>6. /\ page' = page /\ meta' = meta /\ hist' = hist /\ env' = env
      /\ info' = info /\ t.pc = "copy"
  BY <1>3 DEF copy_dbs
<1>7. txn' = [txn EXCEPT ![p] = u]
  <2>1. txn' = [txn EXCEPT ![p] =
                   [t EXCEPT !.pc = "copy_last", !.main = m.main,
                             !.from = m.owner, !.sound = m.owner \in Committed,
                             !.view = Data(page, m.main)]]
    BY <1>1, <1>2, <1>3, Zenon DEF copy_dbs
  <2> QED  BY <1>4, <1>5, <2>1, Zenon
<1>8. /\ u.pc = "copy_last" /\ u.main = a /\ u.from = b /\ u.sound = c
      /\ u.view = d /\ u.txnid = s
  <2>1. HasFields(t, TxnFields)
    BY <1>3 DEF IInv, Shape, IsTxn
  <2> QED  BY <1>1, <1>3, <1>5, <2>1 DEF HasFields, TxnFields
<1>9. Goes(p, u)
  BY <1>6, <1>7 DEF Goes, IInv, Shape
<1>10. PICK n : n = pick_meta.txnid
  OBVIOUS
<1>11. s \in Nat /\ n \in Nat /\ s <= n /\ info.slot[p] = s
  BY <1>1, <1>3, <1>6, <1>10, StateFacts DEF PagesInv, Watched, Slotted
<1>12. /\ s % 2 \in 0..1
       /\ MetaPages(page, meta, pick_meta, hist)
  BY <1>11, StateFacts
<1>13. b \in Nat /\ (s = n => b = n)
  BY <1>2, <1>4, <1>10, <1>12 DEF MetaPages
<1>14. CASE c = TRUE
  <2>1. b \in DOMAIN hist
    BY <1>4, <1>14 DEF Committed
  <2>2. Describes(page, pick_meta, hist, m)
    BY <1>2, <1>4, <1>12, <2>1 DEF MetaPages
  <2>3. s <= b
    BY <1>4, <1>10, <1>11, <1>13, <2>2 DEF Describes
  <2>4. Protected(page, pick_meta, a, s)
    <3>1. \A j \in DOMAIN Recs(page, pick_meta.free) : j \in Nat
      BY StateFacts DEF Intact
    <3>2. Protected(page, pick_meta, a, b)
      BY <1>4, <2>2 DEF Describes
    <3>3. \A j \in Nat : j > b => j > s
      BY <1>11, <1>13, <2>3
    <3> QED  BY <3>1, <3>2, <3>3 DEF Protected
  <2>5. /\ d = hist[b] /\ b <= m.last_owner
        /\ \A i \in Reachable(page, a) : i <= m.last_pg
    BY <1>4, <2>2 DEF Describes
  <2> QED
    <3>1. Snapshot(page, meta, pick_meta, hist, u)
      BY <1>2, <1>4, <1>8, <1>14, <2>1, <2>3, <2>4, <2>5 DEF Snapshot
    <3>2. Knows(u)
      BY <1>6, <1>8, <3>1 DEF Knows, Changing, Storing
    <3>3. PlainTxn(p, u)
      BY <1>1, <1>3, <1>6, <1>8, <1>11 DEF PlainTxn, Slotted, BeforeCommit
    <3>4. PlainLock(p)
      BY <1>6, LockStays
    <3> QED  BY <1>6, <1>9, <3>2, <3>3, <3>4, PlainKeeps
<1>15. CASE c = FALSE
  <2>1. s < n
    <3>1. n \in Committed
      BY <1>10 DEF IInv, Newest
    <3>2. b \notin Committed
      BY <1>4, <1>15
    <3> QED  BY <1>11, <1>13, <3>1, <3>2
  <2>2. Snapshot(page, meta, pick_meta, hist, u)
    BY <1>8, <1>10, <1>15, <2>1 DEF Snapshot
  <2>3. Knows(u)
    BY <1>6, <1>8, <2>2 DEF Knows, Changing, Storing
  <2>4. PlainTxn(p, u)
    BY <1>1, <1>3, <1>6, <1>8, <1>11 DEF PlainTxn, Slotted, BeforeCommit
  <2>5. PlainLock(p)
    BY <1>6, LockStays
  <2> QED  BY <1>6, <1>9, <2>3, <2>4, <2>5, PlainKeeps
<1>16. c \in BOOLEAN
  BY <1>4
<1> QED  BY <1>14, <1>15, <1>16

(* A protected tree has page numbers for pages.                            *)
LEMMA TreeNumbers ==
    ASSUME NEW pg, NEW m, NEW root, NEW s, Protected(pg, m, root, s),
           Intact(pg, m.main, m.free, m.last_pg, m.txnid)
    PROVE  \A i \in Reachable(pg, root) : i \in 2..m.last_pg
<1>1. PICK recs : recs = Recs(pg, m.free)
  OBVIOUS
<1>2. PICK use : use = Reachable(pg, m.main) \cup Valid(m.free)
  OBVIOUS
<1>3. Parts(use, {}, {}, {}, recs, DOMAIN recs, m.last_pg)
  BY <1>1, <1>2 DEF Intact
<1>4. /\ \A i \in use : i \in 2..m.last_pg
      /\ \A j \in DOMAIN recs : \A i \in recs[j] : i \in 2..m.last_pg
  BY <1>3 DEF Parts
<1> QED  BY <1>1, <1>2, <1>4 DEF Protected

(* Copying the last page of the meta page: the tree that was copied before *)
(* lies below it.                                                          *)
LEMMA CopyLastPages ==
    ASSUME IInv, PagesInv, NEW p \in Procs, copy_last(p)
    PROVE  PagesInv'
<1>1. PICK t : t = txn[p]
  OBVIOUS
<1>2. PICK m : m = meta[t.txnid % 2]
  OBVIOUS
<1>3. PICK next : next = m.last_pg + 1
  OBVIOUS
<1>4. /\ page' = page /\ meta' = meta /\ hist' = hist /\ t.pc = "copy_last"
      /\ IsTxn(t)
  BY <1>1, StateFacts DEF copy_last
<1>5. CASE env[p].maxpg < next
  <2>1. /\ info' = [info EXCEPT !.slot[p] = Idle]
        /\ txn' = [txn EXCEPT ![p] = NoTxn]
        /\ env' = [env EXCEPT ![p] = Closed]
    BY <1>1, <1>2, <1>3, <1>5 DEF copy_last
  <2>2. Idle \in Nat
    BY BoundsAssumption DEF Idle
  <2>3. \A w \in Procs : env'[w].pgoldest \in {env[w].pgoldest, 0}
    BY <2>1 DEF Closed, IInv, Shape
  <2>4. PlainLock(p)
    BY <2>1, <2>2, <2>3, SlotSet
  <2>5. Goes(p, NoTxn)
    BY <1>4, <2>1, TxnSet, NoTxnForm DEF Goes, IInv
  <2> QED  BY <1>4, <2>4, <2>5, AsideKeeps, NoTxnForm DEF Aside
<1>6. CASE ~ (env[p].maxpg < next)
  <2>1. PICK b : b = (t.sound /\ t.from <= m.last_owner)
    OBVIOUS
  <2>2. PICK u : u = [t EXCEPT !.pc = "read", !.next_pgno = next, !.sound = b]
    OBVIOUS
  <2>3. txn' = [txn EXCEPT ![p] = u] /\ info' = info /\ env' = env
    <3>1. /\ txn' = [txn EXCEPT ![p].pc = "read", ![p].next_pgno = next,
                       ![p].sound = @ /\ txn[p].from <= m.last_owner]
          /\ info' = info /\ env' = env
      BY <1>1, <1>2, <1>3, <1>6, Zenon DEF copy_last
    <3> QED  BY <1>1, <2>1, <2>2, <3>1 DEF IInv, Shape, IsTxn, HasFields,
                                           TxnFields
  <2>4. /\ u.pc = "read" /\ u.next_pgno = next /\ u.sound = b
        /\ u.main = t.main /\ u.from = t.from /\ u.view = t.view
        /\ u.txnid = t.txnid
    BY <1>4, <2>2 DEF IsTxn, HasFields, TxnFields
  <2>5. Goes(p, u)
    BY <1>4, <2>3 DEF Goes, IInv, Shape
  <2>6. Snapshot(page, meta, pick_meta, hist, t)
    BY <1>1 DEF PagesInv, ReadersKnow
  <2>7. t.sound = TRUE => b = TRUE
    BY <1>2, <1>4, <2>1, <2>6 DEF Snapshot
  <2>8. b = TRUE => \A i \in Reachable(page, t.main) : i < next
    <3> SUFFICES ASSUME b = TRUE, NEW i \in Reachable(page, t.main)
                 PROVE  i < next
      OBVIOUS
    <3>1. t.sound
      BY <2>1
    <3>2. i <= m.last_pg /\ Protected(page, pick_meta, t.main, t.txnid)
      BY <1>2, <1>4, <2>6, <3>1 DEF Snapshot
    <3>3. i \in Nat
      BY <3>2, TreeNumbers, StateFacts
    <3>4. m.last_pg \in Nat
      <4>1. t.txnid % 2 \in 0..1
        BY <1>4 DEF IsTxn
      <4> QED  BY <1>2, <4>1, StateFacts DEF MetaPages
    <3> QED  BY <1>3, <3>2, <3>3, <3>4
  <2>9. Snapshot(page, meta, pick_meta, hist, u)
    <3>1. CASE b = TRUE
      <4>1. t.sound
        BY <2>1, <3>1
      <4> QED  BY <1>4, <2>4, <2>6, <2>8, <3>1, <4>1 DEF Snapshot
    <3>2. CASE b = FALSE
      <4>1. ~ t.sound
        BY <1>2, <1>4, <2>1, <2>6, <3>2 DEF Snapshot
      <4> QED  BY <1>4, <2>4, <2>6, <3>2, <4>1 DEF Snapshot
    <3> QED  BY <2>1, <3>1, <3>2
  <2>10. Knows(u)
    BY <1>4, <2>4, <2>9 DEF Knows, Changing, Storing
  <2>11. info.slot[p] = t.txnid
    BY <1>1, <1>4 DEF PagesInv, Watched, Slotted
  <2>12. PlainTxn(p, u)
    BY <1>1, <1>4, <2>3, <2>4, <2>11 DEF PlainTxn, Slotted, BeforeCommit
  <2>13. PlainLock(p)
    BY <2>3, LockStays
  <2> QED  BY <1>4, <2>5, <2>10, <2>12, <2>13, PlainKeeps
<1> QED  BY <1>5, <1>6

-----------------------------------------------------------------------------
(***************************************************************************)
(* Beginning a write transaction.                                          *)
(***************************************************************************)
(* A new transaction on the meta page m.                                   *)
Fresh(t, m) ==
    /\ t.pc = "write" /\ t.full = FALSE /\ t.head = FALSE
    /\ t.main = m.main /\ t.free = m.free
    /\ t.next_pgno = m.last_pg + 1
    /\ t.dirty = {} /\ t.free_pgs = {} /\ t.loose = {} /\ t.pghead = {}
    /\ t.pglast = 0

(* It accounts for every page of the committed state.                      *)
LEMMA FreshWorks ==
    ASSUME NEW pg, NEW m, m.txnid \in Nat, NEW t, Fresh(t, m),
           Intact(pg, m.main, m.free, m.last_pg, m.txnid)
    PROVE  Working(pg, m, t)
<1>1. PICK recs : recs = Recs(pg, m.free)
  OBVIOUS
<1>2. PICK use : use = Reachable(pg, m.main) \cup Valid(m.free)
  OBVIOUS
<1>3. PICK last : last = m.last_pg
  OBVIOUS
<1>4. /\ Parts(use, {}, {}, {}, recs, DOMAIN recs, last)
      /\ \A j \in DOMAIN recs : j \in 1..m.txnid
      /\ last \in Nat /\ 1 <= last /\ last <= MaxPgno
  BY <1>1, <1>2, <1>3 DEF Intact
<1>5. Left(0, recs) = DOMAIN recs
  BY <1>4 DEF Left
<1>6. /\ t.next_pgno \in Nat /\ last < t.next_pgno
      /\ t.next_pgno <= MaxPgno + 1 /\ t.next_pgno - 1 = last
  BY <1>3, <1>4, BoundsAssumption DEF Fresh
<1>7. Account(t, use, recs, last, m.txnid)
  BY <1>4, <1>5, <1>6 DEF Account, Fresh
<1>8. /\ m.main \in Nat /\ IsTree(pg, m.main)
      /\ m.free \notin Reachable(pg, m.main)
  BY DEF Intact
<1> QED  BY <1>1, <1>2, <1>3, <1>7, <1>8 DEF Working, Fresh

(* The mutex is taken with the lock file j, that of the process before or  *)
(* the repaired one.                                                       *)
LEMMA RenewPages ==
    ASSUME IInv, PagesInv, NEW p \in Procs, txn[p].pc = "grown",
           NEW j, HasFields(j, InfoFields), j.txnid = pick_meta.txnid,
           j.slot = info.slot, j.stale \subseteq Nat, renew0(p, j),
           page' = page, meta' = meta, hist' = hist
    PROVE  PagesInv'
<1>1. PICK m : m = meta[j.txnid % 2]
  OBVIOUS
<1>2. m = pick_meta /\ m.txnid \in Nat
      /\ Intact(page, m.main, m.free, m.last_pg, m.txnid)
  BY <1>1, StateFacts DEF MetaPages
<1>3. /\ info.txnid \in Nat /\ info.txnid <= pick_meta.txnid
      /\ \A w \in Procs : env[w].pgoldest \in Nat
  BY DEF IInv, Shape, PagesInv, Slots
<1>4. ASSUME info'.txnid = j.txnid, info'.slot = j.slot,
             info'.stale = j.stale,
             \A w \in Procs : env'[w].pgoldest \in {env[w].pgoldest, 0}
      PROVE  PlainLock(p)
  BY <1>2, <1>3, <1>4 DEF PlainLock, PagesInv, Slots
<1>5. CASE env[p].maxpg < m.last_pg + 1
  <2>1. /\ env' = [env EXCEPT ![p] = Closed]
        /\ txn' = [txn EXCEPT ![p] = NoTxn]
        /\ info' = j
    BY <1>1, <1>5 DEF renew0
  <2>2. \A w \in Procs : env'[w].pgoldest \in {env[w].pgoldest, 0}
    BY <2>1 DEF Closed, IInv, Shape
  <2>3. PlainLock(p)
    BY <1>4, <2>1, <2>2
  <2>4. Goes(p, NoTxn)
    BY <2>1, TxnSet, NoTxnForm DEF Goes, IInv
  <2> QED  BY <2>3, <2>4, AsideKeeps, NoTxnForm DEF Aside
<1>6. CASE ~ (env[p].maxpg < m.last_pg + 1)
  <2>1. PICK a, b, c, d : /\ a = j.txnid + 1 /\ b = m.main /\ c = m.free
                          /\ d = m.last_pg + 1
    OBVIOUS
  <2>2. PICK u : u = [NoTxn EXCEPT !.pc = "write", !.txnid = a, !.main = b,
                                   !.free = c, !.next_pgno = d]
    OBVIOUS
  <2>3. /\ env' = env
        /\ info' = [j EXCEPT !.wmutex = p]
        /\ txn' = [txn EXCEPT ![p] = u]
    <3>1. /\ env' = env
          /\ info' = [j EXCEPT !.wmutex = p]
          /\ txn' = [txn EXCEPT ![p] =
                        [NoTxn EXCEPT !.pc = "write", !.txnid = j.txnid + 1,
                                      !.main = m.main, !.free = m.free,
                                      !.next_pgno = m.last_pg + 1]]
      BY <1>1, <1>6, Zenon DEF renew0
    <3> QED  BY <2>1, <2>2, <3>1, Zenon
  <2>4. Fresh(u, m)
    BY <2>1, <2>2 DEF NoTxn, Fresh
  <2>5. Goes(p, u)
    BY <2>3 DEF Goes, IInv, Shape
  <2>6. Working(page, pick_meta, u)
    BY <1>2, <2>4, FreshWorks
  <2>7. u.pc = "write" /\ u.pglast = 0
    BY <2>4 DEF Fresh
  <2>8. Knows(u)
    BY <2>6, <2>7 DEF Knows, Storing, Snapshot
  <2>9. PlainTxn(p, u)
    BY <2>7 DEF PlainTxn, Slotted
  <2>10. info'.txnid = j.txnid /\ info'.slot = j.slot /\ info'.stale = j.stale
    BY <2>3 DEF HasFields, InfoFields
  <2>11. PlainLock(p)
    BY <1>4, <2>3, <2>10
  <2> QED  BY <2>5, <2>8, <2>9, <2>11, PlainKeeps
<1> QED  BY <1>5, <1>6

(* Beginning a transaction, after a commit or after a death.               *)
LEMMA BeginPages ==
    ASSUME IInv, PagesInv, NEW p \in Procs, txn_begin(p)
    PROVE  PagesInv'
<1>1. /\ txn[p].pc = "grown" /\ page' = page /\ meta' = meta /\ hist' = hist
      /\ env[p].open
  BY DEF txn_begin, IInv, Opened
<1>2. CASE info.wmutex = Free /\ renew0(p, info)
  <2>1. info.txnid = pick_meta.txnid
    BY <1>1, <1>2 DEF IInv, LockFile
  <2>2. HasFields(info, InfoFields) /\ info.stale \subseteq Nat
    BY DEF IInv, Shape, PagesInv, Slots
  <2> QED  BY <1>1, <1>2, <2>1, <2>2, RenewPages
<1>3. CASE info.wmutex = Dead
           /\ renew0(p, [mutex_failed(info) EXCEPT !.wmutex = Free])
  <2> DEFINE j == [mutex_failed(info) EXCEPT !.wmutex = Free]
  <2>1. PICK n : n = pick_meta.txnid
    OBVIOUS
  <2>2. j = [[[info EXCEPT !.stale = {}] EXCEPT !.txnid = n]
                EXCEPT !.wmutex = Free]
    BY <2>1 DEF mutex_failed, reader_check
  <2>3. /\ HasFields(j, InfoFields) /\ j.txnid = n /\ j.stale = {}
        /\ j.slot = info.slot
    <3> HIDE DEF j
    <3> QED  BY <2>2 DEF IInv, Shape, HasFields, InfoFields
  <2>4. renew0(p, j)
    BY <1>3
  <2> HIDE DEF j
  <2>5. j.stale \subseteq Nat
    BY <2>3
  <2> QED  BY <1>1, <2>1, <2>3, <2>4, <2>5, RenewPages
<1> QED  BY <1>2, <1>3 DEF txn_begin

-----------------------------------------------------------------------------
(***************************************************************************)
(* The changes of a write transaction.                                     *)
(***************************************************************************)
(* A write transaction that changes pages has its account, and the page of *)
(* the free database is not its own before mdb_freelist_save.              *)
Works(pg, t, m, e) ==
    /\ Partial(pg, pg, t, t, Recs(pg, m.free), m.last_pg, m.txnid, e)
    /\ Held(pg, t, t.main, Recs(pg, m.free), m.last_pg, m.txnid, e)
    /\ ~ Ours(t.pglast, Recs(pg, m.free), m.last_pg, m.free)
    /\ t.free = m.free
    /\ t.txnid = m.txnid + 1

(* This is so for the process that has the mutex.                          *)
LEMMA WriterWorks ==
    ASSUME IInv, PagesInv, NEW p \in Procs, txn[p].pc \in Changing
    PROVE  Works(page, txn[p], pick_meta, env[p]) /\ info.wmutex = p
<1>1. PICK t : t = txn[p]
  OBVIOUS
<1>2. PICK m : m = pick_meta
  OBVIOUS
<1>3. PICK recs : recs = Recs(page, m.free)
  OBVIOUS
<1>4. /\ Working(page, m, t) /\ IsTxn(t) /\ IsMap(page) /\ m.txnid \in Nat
      /\ Intact(page, m.main, m.free, m.last_pg, m.txnid)
  BY <1>1, <1>2, StateFacts DEF PagesInv, WritersKnow
<1>5. /\ t.txnid = m.txnid + 1 /\ info.txnid = m.txnid /\ info.wmutex = p
  BY <1>1, <1>2 DEF IInv, LockFile, Owner, Holding, BeforeCommit, Changing
<1>6. env[p].pgoldest \in Nat /\ env[p].pgoldest <= m.txnid
  BY <1>5 DEF PagesInv, Slots
<1>7. /\ m.last_pg \in Nat /\ 1 <= m.last_pg /\ m.free \in Nat
      /\ Parts(Reachable(page, m.main) \cup Valid(m.free), {}, {}, {}, recs,
               DOMAIN recs, m.last_pg)
      /\ \A j \in DOMAIN recs : j \in 1..m.txnid
  BY <1>3, <1>4 DEF Intact
<1>8. Base(recs, m.last_pg, m.txnid)
  BY <1>4, <1>7 DEF Base, Parts
<1>9. t.free = m.free /\ Agree(page, t, recs)
  <2>1. t.free = m.free
    BY <1>4 DEF Working
  <2> QED  BY <1>3, <1>7, <2>1 DEF Agree
<1>10. Account(t, Reachable(page, t.main) \cup Valid(t.free), recs, m.last_pg,
               m.txnid)
  BY <1>3, <1>4 DEF Working
<1>11. Ready(page, t, Reachable(page, t.main) \cup Valid(t.free), recs,
             m.last_pg, m.txnid, env[p])
  BY <1>4, <1>6, <1>8, <1>9, <1>10 DEF Ready, Working
<1>12. Held(page, t, t.main, recs, m.last_pg, m.txnid, env[p])
  BY <1>4, <1>7, <1>9, <1>11 DEF Held, Working
<1>13. Partial(page, page, t, t, recs, m.last_pg, m.txnid, env[p])
  BY <1>4, <1>10 DEF Partial, Spared, UsedUp, Account
<1>14. ~ Ours(t.pglast, recs, m.last_pg, m.free)
  <2>1. CASE m.free = P_INVALID
    BY <1>7, <1>8, <2>1 DEF Ours, Base, P_INVALID
  <2>2. CASE m.free # P_INVALID
    BY <1>7, <2>2 DEF Ours, Parts, Valid
  <2> QED  BY <2>1, <2>2
<1> QED  BY <1>1, <1>2, <1>3, <1>5, <1>9, <1>12, <1>13, <1>14 DEF Works

(* A writer that stays in its transaction and leaves the lock file alone.  *)
LEMMA WriterWatch ==
    ASSUME IInv, PagesInv, NEW p \in Procs, NEW u,
           \A q \in Procs : txn'[q] = IF q = p THEN u ELSE txn[q],
           pick_meta'.txnid \in Nat, pick_meta.txnid <= pick_meta'.txnid,
           info' = info, env' = env, u.pc \notin Slotted \cup {"check"},
           u.pc \in BeforeCommit =>
              \A q \in Procs :
                 txn[q].pc \in Slotted => u.pglast <= txn[q].txnid
    PROVE  Slots' /\ Watched'
<1>1. /\ pick_meta.txnid \in Nat /\ info.txnid \in Nat
      /\ \A q \in Procs : txn[q].txnid \in Nat
  BY StateFacts DEF IInv, Shape
<1>2. Slots'
  BY <1>1 DEF PagesInv, Slots
<1>3. ASSUME NEW q \in Procs, txn'[q].pc \in Slotted \cup {"check"}
      PROVE  q # p /\ txn'[q] = txn[q]
  BY <1>3
<1>4. ASSUME NEW q \in Procs, txn'[q].pc \in Slotted,
             NEW w \in Procs, txn'[w].pc \in BeforeCommit
      PROVE  txn'[w].pglast <= txn'[q].txnid
  <2>1. txn'[q] = txn[q]
    BY <1>3, <1>4
  <2>2. CASE w = p
    BY <1>4, <2>1, <2>2
  <2>3. CASE w # p
    BY <1>4, <2>1, <2>3 DEF PagesInv, Watched
  <2> QED  BY <2>2, <2>3
<1>5. ASSUME NEW q \in Procs, txn'[q].pc \in Slotted
      PROVE  /\ txn'[q].txnid <= pick_meta'.txnid
             /\ \A w \in Procs : env[w].pgoldest <= txn'[q].txnid
  <2>1. txn'[q] = txn[q]
    BY <1>3, <1>5
  <2>2. txn[q].txnid <= pick_meta.txnid
        /\ \A w \in Procs : env[w].pgoldest <= txn[q].txnid
    BY <1>5, <2>1 DEF PagesInv, Watched
  <2> QED  BY <1>1, <2>1, <2>2
<1>6. ASSUME NEW q \in Procs, txn'[q].pc \in Slotted \cup {"check"}
      PROVE  info.slot[q] = txn'[q].txnid
  <2>1. txn'[q] = txn[q]
    BY <1>3, <1>6
  <2> QED  BY <1>6, <2>1 DEF PagesInv, Watched
<1>7. Watched'
  BY <1>4, <1>5, <1>6 DEF Watched
<1> QED  BY <1>2, <1>7

(* The pages of the map change by a writer; when the map is full it is     *)
(* gone.                                                                   *)
LEMMA ChangeKeeps ==
    ASSUME IInv, PagesInv, NEW p \in Procs, txn[p].pc \in Changing,
           NEW q, NEW v, Changed(p, q, v), meta' = meta, hist' = hist,
           Partial(page, q, txn[p], v, Recs(page, pick_meta.free),
                   pick_meta.last_pg, pick_meta.txnid, env[p]),
           v.full \in BOOLEAN, v.pc \in BeforeCommit,
           (v.full = FALSE /\ page' = q) => Knows(v)
    PROVE  PagesInv'
<1>1. PICK g : g = v.pglast
  OBVIOUS
<1>2. info.wmutex = p /\ page' = q
  BY WriterWorks DEF Changed
<1>3. Frame(page, page', pick_meta, g)
  BY <1>1, <1>2, StateFacts DEF Frame, Partial
<1>4. ASSUME NEW w \in Procs, txn[w].pc \in Slotted
      PROVE  g <= txn[w].txnid
  <2>1. /\ txn[w].txnid \in Nat /\ env[p].pgoldest \in Nat
        /\ env[p].pgoldest <= txn[w].txnid
        /\ txn[p].pglast <= txn[w].txnid
    BY <1>4, StateFacts
       DEF PagesInv, Slots, Watched, Changing, BeforeCommit
  <2>2. g \in Nat /\ (g = txn[p].pglast \/ g < env[p].pgoldest)
    BY <1>1 DEF Partial, UsedUp
  <2> QED  BY <2>1, <2>2
<1>5. CASE v.full = TRUE
  <2>1. Gone(p, Dead)
    BY <1>5 DEF Changed
  <2>2. Goes(p, NoTxn) /\ PlainLock(p)
    BY <2>1, GoneLock DEF Goes
  <2>3. NoTxn.pc = "idle"
    BY NoTxnForm
  <2>4. Knows(NoTxn) /\ PlainTxn(p, NoTxn)
    BY <2>3, NothingToKnow
       DEF Changing, Storing, PlainTxn, Slotted, BeforeCommit
  <2>5. Slots' /\ Watched'
    BY <2>2, <2>4, PlainWatch
  <2> QED  BY <1>2, <1>3, <1>4, <2>2, <2>4, <2>5, StepKeeps
<1>6. CASE v.full = FALSE
  <2>1. txn' = [txn EXCEPT ![p] = v] /\ info' = info /\ env' = env
    BY <1>6 DEF Changed
  <2>2. Goes(p, v)
    BY <2>1 DEF Goes, IInv, Shape
  <2>3. Knows(v)
    BY <1>2, <1>6
  <2>4. Slots' /\ Watched'
    <3>1. v.pc \notin Slotted \cup {"check"}
      BY DEF BeforeCommit, Slotted
    <3>2. /\ \A w \in Procs : txn'[w] = IF w = p THEN v ELSE txn[w]
          /\ pick_meta'.txnid \in Nat /\ pick_meta.txnid <= pick_meta'.txnid
      BY <2>2, StateFacts DEF Goes, pick_meta
    <3> QED  BY <1>1, <1>4, <2>1, <3>1, <3>2, WriterWatch
  <2> QED  BY <1>2, <1>3, <1>4, <2>2, <2>3, <2>4, StepKeeps
<1> QED  BY <1>5, <1>6

(* After a change of the tree the writer works on.                         *)
LEMMA ChangeKnows ==
    ASSUME IInv, PagesInv, NEW p \in Procs, NEW q, NEW v, v.pc = "write",
           ChangeMade(page, q, txn[p], v, pick_meta, env[p]), v.full = FALSE,
           v.free = pick_meta.free, page' = q
    PROVE  Knows(v)
<1>1. PICK m : m = pick_meta
  OBVIOUS
<1>2. Partial(page, q, txn[p], v, Recs(page, m.free), m.last_pg, m.txnid,
              env[p])
      /\ Held(q, v, v.main, Recs(page, m.free), m.last_pg, m.txnid, env[p])
  BY <1>1 DEF ChangeMade
<1>3. Frame(page, q, m, v.pglast)
  BY <1>1, <1>2, StateFacts DEF Frame, Partial
<1>4. Recs(q, m.free) = Recs(page, m.free)
  BY <1>3, FrameMain DEF MainStays
<1>5. Working(q, m, v)
  BY <1>1, <1>2, <1>4 DEF Working, Held, Ready
<1> QED  BY <1>1, <1>5 DEF Knows, Storing, Snapshot

(* Putting a key.                                                          *)
LEMMA PutPages ==
    ASSUME IInv, PagesInv, NEW p \in Procs, NEW k \in Key, put(p, k)
    PROVE  PagesInv'
<1>1. PICK t : t = txn[p]
  OBVIOUS
<1>2. PICK e : e = env[p]
  OBVIOUS
<1>3. PICK val : val = <<txn[p].txnid, opens>>
  OBVIOUS
<1>4. PICK c : c = Path(page, t, e, k)
  OBVIOUS
<1>5. PICK pg : pg = IF c.t.full THEN c.pg ELSE SetLeaf(c.pg, c.np, val)
  OBVIOUS
<1>6. PICK u : u = [c.t EXCEPT !.puts = @ + 1, !.found_old = FALSE]
  OBVIOUS
<1>7. /\ t.pc = "write" /\ t.pc \in Changing /\ t.next_pgno < MaxPgno
      /\ meta' = meta /\ hist' = hist
  BY <1>1 DEF put, Room, Changing
<1>8. Changed(p, pg, u)
  <2>1. PICK r : r = RootTouched(p)
    OBVIOUS
  <2>2. c = IF r.t.full THEN r ELSE LeafTouched(r, env[p], k)
    BY <1>1, <1>2, <1>4, <2>1 DEF Path, RootTouched
  <2>3. Changed(p, IF c.t.full THEN c.pg
                   ELSE [c.pg EXCEPT ![c.np].leaf =
                            <<txn[p].txnid, opens>>],
                [c.t EXCEPT !.puts = @ + 1, !.found_old = FALSE])
    BY <2>1, <2>2, Zenon DEF put
  <2> QED  BY <1>3, <1>5, <1>6, <2>3, Zenon DEF SetLeaf
<1>9. Works(page, t, pick_meta, e) /\ IsMap(page)
  BY <1>1, <1>2, <1>7, WriterWorks, StateFacts
<1>10. Same(t, c.t, ChangeFields)
  BY <1>4, <1>7, <1>9, PathAccount DEF Works
<1>11. Same(c.t, u, {"puts", "found_old"})
  BY <1>6, <1>10 DEF Same, IsTxn, HasFields, TxnFields
<1>12. ChangeMade(page, pg, t, u, pick_meta, e)
  BY <1>4, <1>5, <1>7, <1>9, <1>11, PutAccount DEF Works
<1>13. u.pc = "write" /\ u.free = pick_meta.free
  BY <1>7, <1>9, <1>10, <1>11
     DEF Works, Same, ChangeFields, AllocFields, TxnFields
<1>14. (u.full = FALSE /\ page' = pg) => Knows(u)
  BY <1>1, <1>2, <1>12, <1>13, ChangeKnows
<1> QED  BY <1>1, <1>2, <1>7, <1>8, <1>12, <1>13, <1>14, ChangeKeeps
         DEF ChangeMade, BeforeCommit

(* Taking a leaf out of the tree leaves the free database alone.           *)
LEMMA UnlinkedKeepsFree ==
    ASSUME NEW c, IsTxn(c.t), NEW k
    PROVE  /\ Unlinked(c, k).t.free = c.t.free
           /\ Unlinked(c, k).t.pc = c.t.pc
           /\ IsTxn(Unlinked(c, k).t)
<1>1. PICK t : t = page_loose(c.t, c.np)
  OBVIOUS
<1>2. PICK w : w = [t EXCEPT !.main = P_INVALID,
                             !.free_pgs = @ \cup {c.t.main}]
  OBVIOUS
<1>3. IsTxn(t) /\ t.free = c.t.free /\ t.pc = c.t.pc
  BY <1>1 DEF page_loose, IsTxn, HasFields, TxnFields
<1>4. IsTxn(w) /\ w.free = c.t.free /\ w.pc = c.t.pc
  BY <1>2, <1>3 DEF IsTxn, HasFields, TxnFields
<1>5. Unlinked(c, k).t = t \/ Unlinked(c, k).t = w
  BY <1>1, <1>2, Zenon DEF Unlinked
<1> QED  BY <1>3, <1>4, <1>5

(* Deleting a key.                                                         *)
LEMMA DelPages ==
    ASSUME IInv, PagesInv, NEW p \in Procs, NEW k \in Key, del(p, k)
    PROVE  PagesInv'
<1>1. PICK t : t = txn[p]
  OBVIOUS
<1>2. PICK e : e = env[p]
  OBVIOUS
<1>3. PICK c : c = Path(page, t, e, k)
  OBVIOUS
<1>4. PICK w : w = IF c.t.full THEN c ELSE Unlinked(c, k)
  OBVIOUS
<1>5. PICK u : u = [w.t EXCEPT !.puts = @ + 1, !.found_old = FALSE]
  OBVIOUS
<1>6. /\ t.pc = "write" /\ t.pc \in Changing /\ t.next_pgno < MaxPgno
      /\ meta' = meta /\ hist' = hist
  BY <1>1 DEF del, Room, Changing
<1>7. Changed(p, w.pg, u)
  <2>1. PICK r : r = RootTouched(p)
    OBVIOUS
  <2>2. c = IF r.t.full THEN r ELSE LeafTouched(r, env[p], k)
    BY <1>1, <1>2, <1>3, <2>1 DEF Path, RootTouched
  <2>3. Changed(p, w.pg, [w.t EXCEPT !.puts = @ + 1, !.found_old = FALSE])
    BY <1>4, <2>1, <2>2, Zenon DEF del
  <2> QED  BY <1>5, <2>3
<1>8. Works(page, t, pick_meta, e) /\ IsMap(page)
  BY <1>1, <1>2, <1>6, WriterWorks, StateFacts
<1>9. Same(t, c.t, ChangeFields)
  BY <1>3, <1>6, <1>8, PathAccount DEF Works
<1>10. IsTxn(w.t) /\ w.t.free = c.t.free /\ w.t.pc = c.t.pc
  BY <1>4, <1>9, UnlinkedKeepsFree DEF Same
<1>11. Same(w.t, u, {"puts", "found_old"})
  BY <1>5, <1>10 DEF Same, IsTxn, HasFields, TxnFields
<1>12. ChangeMade(page, w.pg, t, u, pick_meta, e)
  BY <1>3, <1>4, <1>6, <1>8, <1>11, DelAccount DEF Works
<1>13. u.pc = "write" /\ u.free = pick_meta.free
  BY <1>6, <1>8, <1>9, <1>10, <1>11
     DEF Works, Same, ChangeFields, AllocFields, TxnFields
<1>14. (u.full = FALSE /\ page' = w.pg) => Knows(u)
  BY <1>1, <1>2, <1>12, <1>13, ChangeKnows
<1> QED  BY <1>1, <1>2, <1>6, <1>7, <1>12, <1>13, <1>14, ChangeKeeps
         DEF ChangeMade, BeforeCommit

(* Scanning the reader table.                                              *)
LEMMA FindOldestPages ==
    ASSUME IInv, PagesInv, NEW p \in Procs, find_oldest(p)
    PROVE  PagesInv'
<1>1. PICK t : t = txn[p]
  OBVIOUS
<1>2. PICK o : o = Oldest(t)
  OBVIOUS
<1>3. /\ page' = page /\ meta' = meta /\ hist' = hist /\ info' = info
      /\ t.pc \in Changing /\ IsTxn(t) /\ t.txnid = info.txnid + 1
      /\ info.txnid \in Nat
  BY <1>1, StateFacts
     DEF find_oldest, Changing, IInv, LockFile, BeforeCommit, Shape
<1>4. /\ o \in Nat /\ o <= info.txnid
      /\ \A q \in Procs : o <= info.slot[q]
  <2>1. PICK B : B = {t.txnid - 1} \cup info.stale
                     \cup {info.slot[q] : q \in Procs}
    OBVIOUS
  <2>2. B \in SUBSET Nat /\ info.txnid \in B
        /\ \A q \in Procs : info.slot[q] \in B
    BY <1>3, <2>1 DEF PagesInv, Slots
  <2>3. o = Min(B)
    BY <1>2, <2>1 DEF Oldest
  <2> QED  BY <2>2, <2>3, LeastNumber
<1>5. /\ env'[p].pgoldest = o
      /\ \A w \in Procs : w # p => env'[w] = env[w]
  <2>1. env' = [env EXCEPT ![p].pgoldest = o]
    BY <1>1, <1>2 DEF find_oldest
  <2> QED  BY <2>1 DEF IInv, Shape, HasFields, EnvFields
<1>6. PICK u : u = [t EXCEPT !.found_old = TRUE]
  OBVIOUS
<1>7. Same(t, u, {"found_old"})
  BY <1>3, <1>6 DEF Same, IsTxn, HasFields, TxnFields
<1>8. Goes(p, u)
  <2>1. txn' = [txn EXCEPT ![p] = u]
    BY <1>1, <1>6 DEF find_oldest, IInv, Shape
  <2> QED  BY <1>3, <2>1 DEF Goes, IInv, Shape
<1>9. u.pc = t.pc /\ u.pglast = t.pglast
  BY <1>7 DEF Same, TxnFields
<1>10. Knows(u)
  <2>1. Working(page, pick_meta, t)
    BY <1>1, <1>3 DEF PagesInv, WritersKnow
  <2>2. Working(page, pick_meta, u)
    BY <1>7, <2>1 DEF Same, TxnFields, Working, Account
  <2> QED  BY <1>3, <1>9, <2>2 DEF Knows, Changing, Storing, Snapshot
<1>11. Frame(page, page', pick_meta, 0)
  BY <1>3, StateFacts DEF Frame, Spared
<1>12. pick_meta' = pick_meta
  BY <1>3 DEF pick_meta
<1>13. Slots'
  <2>1. \A w \in Procs : /\ env'[w].pgoldest \in Nat
                         /\ env'[w].pgoldest <= info.txnid
    BY <1>4, <1>5 DEF PagesInv, Slots
  <2> QED  BY <1>3, <1>12, <2>1 DEF PagesInv, Slots
<1>14. \A q \in Procs :
          /\ txn'[q].pc = txn[q].pc /\ txn'[q].pglast = txn[q].pglast
          /\ txn'[q].txnid = txn[q].txnid
  <2>1. u.txnid = t.txnid
    BY <1>7 DEF Same, TxnFields
  <2> QED  BY <1>1, <1>8, <1>9, <2>1 DEF Goes
<1>15. ASSUME NEW q \in Procs, txn[q].pc \in Slotted, NEW w \in Procs
       PROVE  env'[w].pgoldest <= txn[q].txnid
  <2>1. info.slot[q] = txn[q].txnid /\ env[w].pgoldest <= txn[q].txnid
    BY <1>15 DEF PagesInv, Watched
  <2> QED  BY <1>4, <1>5, <2>1
<1>16. Watched'
  BY <1>3, <1>12, <1>14, <1>15 DEF PagesInv, Watched
<1> QED
  <2>1. \A q \in Procs : txn[q].pc \in Slotted => 0 <= txn[q].txnid
    BY StateFacts
  <2> QED  BY <1>3, <1>8, <1>10, <1>11, <1>13, <1>16, <2>1, StepKeeps

-----------------------------------------------------------------------------
(***************************************************************************)
(* Committing.                                                             *)
(***************************************************************************)
(* What mdb_freelist_save stores is the next committed state.              *)
LEMMA SaveKnows ==
    ASSUME IInv, PagesInv, NEW p \in Procs, txn[p].pc \in Changing,
           NEW c, AllSaved(page, txn[p], Recs(page, pick_meta.free),
                           pick_meta.last_pg, pick_meta.txnid, env[p],
                           pick_meta.free, c),
           c.t.full = FALSE, NEW u, u.pc = "dbs", Same(c.t, u, {"pc"}),
           page' = c.pg
    PROVE  Knows(u)
<1>1. PICK m : m = pick_meta
  OBVIOUS
<1>2. PICK q : q = c.pg
  OBVIOUS
<1>3. PICK old : old = Recs(page, m.free)
  OBVIOUS
<1>4. /\ Partial(page, q, txn[p], c.t, old, m.last_pg, m.txnid, env[p])
      /\ FreeSaved(q, c.t, old, m.last_pg, m.free)
  BY <1>1, <1>2, <1>3 DEF AllSaved
<1>5. /\ u.txnid = c.t.txnid /\ u.main = c.t.main /\ u.free = c.t.free
      /\ u.next_pgno = c.t.next_pgno /\ u.pglast = c.t.pglast
  BY DEF Same, TxnFields
<1>6. Frame(page, q, m, c.t.pglast)
  BY <1>1, <1>3, <1>4, StateFacts DEF Frame, Partial
<1>7. Recs(q, m.free) = old /\ Reachable(q, m.main) = Reachable(page, m.main)
  BY <1>3, <1>6, FrameMain DEF MainStays
<1>8. /\ Parts(Reachable(page, m.main) \cup Valid(m.free), {}, {}, {}, old,
               DOMAIN old, m.last_pg)
      /\ m.free \notin Reachable(page, m.main)
      /\ \A j \in DOMAIN old : j \in 1..m.txnid
      /\ m.txnid \in Nat
  BY <1>1, <1>3, StateFacts DEF Intact
<1>9. PICK new : new = Recs(q, u.free)
  OBVIOUS
<1>10. \A i \in Reachable(page, m.main) :
          \/ i \in Reachable(q, u.main)
          \/ u.txnid \in DOMAIN new /\ i \in new[u.txnid]
  <2> SUFFICES ASSUME NEW i \in Reachable(page, m.main)
               PROVE  \/ i \in Reachable(q, u.main)
                      \/ u.txnid \in DOMAIN new /\ i \in new[u.txnid]
    OBVIOUS
  <2>1. /\ i \in 2..m.last_pg /\ i # m.free
        /\ \A j \in DOMAIN old : i \notin old[j]
    BY <1>8 DEF Parts
  <2> QED  BY <1>4, <1>5, <1>9, <2>1 DEF FreeSaved
<1>11. \A j \in DOMAIN old :
          u.pglast < j => j \in DOMAIN new /\ new[j] = old[j]
  <2> SUFFICES ASSUME NEW j \in DOMAIN old, u.pglast < j
               PROVE  j \in DOMAIN new /\ new[j] = old[j]
    OBVIOUS
  <2>1. j > u.pglast
    BY <1>4, <1>5, <1>8 DEF Partial
  <2>2. j \in Left(c.t.pglast, old)
    BY <1>5, <2>1 DEF Left
  <2> QED  BY <1>4, <1>5, <1>9, <2>2 DEF FreeSaved
<1>12. /\ Intact(q, u.main, u.free, u.next_pgno - 1, u.txnid)
       /\ u.next_pgno \in Nat /\ m.last_pg < u.next_pgno
       /\ u.pglast \in Nat /\ (u.pglast = 0 \/ u.pglast < m.txnid)
  BY <1>4, <1>5 DEF FreeSaved, Partial
<1>13. Saved(q, meta, m, u)
  BY <1>7, <1>9, <1>10, <1>11, <1>12 DEF Saved
<1> QED  BY <1>1, <1>2, <1>13 DEF Knows, Changing, Snapshot

(* Saving the free list.                                                   *)
LEMMA FreelistSavePages ==
    ASSUME IInv, PagesInv, NEW p \in Procs, freelist_save(p)
    PROVE  PagesInv'
<1>1. PICK t : t = txn[p]
  OBVIOUS
<1>2. PICK e : e = env[p]
  OBVIOUS
<1>3. PICK s0 : s0 = [pg |-> page, t |-> t]
  OBVIOUS
<1>4. PICK s1 : s1 = TouchFirst(s0, e)
  OBVIOUS
<1>5. PICK s2 : s2 = TouchToDelete(LooseToFreed(s1), e)
  OBVIOUS
<1>6. PICK s3 : s3 = TouchToSave(DeleteUsed(s2), e)
  OBVIOUS
<1>7. PICK c : c = SaveHead(DeleteUsed(SaveFreed(s3)))
  OBVIOUS
<1>8. PICK u : u = [c.t EXCEPT !.pc = "dbs"]
  OBVIOUS
<1>9. /\ t.pc = "save" /\ t.pc \in Changing /\ t.next_pgno < MaxPgno
      /\ meta' = meta /\ hist' = hist
  BY <1>1 DEF freelist_save, Room, Changing
<1>10. Changed(p, c.pg, u)
  BY <1>1, <1>2, <1>3, <1>4, <1>5, <1>6, <1>7, <1>8, Zenon DEF freelist_save
<1>11. IsWork(c, t)
  <2>1. IsWork(s0, t)
    BY <1>1, <1>3, StateFacts DEF IsWork, HasFields, SameTxn
  <2>2. IsWork(s1, t)
    BY <1>4, <2>1, SavesKeepTxn
  <2>3. IsWork(LooseToFreed(s1), t)
    BY <2>2, SavesKeepTxn
  <2>4. IsWork(s2, t)
    BY <1>5, <2>3, SavesKeepTxn
  <2>5. IsWork(DeleteUsed(s2), t)
    BY <2>4, SavesKeepTxn
  <2>6. IsWork(s3, t)
    BY <1>6, <2>5, SavesKeepTxn
  <2>7. IsWork(SaveFreed(s3), t)
    BY <2>6, SavesKeepTxn
  <2>8. IsWork(DeleteUsed(SaveFreed(s3)), t)
    BY <2>7, SavesKeepTxn
  <2> QED  BY <1>7, <2>8, SavesKeepTxn
<1>12. u.pc = "dbs" /\ Same(c.t, u, {"pc"})
  BY <1>8, <1>11 DEF IsWork, SameTxn, Same, IsTxn, HasFields, TxnFields
<1>13. Works(page, t, pick_meta, e) /\ IsMap(page)
  BY <1>1, <1>2, <1>9, WriterWorks, StateFacts
<1>14. PICK recs : recs = Recs(page, pick_meta.free)
  OBVIOUS
<1>15. AllSaved(page, t, recs, pick_meta.last_pg, pick_meta.txnid, e,
                pick_meta.free, c)
  <2>1. /\ Partial(page, page, t, t, recs, pick_meta.last_pg,
                   pick_meta.txnid, e)
        /\ Held(page, t, t.main, recs, pick_meta.last_pg, pick_meta.txnid, e)
        /\ recs = Recs(page, t.free) /\ t.free = pick_meta.free
        /\ ~ Ours(t.pglast, recs, pick_meta.last_pg, t.free)
        /\ t.txnid = pick_meta.txnid + 1
    BY <1>13, <1>14 DEF Works
  <2>2. AllSaved(page, t, recs, pick_meta.last_pg, pick_meta.txnid, e,
                 t.free, c)
    BY <1>3, <1>4, <1>5, <1>6, <1>7, <1>9, <2>1, FreelistAccount
  <2> QED  BY <2>1, <2>2
<1>16. u.full = c.t.full /\ u.pglast = c.t.pglast
  BY <1>12 DEF Same, TxnFields
<1>17. (u.full = FALSE /\ page' = c.pg) => Knows(u)
  BY <1>1, <1>2, <1>9, <1>12, <1>14, <1>15, <1>16, SaveKnows
<1>18. Partial(page, c.pg, t, u, recs, pick_meta.last_pg, pick_meta.txnid, e)
       /\ u.full \in BOOLEAN
  BY <1>15, <1>16 DEF AllSaved, Partial, UsedUp
<1> QED  BY <1>1, <1>2, <1>9, <1>10, <1>12, <1>14, <1>17, <1>18, ChangeKeeps
         DEF BeforeCommit

(* The meta page that the next transaction writes to is the older one.     *)
LEMMA PickedOlder ==
    ASSUME IInv, PagesInv, NEW x, x = (pick_meta.txnid + 1) % 2
    PROVE  /\ x \in 0..1 /\ pick_meta.txnid % 2 = 1 - x
           /\ pick_meta = meta[1 - x]
           /\ pick_meta = meta[IF meta[0].txnid < meta[1].txnid THEN 1 ELSE 0]
           /\ (IF meta[0].txnid < meta[1].txnid THEN 1 ELSE 0) = 1 - x
<1>1. PICK n : n = pick_meta.txnid
  OBVIOUS
<1>2. PICK i : i = IF meta[0].txnid < meta[1].txnid THEN 1 ELSE 0
  OBVIOUS
<1>3. n \in Nat /\ pick_meta = meta[n % 2] /\ pick_meta = meta[i]
  BY <1>1, <1>2, StateFacts DEF MetaPages, pick_meta
<1>4. /\ n % 2 \in 0..1 /\ (n + 1) % 2 \in 0..1
      /\ (n + 1) % 2 = 1 - (n % 2)
  BY <1>3
<1>5. \A y \in 0..1 : meta[y].txnid = 0 \/ meta[y].txnid % 2 = y
  BY StateFacts DEF MetaPages
<1>6. meta[0].txnid \in Nat /\ meta[1].txnid \in Nat
  BY DEF IInv, Shape
<1>7. i = n % 2
  <2>1. meta[i].txnid = n
    BY <1>1, <1>3
  <2>2. i \in 0..1
    BY <1>2
  <2>3. CASE n = 0
    BY <1>2, <1>4, <1>6, <2>1, <2>3
  <2>4. CASE n # 0
    BY <1>5, <2>1, <2>2, <2>4
  <2> QED  BY <2>3, <2>4
<1> QED  BY <1>1, <1>2, <1>3, <1>4, <1>7

(* A process writes the roots, or the last page, of the older meta page:   *)
(* the newest one stays.                                                   *)
MetaFilled(p, u, x, o) ==
    /\ txn[p].pc \in Storing /\ u.pc \in Storing
    /\ x = txn[p].txnid % 2
    /\ \A q \in Procs : txn'[q] = IF q = p THEN u ELSE txn[q]
    /\ meta' = [meta EXCEPT ![x] = o]
    /\ o.txnid = meta[x].txnid /\ o.owner = txn[p].txnid
    /\ o.last_owner \in Nat /\ o.last_pg \in Nat
    /\ page' = page /\ info' = info /\ env' = env /\ hist' = hist
    /\ u.pglast = txn[p].pglast
    /\ Saved(page, meta', pick_meta, u)
    /\ \A q \in Procs : q # p =>
          Snapshot(page, meta', pick_meta, hist, txn[q])

(* Such a step keeps what is known.                                        *)
LEMMA MetaFilledKeeps ==
    ASSUME IInv, PagesInv, NEW p \in Procs, NEW u, NEW x, NEW o,
           MetaFilled(p, u, x, o)
    PROVE  PagesInv'
<1>1. PICK n : n = pick_meta.txnid
  OBVIOUS
<1>2. txn[p].txnid = n + 1 /\ n \in Nat
      /\ MetaPages(page, meta, pick_meta, hist)
  BY <1>1, StateFacts DEF MetaFilled, IInv, LockFile, BeforeCommit, Storing
<1>3. /\ x \in 0..1 /\ n % 2 = 1 - x /\ pick_meta = meta[1 - x]
      /\ (IF meta[0].txnid < meta[1].txnid THEN 1 ELSE 0) = 1 - x
  BY <1>1, <1>2, PickedOlder DEF MetaFilled
<1>4. \A y \in 0..1 : meta'[y] = IF y = x THEN o ELSE meta[y]
  BY <1>3 DEF MetaFilled, IInv, Shape
<1>5. pick_meta' = pick_meta
  <2>1. meta'[0].txnid = meta[0].txnid /\ meta'[1].txnid = meta[1].txnid
    BY <1>4 DEF MetaFilled
  <2>2. pick_meta' = meta'[1 - x]
    BY <1>3, <2>1 DEF pick_meta
  <2> QED  BY <1>3, <1>4, <2>2
<1>6. Store'
  <2>1. n + 1 \notin DOMAIN hist
    <3>1. n + 1 \notin Committed
      BY <1>1, <1>2 DEF IInv, Newest
    <3> QED  BY <3>1 DEF Committed
  <2>2. ASSUME NEW y \in 0..1
        PROVE  /\ meta'[y].owner \in Nat /\ meta'[y].last_owner \in Nat
               /\ meta'[y].last_pg \in Nat
               /\ meta'[y].txnid = 0 \/ meta'[y].txnid % 2 = y
               /\ meta'[y].owner \in DOMAIN hist =>
                     Describes(page, pick_meta, hist, meta'[y])
    <3>1. CASE y = x
      BY <1>2, <1>4, <2>1, <3>1 DEF MetaFilled, MetaPages
    <3>2. CASE y # x
      BY <1>2, <1>4, <3>2 DEF MetaPages
    <3> QED  BY <3>1, <3>2
  <2>3. pick_meta = meta'[n % 2]
    BY <1>3, <1>4
  <2>4. MetaPages(page, meta', pick_meta, hist)
    BY <1>1, <1>2, <2>2, <2>3 DEF MetaPages
  <2>5. IsMap(page) /\ page' = page /\ hist' = hist
    BY StateFacts DEF MetaFilled
  <2> QED  BY <1>5, <2>4, <2>5 DEF Store
<1>7. WritersKnow'
  <2> SUFFICES ASSUME NEW q \in Procs
               PROVE  /\ txn'[q].pc \in Changing =>
                            Working(page, pick_meta, txn'[q])
                      /\ txn'[q].pc \in Storing =>
                            Saved(page, meta', pick_meta, txn'[q])
    BY <1>5 DEF WritersKnow, MetaFilled
  <2>1. CASE q = p
    BY <2>1 DEF MetaFilled, Changing, Storing
  <2>2. CASE q # p
    <3>1. info.wmutex = p
      BY DEF MetaFilled, IInv, Owner, Holding, Storing
    <3>2. txn[q].pc \notin Holding
      BY <2>2, <3>1 DEF IInv, Owner
    <3> QED  BY <2>2, <3>2 DEF MetaFilled, Holding, Changing, Storing
  <2> QED  BY <2>1, <2>2
<1>8. ReadersKnow'
  <2> SUFFICES ASSUME NEW q \in Procs
               PROVE  Snapshot(page, meta', pick_meta, hist, txn'[q])
    BY <1>5 DEF ReadersKnow, MetaFilled
  <2>1. CASE q = p
    BY <2>1 DEF MetaFilled, Snapshot, Storing
  <2>2. CASE q # p
    BY <2>2 DEF MetaFilled
  <2> QED  BY <2>1, <2>2
<1>9. Slots' /\ Watched'
  <2>1. u.pc \notin Slotted \cup {"check"}
    BY DEF MetaFilled, Storing, Slotted
  <2>2. pick_meta'.txnid \in Nat /\ pick_meta.txnid <= pick_meta'.txnid
    BY <1>1, <1>2, <1>5
  <2>3. \A q \in Procs : txn[q].pc \in Slotted => u.pglast <= txn[q].txnid
    BY DEF MetaFilled, PagesInv, Watched, Storing, BeforeCommit
  <2>4. /\ \A q \in Procs : txn'[q] = IF q = p THEN u ELSE txn[q]
        /\ info' = info /\ env' = env
    BY DEF MetaFilled
  <2> QED  BY <2>1, <2>2, <2>3, <2>4, WriterWatch
<1> QED  BY <1>6, <1>7, <1>8, <1>9 DEF PagesInv

(* The roots are written.                                                  *)
LEMMA MetaDbsPages ==
    ASSUME IInv, PagesInv, NEW p \in Procs, write_meta_dbs(p)
    PROVE  PagesInv'
<1>1. PICK t : t = txn[p]
  OBVIOUS
<1>2. PICK x : x = t.txnid % 2
  OBVIOUS
<1>3. PICK size, a, b, c : /\ size = Max({meta[1 - x].mapsize, env[p].maxpg})
                           /\ a = t.free /\ b = t.main /\ c = t.txnid
  OBVIOUS
<1>4. PICK d : d = meta[x]
  OBVIOUS
<1>5. PICK o : o = [d EXCEPT !.mapsize = size, !.free = a, !.main = b,
                             !.owner = c]
  OBVIOUS
<1>6. meta' = [meta EXCEPT ![x] = o]
  <2>1. Toggle(p) = x
    BY <1>1, <1>2 DEF Toggle
  <2>2. meta' = [meta EXCEPT ![x] =
                    [@ EXCEPT !.mapsize = Max({meta[1 - x].mapsize,
                                               env[p].maxpg}),
                              !.free = t.free, !.main = t.main,
                              !.owner = t.txnid]]
    BY <1>1, <2>1 DEF write_meta_dbs
  <2>3. meta' = [meta EXCEPT ![x] =
                    [d EXCEPT !.mapsize = size, !.free = a, !.main = b,
                              !.owner = c]]
    BY <1>3, <1>4, <2>2
  <2> QED  BY <1>5, <2>3
<1>7. x \in 0..1 /\ t.txnid \in Nat
  BY <1>1, <1>2, StateFacts
<1>8. /\ o.free = a /\ o.main = b /\ o.owner = c /\ o.txnid = d.txnid
      /\ o.last_pg = d.last_pg /\ o.last_owner = d.last_owner
  <2>1. HasFields(d, MetaFields)
    BY <1>4, <1>7 DEF IInv, Shape
  <2> QED  BY <1>5, <2>1 DEF HasFields, MetaFields
<1>9. txn' = [txn EXCEPT ![p].pc = "last"] /\ t.pc = "dbs"
  BY <1>1 DEF write_meta_dbs
<1>10. PICK u : Moves(p, u, "last")
  BY <1>9, PcSet
<1>11. u.pc = "last" /\ Same(t, u, {"pc"})
  BY <1>1, <1>10 DEF Moves
<1>12. \A y \in 0..1 : meta'[y] = IF y = x THEN o ELSE meta[y]
  BY <1>6, <1>7 DEF IInv, Shape
<1>13. Saved(page, meta', pick_meta, u)
  <2>1. Saved(page, meta, pick_meta, t)
    BY <1>1, <1>9 DEF PagesInv, WritersKnow, Storing
  <2>2. /\ u.txnid = t.txnid /\ u.main = t.main /\ u.free = t.free
        /\ u.next_pgno = t.next_pgno /\ u.pglast = t.pglast
    BY <1>11 DEF Same, TxnFields
  <2>3. meta'[x] = o
    BY <1>7, <1>12
  <2> QED  BY <1>2, <1>3, <1>8, <1>11, <2>1, <2>2, <2>3 DEF Saved
<1>14. ASSUME NEW q \in Procs
       PROVE  Snapshot(page, meta', pick_meta, hist, txn[q])
  <2>1. Snapshot(page, meta, pick_meta, hist, txn[q])
    BY DEF PagesInv, ReadersKnow
  <2>2. PICK y : y = txn[q].txnid % 2
    OBVIOUS
  <2>3. y \in 0..1
    BY <2>2, StateFacts
  <2>4. meta'[y].last_pg = meta[y].last_pg
        /\ meta'[y].last_owner = meta[y].last_owner
    BY <1>4, <1>8, <1>12, <2>3
  <2> QED  BY <2>1, <2>2, <2>4 DEF Snapshot
<1>15. MetaFilled(p, u, x, o)
  <2>1. o.last_owner \in Nat /\ o.last_pg \in Nat
    BY <1>4, <1>7, <1>8, StateFacts DEF MetaPages
  <2>2. u.pglast = t.pglast
    BY <1>11 DEF Same, TxnFields
  <2>3. page' = page /\ info' = info /\ env' = env /\ hist' = hist
    BY DEF write_meta_dbs
  <2> QED  BY <1>1, <1>2, <1>3, <1>4, <1>6, <1>8, <1>9, <1>10, <1>11, <1>13,
              <1>14, <2>1, <2>2, <2>3 DEF MetaFilled, Storing, Moves
<1> QED  BY <1>15, MetaFilledKeeps

(* The last page is written: no reader that has copied the roots finds its *)
(* tree above it.                                                          *)
LEMMA MetaLastPages ==
    ASSUME IInv, PagesInv, NEW p \in Procs, write_meta_last(p)
    PROVE  PagesInv'
<1>1. PICK t : t = txn[p]
  OBVIOUS
<1>2. PICK x : x = t.txnid % 2
  OBVIOUS
<1>3. PICK a, b : a = t.next_pgno - 1 /\ b = t.txnid
  OBVIOUS
<1>4. PICK d : d = meta[x]
  OBVIOUS
<1>5. PICK o : o = [d EXCEPT !.last_pg = a, !.last_owner = b]
  OBVIOUS
<1>6. x \in 0..1 /\ t.txnid \in Nat /\ t.pc = "last"
  BY <1>1, <1>2, StateFacts DEF write_meta_last
<1>7. meta' = [meta EXCEPT ![x] = o]
  <2>1. Toggle(p) = x
    BY <1>1, <1>2 DEF Toggle
  <2>2. meta' = [meta EXCEPT ![x].last_pg = a, ![x].last_owner = b]
    BY <1>1, <1>3, <2>1 DEF write_meta_last
  <2> QED  BY <1>4, <1>5, <1>6, <2>2 DEF IInv, Shape
<1>8. /\ o.free = d.free /\ o.main = d.main /\ o.owner = d.owner
      /\ o.txnid = d.txnid /\ o.last_pg = a /\ o.last_owner = b
  <2>1. HasFields(d, MetaFields)
    BY <1>4, <1>6 DEF IInv, Shape
  <2> QED  BY <1>5, <2>1 DEF HasFields, MetaFields
<1>9. txn' = [txn EXCEPT ![p].pc = "txnid"]
  BY DEF write_meta_last
<1>10. PICK u : Moves(p, u, "txnid")
  BY <1>9, PcSet
<1>11. u.pc = "txnid" /\ Same(t, u, {"pc"})
  BY <1>1, <1>10 DEF Moves
<1>12. \A y \in 0..1 : meta'[y] = IF y = x THEN o ELSE meta[y]
  BY <1>6, <1>7 DEF IInv, Shape
<1>13. /\ Saved(page, meta, pick_meta, t) /\ t.next_pgno \in Nat
       /\ pick_meta.last_pg < t.next_pgno
       /\ d.main = t.main /\ d.free = t.free /\ d.owner = t.txnid
  <2>1. Saved(page, meta, pick_meta, t)
    BY <1>1, <1>6 DEF PagesInv, WritersKnow, Storing
  <2> QED  BY <1>2, <1>4, <1>6, <2>1 DEF Saved
<1>14. /\ pick_meta.txnid \in Nat /\ t.txnid = pick_meta.txnid + 1
       /\ pick_meta.last_pg \in Nat /\ 1 <= pick_meta.last_pg
       /\ \A i \in DOMAIN hist : i \in Nat /\ i <= pick_meta.txnid
  <2>1. pick_meta.txnid \in Nat /\ pick_meta.last_pg \in Nat
        /\ 1 <= pick_meta.last_pg
    BY StateFacts DEF Intact
  <2> QED  BY <1>1, <1>6, <2>1
           DEF IInv, Shape, LockFile, BeforeCommit, Newest, Committed
<1>15. Saved(page, meta', pick_meta, u)
  <2>1. /\ u.txnid = t.txnid /\ u.main = t.main /\ u.free = t.free
        /\ u.next_pgno = t.next_pgno /\ u.pglast = t.pglast
    BY <1>11 DEF Same, TxnFields
  <2>2. meta'[x] = o
    BY <1>6, <1>12
  <2> QED  BY <1>2, <1>3, <1>8, <1>11, <1>13, <2>1, <2>2 DEF Saved
<1>16. ASSUME NEW q \in Procs
       PROVE  Snapshot(page, meta', pick_meta, hist, txn[q])
  <2>1. PICK r : r = txn[q]
    OBVIOUS
  <2>2. Snapshot(page, meta, pick_meta, hist, r)
    BY <2>1 DEF PagesInv, ReadersKnow
  <2>3. PICK y : y = r.txnid % 2
    OBVIOUS
  <2>4. y \in 0..1
    BY <2>1, <2>3, StateFacts
  <2>5. ASSUME r.pc = "copy_last", r.sound
        PROVE  /\ r.from <= meta'[y].last_owner
               /\ \A i \in Reachable(page, r.main) : i <= meta'[y].last_pg
    <3>1. /\ r.from <= meta[y].last_owner
          /\ \A i \in Reachable(page, r.main) : i <= meta[y].last_pg
          /\ r.from \in DOMAIN hist
          /\ Protected(page, pick_meta, r.main, r.txnid)
      BY <2>2, <2>3, <2>5 DEF Snapshot
    <3>2. CASE y = x
      <4>1. meta'[y].last_owner = t.txnid /\ meta'[y].last_pg = a
        BY <1>3, <1>6, <1>8, <1>12, <3>2
      <4>2. \A i \in Reachable(page, r.main) : i \in 2..pick_meta.last_pg
        BY <3>1, TreeNumbers, StateFacts
      <4>3. pick_meta.last_pg <= a /\ a \in Nat
        BY <1>3, <1>13, <1>14
      <4>4. r.from <= t.txnid
        BY <1>14, <3>1
      <4> QED  BY <1>14, <4>1, <4>2, <4>3, <4>4
    <3>3. CASE y # x
      BY <1>12, <2>4, <3>1, <3>3
    <3> QED  BY <3>2, <3>3
  <2>6. Snapshot(page, meta', pick_meta, hist, r)
    BY <2>2, <2>3, <2>5 DEF Snapshot
  <2> QED  BY <2>1, <2>6
<1>17. MetaFilled(p, u, x, o)
  <2>1. o.last_owner \in Nat /\ o.last_pg \in Nat
    BY <1>3, <1>6, <1>8, <1>13, <1>14
  <2>2. u.pglast = t.pglast
    BY <1>11 DEF Same, TxnFields
  <2>3. page' = page /\ info' = info /\ env' = env /\ hist' = hist
    BY DEF write_meta_last
  <2> QED  BY <1>1, <1>2, <1>3, <1>4, <1>6, <1>7, <1>8, <1>10, <1>11, <1>13,
              <1>15, <1>16, <2>1, <2>2, <2>3 DEF MetaFilled, Storing, Moves
<1> QED  BY <1>17, MetaFilledKeeps

(* What the stored state of transaction t is to those who go by the meta   *)
(* page m: it has every page of m's tree, or freed it, and the records     *)
(* that t did not use up.                                                  *)
Follows(pg, m, t) ==
    /\ \A i \in Reachable(pg, m.main) :
          \/ i \in Reachable(pg, t.main)
          \/ /\ t.txnid \in DOMAIN Recs(pg, t.free)
             /\ i \in Recs(pg, t.free)[t.txnid]
    /\ \A j \in DOMAIN Recs(pg, m.free) :
          t.pglast < j => /\ j \in DOMAIN Recs(pg, t.free)
                          /\ Recs(pg, t.free)[j] = Recs(pg, m.free)[j]

(* A tree that was protected stays so when t becomes the newest state.     *)
LEMMA ProtectedOn ==
    ASSUME NEW pg, NEW m, NEW t, Follows(pg, m, t), NEW root, NEW s,
           s \in Nat, t.pglast \in Nat, t.txnid \in Nat,
           t.pglast <= s, s < t.txnid,
           \A j \in DOMAIN Recs(pg, m.free) : j \in Nat,
           Protected(pg, m, root, s),
           NEW o, o.main = t.main, o.free = t.free
    PROVE  Protected(pg, o, root, s)
<1> SUFFICES ASSUME NEW i \in Reachable(pg, root)
             PROVE  \/ i \in Reachable(pg, t.main)
                    \/ \E j \in DOMAIN Recs(pg, t.free) :
                          j > s /\ i \in Recs(pg, t.free)[j]
  BY DEF Protected
<1>1. CASE i \in Reachable(pg, m.main)
  BY <1>1 DEF Follows
<1>2. CASE \E j \in DOMAIN Recs(pg, m.free) :
              j > s /\ i \in Recs(pg, m.free)[j]
  <2>1. PICK j \in DOMAIN Recs(pg, m.free) :
               j > s /\ i \in Recs(pg, m.free)[j]
    BY <1>2
  <2>2. t.pglast < j
    BY <2>1
  <2> QED  BY <2>1, <2>2 DEF Follows
<1> QED  BY <1>1, <1>2 DEF Protected

(* The txnid of the meta page makes the transaction count.                 *)
LEMMA CommitWritesPages ==
    ASSUME IInv, PagesInv, NEW p \in Procs, write_meta_txnid(p)
    PROVE  PagesInv'
<1>1. PICK t : t = txn[p]
  OBVIOUS
<1>2. PICK m : m = pick_meta
  OBVIOUS
<1>3. PICK n : n = m.txnid
  OBVIOUS
<1>4. PICK x : x = t.txnid % 2
  OBVIOUS
<1>5. PICK d : d = meta[x]
  OBVIOUS
<1>6. PICK o : o = [d EXCEPT !.txnid = n + 1]
  OBVIOUS
<1>7. /\ t.pc = "txnid" /\ t.txnid = n + 1 /\ n \in Nat
      /\ info.wmutex = p /\ page' = page /\ info' = info /\ env' = env
      /\ txn' = [txn EXCEPT ![p].pc = "publish"]
      /\ meta' = [meta EXCEPT ![Toggle(p)].txnid = t.txnid]
      /\ hist' = [i \in Committed \cup {t.txnid} |->
                     IF i = t.txnid THEN Data(page, t.main) ELSE hist[i]]
  BY <1>1, <1>2, <1>3, StateFacts
     DEF write_meta_txnid, IInv, LockFile, Owner, BeforeCommit, Holding
<1>8. /\ x \in 0..1 /\ m = meta[1 - x] /\ n % 2 = 1 - x
      /\ MetaPages(page, meta, m, hist) /\ IsMap(page)
  <2>1. x = (m.txnid + 1) % 2
    BY <1>3, <1>4, <1>7
  <2> QED  BY <1>2, <1>3, <2>1, PickedOlder, StateFacts
<1>9. meta' = [meta EXCEPT ![x] = o]
  <2>1. Toggle(p) = x
    BY <1>1, <1>4 DEF Toggle
  <2>2. meta' = [meta EXCEPT ![x].txnid = n + 1]
    BY <1>7, <2>1
  <2> QED  BY <1>5, <1>6, <1>8, <2>2 DEF IInv, Shape
<1>10. /\ o.free = d.free /\ o.main = d.main /\ o.owner = d.owner
       /\ o.txnid = n + 1 /\ o.last_pg = d.last_pg
       /\ o.last_owner = d.last_owner
  <2>1. HasFields(d, MetaFields)
    BY <1>5, <1>8 DEF IInv, Shape
  <2> QED  BY <1>6, <2>1 DEF HasFields, MetaFields
<1>11. \A y \in 0..1 : meta'[y] = IF y = x THEN o ELSE meta[y]
  BY <1>8, <1>9 DEF IInv, Shape
<1>12. Saved(page, meta, m, t)
  BY <1>1, <1>2, <1>7 DEF PagesInv, WritersKnow, Storing
<1>13. /\ o.main = t.main /\ o.free = t.free /\ o.owner = n + 1
       /\ o.last_pg = t.next_pgno - 1 /\ o.last_owner = n + 1
  BY <1>4, <1>5, <1>7, <1>10, <1>12 DEF Saved
<1>14. /\ Follows(page, m, t) /\ t.pglast \in Nat
       /\ (t.pglast = 0 \/ t.pglast < n)
       /\ Intact(page, o.main, o.free, o.last_pg, o.txnid)
  BY <1>3, <1>7, <1>10, <1>12, <1>13 DEF Saved, Follows
<1>15. pick_meta' = o
  <2>1. meta[0].txnid <= n /\ meta[1].txnid <= n
        /\ meta[0].txnid \in Nat /\ meta[1].txnid \in Nat /\ n \in Nat
    BY <1>2, <1>3, <1>7 DEF IInv, Shape, pick_meta
  <2>2. CASE x = 0
    BY <1>10, <1>11, <2>1, <2>2 DEF pick_meta
  <2>3. CASE x = 1
    BY <1>10, <1>11, <2>1, <2>3 DEF pick_meta
  <2> QED  BY <1>8, <2>2, <2>3
<1>16. PICK h : h = hist'
  OBVIOUS
<1>17. /\ DOMAIN h = DOMAIN hist \cup {n + 1}
       /\ h[n + 1] = Data(page, t.main)
       /\ \A i \in DOMAIN hist : h[i] = hist[i] /\ i \in Nat /\ i <= n
       /\ n \in DOMAIN hist
  <2>1. \A i \in DOMAIN hist : i \in Nat /\ i <= n
    BY <1>2, <1>3 DEF IInv, Shape, Newest, Committed
  <2>2. n \in DOMAIN hist
    BY <1>2, <1>3 DEF IInv, Newest, Committed
  <2> QED  BY <1>7, <1>16, <2>1, <2>2 DEF Committed
<1>18. \A j \in DOMAIN Recs(page, m.free) : j \in Nat
  BY <1>2, StateFacts DEF Intact
<1>19. Describes(page, o, h, o)
  <2>1. \A i \in Reachable(page, o.main) : i \in 2..o.last_pg
    BY <1>14 DEF Intact, Parts
  <2>2. o.last_pg \in Nat
    BY <1>14 DEF Intact
  <2>3. \A i \in Reachable(page, o.main) : i <= o.last_pg
    BY <2>1, <2>2
  <2>4. Protected(page, o, o.main, o.owner)
    BY DEF Protected
  <2> QED  BY <1>7, <1>10, <1>13, <1>17, <2>3, <2>4 DEF Describes
<1>20. Describes(page, o, h, m)
  <2>1. Describes(page, m, hist, m) /\ m.owner = n
    BY <1>3, <1>8, <1>17 DEF MetaPages
  <2>2. Protected(page, m, m.main, n)
    BY <2>1 DEF Describes
  <2>3. Protected(page, o, m.main, n)
    <3>1. t.pglast <= n /\ n < t.txnid /\ t.txnid \in Nat
      BY <1>7, <1>14
    <3> QED  BY <1>7, <1>13, <1>14, <1>18, <2>2, <3>1, ProtectedOn
  <2> QED  BY <1>7, <1>10, <1>17, <2>1, <2>3 DEF Describes
<1>21. Store'
  <2>1. ASSUME NEW y \in 0..1
        PROVE  /\ meta'[y].owner \in Nat /\ meta'[y].last_owner \in Nat
               /\ meta'[y].last_pg \in Nat
               /\ meta'[y].txnid = 0 \/ meta'[y].txnid % 2 = y
               /\ meta'[y].owner \in DOMAIN h =>
                     Describes(page, o, h, meta'[y])
    <3>1. CASE y = x
      <4>1. o.last_pg \in Nat /\ n + 1 \in Nat /\ (n + 1) % 2 = x
        BY <1>4, <1>7, <1>14 DEF Intact
      <4> QED  BY <1>10, <1>11, <1>13, <1>19, <3>1, <4>1
    <3>2. CASE y # x
      <4>1. meta'[y] = m /\ meta[y] = m
        BY <1>8, <1>11, <3>2
      <4> QED  BY <1>8, <1>20, <4>1 DEF MetaPages
    <3> QED  BY <3>1, <3>2
  <2>2. o = meta'[o.txnid % 2]
    BY <1>4, <1>7, <1>8, <1>10, <1>11
  <2>3. MetaPages(page, meta', o, h)
    BY <1>10, <1>13, <1>14, <2>1, <2>2 DEF MetaPages
  <2> QED  BY <1>7, <1>8, <1>15, <1>16, <2>3 DEF Store
<1>22. PICK u : Moves(p, u, "publish")
  BY <1>7, PcSet
<1>23. u.pc = "publish" /\ \A q \in Procs :
          txn'[q] = IF q = p THEN u ELSE txn[q]
  BY <1>22 DEF Moves
<1>24. WritersKnow'
  <2> SUFFICES ASSUME NEW q \in Procs
               PROVE  txn'[q].pc \notin Changing \cup Storing
    BY DEF WritersKnow
  <2>1. CASE q = p
    BY <1>23, <2>1 DEF Changing, Storing
  <2>2. CASE q # p
    <3>1. txn[q].pc \notin Holding
      BY <1>7, <2>2 DEF IInv, Owner
    <3> QED  BY <1>23, <2>2, <3>1 DEF Holding, Changing, Storing
  <2> QED  BY <2>1, <2>2
<1>25. ASSUME NEW q \in Procs, q # p
       PROVE  Snapshot(page, meta', o, h, txn[q])
  <2>1. PICK r : r = txn[q]
    OBVIOUS
  <2>2. Snapshot(page, meta, m, hist, r) /\ r.txnid \in Nat
    BY <1>2, <2>1, StateFacts DEF PagesInv, ReadersKnow
  <2>3. r.pc \in {"copy_last", "read"} => r.txnid <= n /\ t.pglast <= r.txnid
    BY <1>1, <1>2, <1>3, <1>7, <2>1
       DEF PagesInv, Watched, Slotted, BeforeCommit
  <2>4. \A y \in 0..1 : meta'[y].last_pg = meta[y].last_pg
                        /\ meta'[y].last_owner = meta[y].last_owner
    BY <1>5, <1>10, <1>11
  <2>5. r.txnid % 2 \in 0..1
    BY <2>2
  <2>6. CASE r.pc \in {"copy_last", "read"} /\ r.sound
    <3>1. /\ r.from \in DOMAIN hist /\ r.txnid <= r.from
          /\ r.view = hist[r.from] /\ Data(page, r.main) = r.view
          /\ Protected(page, m, r.main, r.txnid)
      BY <2>2, <2>6 DEF Snapshot
    <3>2. r.txnid < t.txnid /\ t.txnid \in Nat
      BY <1>7, <2>2, <2>3, <2>6
    <3>3. Protected(page, o, r.main, r.txnid)
      BY <1>13, <1>14, <1>18, <2>2, <2>3, <2>6, <3>1, <3>2, ProtectedOn
    <3>4. r.from \in DOMAIN h /\ r.view = h[r.from]
      BY <1>17, <3>1
    <3> QED  BY <2>1, <2>2, <2>4, <2>5, <2>6, <3>1, <3>3, <3>4 DEF Snapshot
  <2>7. CASE r.pc \in {"copy_last", "read"} /\ ~ r.sound
    <3>1. r.txnid < o.txnid
      BY <1>7, <1>10, <2>2, <2>3, <2>7
    <3> QED  BY <2>1, <2>7, <3>1 DEF Snapshot
  <2>8. CASE r.pc \notin {"copy_last", "read"}
    BY <2>1, <2>8 DEF Snapshot
  <2> QED  BY <2>6, <2>7, <2>8
<1>26. ReadersKnow'
  <2> SUFFICES ASSUME NEW q \in Procs
               PROVE  Snapshot(page, meta', o, h, txn'[q])
    BY <1>7, <1>15, <1>16 DEF ReadersKnow
  <2>1. CASE q = p
    BY <1>23, <2>1 DEF Snapshot
  <2>2. CASE q # p
    BY <1>23, <1>25, <2>2
  <2> QED  BY <2>1, <2>2
<1>27. Slots' /\ Watched'
  <2>1. u.pc \notin Slotted \cup {"check"} /\ u.pc \notin BeforeCommit
    BY <1>23 DEF Slotted, BeforeCommit
  <2>2. pick_meta'.txnid \in Nat /\ pick_meta.txnid <= pick_meta'.txnid
    BY <1>2, <1>3, <1>7, <1>10, <1>15
  <2> QED  BY <1>7, <1>23, <2>1, <2>2, WriterWatch
<1> QED  BY <1>21, <1>24, <1>26, <1>27 DEF PagesInv

-----------------------------------------------------------------------------
(***************************************************************************)
(* The theorems.                                                           *)
(***************************************************************************)
(* A new store satisfies the invariant.                                    *)
LEMMA InitPages == Init => PagesInv
<1> SUFFICES ASSUME Init PROVE PagesInv
  OBVIOUS
<1> USE DEF Init
<1>1. /\ pick_meta = init_meta /\ init_meta.txnid = 0
      /\ init_meta.main = P_INVALID /\ init_meta.free = P_INVALID
      /\ init_meta.last_pg = 1 /\ init_meta.owner = 0
      /\ init_meta.last_owner = 0
      /\ \A x \in 0..1 : meta[x] = init_meta
  BY DEF pick_meta, init_meta
<1>2. IsMap(page)
  <2>1. IsPage(NoPage)
    BY DEF IsPage, HasFields, PageFields, NoPage, P_INVALID
  <2> QED  BY <2>1 DEF IsMap
<1>3. /\ Reachable(page, P_INVALID) = {} /\ Recs(page, P_INVALID) = EmptyRecs
      /\ DOMAIN EmptyRecs = {} /\ Valid(P_INVALID) = {}
      /\ IsTree(page, P_INVALID) /\ P_INVALID \in Nat
      /\ Data(page, P_INVALID) = hist[0] /\ DOMAIN hist = {0}
  BY DEF Reachable, Recs, EmptyRecs, Valid, IsTree, P_INVALID, Data
<1>4. Parts({} \cup {}, {}, {}, {}, EmptyRecs, {}, 1)
  BY DEF Parts
<1>5. Intact(page, P_INVALID, P_INVALID, 1, 0)
  <2>1. Parts(Reachable(page, P_INVALID) \cup Valid(P_INVALID), {}, {}, {},
              Recs(page, P_INVALID), DOMAIN Recs(page, P_INVALID), 1)
    BY <1>3, <1>4
  <2>2. 1 \in Nat /\ 1 <= 1 /\ 1 <= MaxPgno
    BY BoundsAssumption
  <2>3. P_INVALID \notin Reachable(page, P_INVALID)
        /\ \A j \in DOMAIN Recs(page, P_INVALID) : j \in 1..0
    BY <1>3
  <2> QED  BY <1>3, <2>1, <2>2, <2>3 DEF Intact
<1>6. Describes(page, init_meta, hist, init_meta)
  <2>1. Protected(page, init_meta, P_INVALID, 0)
    BY <1>3 DEF Protected
  <2>2. 0 <= 0 + 1 /\ 0 <= 0
    OBVIOUS
  <2>3. \A i \in Reachable(page, P_INVALID) : i <= 1
    BY <1>3
  <2> QED  BY <1>1, <1>3, <2>1, <2>2, <2>3 DEF Describes
<1>7. Store
  BY <1>1, <1>2, <1>5, <1>6 DEF Store, MetaPages
<1>8. \A p \in Procs : txn[p] = NoTxn /\ env[p] = Closed
  OBVIOUS
<1>9. WritersKnow /\ ReadersKnow
  BY <1>8, NoTxnForm
     DEF WritersKnow, ReadersKnow, Changing, Storing, Snapshot
<1>10. Slots
  <2>1. Idle \in Nat
    BY BoundsAssumption DEF Idle
  <2> QED  BY <1>1, <1>8, <2>1 DEF Slots, Closed
<1>11. Watched
  BY <1>8, NoTxnForm DEF Watched, Slotted
<1> QED  BY <1>7, <1>9, <1>10, <1>11 DEF PagesInv

(* Every step keeps it.                                                    *)
LEMMA NextPages == IInv /\ PagesInv /\ [Next]_vars => PagesInv'
<1> SUFFICES ASSUME IInv, PagesInv, [Next]_vars PROVE PagesInv'
  OBVIOUS
<1>1. CASE UNCHANGED vars
  BY <1>1 DEF vars, pick_meta, PagesInv, Store, WritersKnow, ReadersKnow,
              Slots, Watched
<1>2. CASE Next
  <2>1. PICK p \in Procs : \/ env_open(p) \/ env_close(p) \/ Crash(p)
                           \/ Writing(p) \/ Reading(p)
    BY <1>2 DEF Next
  <2>2. CASE Crash(p)
    BY <2>2, GonePages DEF Crash
  <2>3. CASE Writing(p)
    BY <2>3, GrowPages, BeginPages, FindOldestPages, PutPages, DelPages,
       CommitPages, FreelistSavePages, MetaDbsPages, MetaLastPages,
       CommitWritesPages, EndPages DEF Writing
  <2>4. CASE Reading(p)
    BY <2>4, SlotPages, CopyPages, CopyLastPages DEF Reading
  <2> QED  BY <2>1, <2>2, <2>3, <2>4, OpenPages, ClosePages
<1> QED  BY <1>1, <1>2

(***************************************************************************)
(* The newest meta page describes the last commit in full at every moment, *)
(* whoever died where: its tree holds the data committed last, and every   *)
(* page of the map is in the tree, the page of the free database or in one *)
(* record of it, and in no two of these places.  mdb_page_touch frees what *)
(* it copies, mdb_page_alloc hands out what no tree uses, and              *)
(* mdb_freelist_save loses no page.                                        *)
(***************************************************************************)
THEOREM NewestStaysIntact == Spec => []NewestIsIntact
<1>1. IInv /\ PagesInv => NewestIsIntact
  <2> SUFFICES ASSUME IInv, PagesInv PROVE NewestIsIntact
    OBVIOUS
  <2>1. PICK m : m = pick_meta
    OBVIOUS
  <2>2. PICK recs : recs = Recs(page, m.free)
    OBVIOUS
  <2>3. PICK tree : tree = Reachable(page, m.main)
    OBVIOUS
  <2>4. /\ m.txnid = Max(Committed) /\ m.txnid \in DOMAIN hist
        /\ MetaPages(page, meta, m, hist) /\ m.txnid \in Nat
    BY <2>1, NewestIsMax, StateFacts DEF IInv, Newest, Committed
  <2>5. Data(page, m.main) = hist[m.txnid]
    <3>1. m.txnid % 2 \in 0..1
      BY <2>4
    <3> QED  BY <2>4, <3>1 DEF MetaPages, Describes
  <2>6. /\ Parts(tree \cup Valid(m.free), {}, {}, {}, recs, DOMAIN recs,
                 m.last_pg)
        /\ m.free \notin tree
    BY <2>2, <2>3, <2>4 DEF MetaPages, Intact
  <2>7. 2..m.last_pg =
           UNION ({tree, Valid(m.free)} \cup {recs[i] : i \in DOMAIN recs})
    BY <2>6 DEF Parts
  <2>8. tree \cap Valid(m.free) = {}
    BY <2>6 DEF Valid
  <2>9. \A i \in DOMAIN recs :
           /\ recs[i] \cap (tree \cup Valid(m.free)) = {}
           /\ \A j \in DOMAIN recs : j # i => recs[i] \cap recs[j] = {}
    BY <2>6 DEF Parts
  <2> QED  BY <2>1, <2>2, <2>3, <2>4, <2>5, <2>7, <2>8, <2>9
           DEF NewestIsIntact, Valid
<1> QED  BY <1>1, InitIInv, NextIInv, InitPages, NextPages, PTL DEF Spec

(***************************************************************************)
(* A reader whose copy of the meta page was not overtaken, by a whole      *)
(* commit and a part of a second between its slot (mdb.c:2683) and the     *)
(* copy, sees one committed state for as long as it reads, whatever the    *)
(* writers do meanwhile and wherever they die: nobody writes to a page of  *)
(* its tree, and every page of it lies below its mt_next_pgno.  That rests *)
(* on mdb_find_oldest, whose result may be old when it is used, and on the *)
(* retry of mdb_txn_renew0.  Of a reader that was overtaken the theorem    *)
(* says only that: its copy may be torn, and its snapshot is then wrong.   *)
(***************************************************************************)
THEOREM SnapshotsStayIntact == Spec => []SnapshotIntact
<1>1. IInv /\ PagesInv => SnapshotIntact
  <2> SUFFICES ASSUME IInv, PagesInv, NEW p \in Readers,
                      txn[p].pc = "read"
               PROVE  IF txn[p].sound
                      THEN /\ txn[p].view = hist[txn[p].from]
                           /\ Data(page, txn[p].main) = txn[p].view
                           /\ \A i \in Reachable(page, txn[p].main) :
                                 i < txn[p].next_pgno
                      ELSE Max(Committed) > txn[p].txnid
    BY DEF SnapshotIntact
  <2>1. p \in Procs
    BY DEF Procs
  <2>2. Snapshot(page, meta, pick_meta, hist, txn[p])
    BY <2>1 DEF PagesInv, ReadersKnow
  <2>3. Max(Committed) = pick_meta.txnid /\ pick_meta.txnid \in Nat
        /\ txn[p].txnid \in Nat
    BY <2>1, NewestIsMax, StateFacts DEF IInv
  <2> QED  BY <2>2, <2>3 DEF Snapshot
<1> QED  BY <1>1, InitIInv, NextIInv, InitPages, NextPages, PTL DEF Spec
=============================================================================
