---------------------------- MODULE ScanManager -----------------------------
(***************************************************************************)
(* scan_manager_t, used by scanning threads while the threads of an import *)
(* manager, in this or in another process, write the same database.  Every *)
(* read of a store is an LMDB transaction of its own: a scan is a sequence *)
(* of reads of different moments.  EXPANDED_OPTIMIZED also shares two sets *)
(* between the scanning threads: what was reported already.                *)
(***************************************************************************)
EXTENDS ImportManager

CONSTANTS
    Scanner,   \* the scanning threads
    Modes,     \* the scan modes asked for
    MaxScans   \* bound: the number of find_hash_json calls

ASSUME ScanAssumption == MaxScans \in Nat

VARIABLES
    scan,             \* scan[s]: the call that s is in, and its locals
    hashes, sources,  \* the locked_member_t of reported hashes and sources
    reports,          \* history: what find_hash_json has returned
    scans             \* number of calls so far

scanVars == <<scan, hashes, sources, reports, scans>>
allVars == <<vars, scanVars>>

NoScan == [pc |-> "idle"]
Optimizing(s) == scan[s].mode = "EXPANDED_OPTIMIZED"

(* History: what the import calls that have returned promise a scan of h.  *)
ReturnedFiles(h) ==
    {c.file : c \in {r \in returned : /\ r.op \in {"insert_hash", "merge_hash"}
                                      /\ r.hash = h}}
ReturnedNames ==
    {<<c.file, c.name>> : c \in {r \in returned :
                                   r.op = "insert_source_name"}}

ScanInit ==
    /\ scan = [s \in Scanner |-> NoScan]
    /\ hashes = {} /\ sources = {} /\ reports = {} /\ scans = 0

At(s, label) == scan[s].pc = label
To(s, label) == scan' = [scan EXCEPT ![s].pc = label]

(* The call returns a report. *)
Reply(s, found, full) ==
    /\ scan' = [scan EXCEPT ![s] = NoScan]
    /\ reports' = reports \cup
         {[number |-> scan[s].number, mode |-> scan[s].mode,
           hash |-> scan[s].hash, promised |-> scan[s].promised,
           found |-> found, full |-> full, files |-> scan[s].files,
           described |-> scan[s].described]}

(* find_hash_json with one of the scan modes. *)
find_hash_json(s, mode, h) ==
    /\ At(s, "idle") /\ scans < MaxScans
    /\ scans' = scans + 1
    /\ scan' = [scan EXCEPT ![s] =
         [pc |-> IF mode = "COUNT" THEN "hash_data" ELSE "hash_store",
          mode |-> mode, hash |-> h, number |-> scans', ids |-> {},
          files |-> {}, todo |-> {}, described |-> {}, source |-> {},
          promised |-> [files |-> ReturnedFiles(h),
                        names |-> ReturnedNames]]]
    /\ UNCHANGED <<hashes, sources, reports>>

(* A faulty variant of the next definition. *)
FindHashStore_OffByOne(s) ==
    /\ At(s, "hash_store")
    /\ LET count == ApproximateHashCount(scan[s].hash)
       IN  IF count <= 1 \/ scan[s].mode = "APPROXIMATE_COUNT"
           THEN Reply(s, count > 1, FALSE)
           ELSE To(s, "hash_data") /\ UNCHANGED reports
    /\ UNCHANGED <<hashes, sources, scans>>

(* lmdb_hash_manager_t::find: "hash is not present so return false".       *)
FindHashStore(s) ==
    /\ At(s, "hash_store")
    /\ LET count == ApproximateHashCount(scan[s].hash)
       IN  IF count = 0 \/ scan[s].mode = "APPROXIMATE_COUNT"
           THEN Reply(s, count # 0, FALSE)
           ELSE To(s, "hash_data") /\ UNCHANGED reports
    /\ UNCHANGED <<hashes, sources, scans>>

(* lmdb_hash_data_manager_t::find, or find_count.                          *)
FindHashData(s) ==
    /\ At(s, "hash_data")
    /\ LET rec == hash_data_store[scan[s].hash]
       IN  IF scan[s].mode = "COUNT"
           THEN Reply(s, find_count(rec) # 0, FALSE)
           ELSE IF rec = None
           THEN Reply(s, FALSE, FALSE)
           ELSE /\ scan' = [scan EXCEPT ![s].pc = "sources",
                                        ![s].ids = Sources(rec)]
                /\ UNCHANGED reports
    /\ UNCHANGED <<hashes, sources, scans>>

(* The file hash of a source ID; a source without data fails the assertion *)
(* of find_hash and ends the process.                                      *)
FindSourceData(s) ==
    /\ At(s, "sources")
    /\ \E i \in scan[s].ids :
         /\ \A j \in scan[s].ids : i <= j
         /\ LET d == source_data_store[i]
            IN  scan' = [scan EXCEPT
                  ![s].ids = @ \ {i},
                  ![s].files = IF d = NoData THEN @ ELSE @ \cup {d.file},
                  ![s].source = {i},
                  ![s].pc = IF d = NoData THEN "assert" ELSE "sources"]
    /\ UNCHANGED <<hashes, sources, reports, scans>>

(* A faulty variant of the next definition. *)
ReportHash_Late(s) ==
    /\ At(s, "sources") /\ scan[s].ids = {}
    /\ IF Optimizing(s) /\ \E r \in reports : r.hash = scan[s].hash /\ r.full
       THEN Reply(s, TRUE, FALSE) /\ UNCHANGED hashes
       ELSE /\ scan' = [scan EXCEPT ![s].pc = "report",
                                    ![s].todo = scan[s].files]
            /\ hashes' = IF Optimizing(s) THEN hashes \cup {scan[s].hash}
                         ELSE hashes
            /\ UNCHANGED reports
    /\ UNCHANGED <<sources, scans>>

(* locked_insert of the hash: a hash in the set is reported by its name    *)
(* alone.                                                                  *)
ReportHash(s) ==
    /\ At(s, "sources") /\ scan[s].ids = {}
    /\ IF Optimizing(s) /\ scan[s].hash \in hashes
       THEN Reply(s, TRUE, FALSE) /\ UNCHANGED hashes
       ELSE /\ scan' = [scan EXCEPT ![s].pc = "report",
                                    ![s].todo = scan[s].files]
            /\ hashes' = IF Optimizing(s) THEN hashes \cup {scan[s].hash}
                         ELSE hashes
            /\ UNCHANGED reports
    /\ UNCHANGED <<sources, scans>>

(* locked_insert of each source: one that is new is described.  The order  *)
(* of the file hashes does not matter.                                     *)
ReportSource(s) ==
    /\ At(s, "report")
    /\ \E f \in scan[s].todo :
         /\ scan' = [scan EXCEPT
               ![s].todo = @ \ {f}, ![s].source = {f},
               ![s].pc = IF Optimizing(s) /\ f \in sources
                         THEN "report" ELSE "source_data"]
         /\ sources' = IF Optimizing(s) THEN sources \cup {f} ELSE sources
    /\ UNCHANGED <<hashes, reports, scans>>

(* provide_source_information: find_source_data, then find_source_names,   *)
(* each through the source ID store.                                       *)
ReadSourceData(s) ==
    /\ At(s, "source_data")
    /\ \E f \in scan[s].source :
         scan' = [scan EXCEPT
            ![s].pc = "source_names",
            ![s].source = {<<f, source_data_store[source_id_store[f]]>>}]
    /\ UNCHANGED <<hashes, sources, reports, scans>>

ReadSourceNames(s) ==
    /\ At(s, "source_names")
    /\ \E d \in scan[s].source :
         scan' = [scan EXCEPT
            ![s].pc = "report",
            ![s].described = @ \cup
               {[file |-> d[1], data |-> d[2],
                 names |-> source_name_store[source_id_store[d[1]]]]}]
    /\ UNCHANGED <<hashes, sources, reports, scans>>

(* The JSON text is complete. *)
ReturnReport(s) ==
    /\ At(s, "report") /\ scan[s].todo = {}
    /\ Reply(s, TRUE, TRUE)
    /\ UNCHANGED <<hashes, sources, scans>>

ScanStep(s) ==
    \/ \E mode \in Modes, h \in Hash : find_hash_json(s, mode, h)
    \/ FindHashStore(s) \/ FindHashData(s) \/ FindSourceData(s)
    \/ ReportHash(s) \/ ReportSource(s)
    \/ ReadSourceData(s) \/ ReadSourceNames(s) \/ ReturnReport(s)

(* An assertion ends the process, and with it every scanning thread.       *)
Running == \A s \in Scanner : scan[s].pc # "assert"

Scanning == Running /\ UNCHANGED vars /\ \E s \in Scanner : ScanStep(s)
Importing == UNCHANGED scanVars /\ Next

ScanNext == Scanning \/ Importing

ScanSpec == Init /\ ScanInit /\ [][ScanNext]_allVars

-----------------------------------------------------------------------------
(***************************************************************************)
(* A full report lists the files that were returned for its hash before    *)
(* the scan began, and what it describes of a source has the names that    *)
(* were.                                                                   *)
(***************************************************************************)
ReturnedIsListed ==
    \A r \in reports :
        /\ r.full => r.promised.files \subseteq r.files
        /\ \A d \in r.described, p \in r.promised.names :
              p[1] = d.file => p[2] \in d.names

(***************************************************************************)
(* A scan that starts after insert_hash or merge_hash has returned finds   *)
(* the hash in every mode; in the expanded modes it lists the file, and    *)
(* what it describes of a source has the names that were returned for.     *)
(* Nothing orders the reads of the scan and the writes of other calls.     *)
(***************************************************************************)
ReturnedIsReported ==
    /\ \A r \in reports : r.promised.files # {} => r.found
    /\ ReturnedIsListed

(***************************************************************************)
(* The assertion in find_hash fails only for a source whose ID a thread    *)
(* has created and not yet described: with no import under way a scan      *)
(* never aborts.                                                           *)
(***************************************************************************)
AbortsOnlyOnPending ==
    \A s \in Scanner : scan[s].pc = "assert" =>
        \A i \in scan[s].source :
            \/ source_data_store[i] # NoData
            \/ \E t \in Thread : WillDescribe(t, i)

(* The full reports of h, and those under way, in the optimized mode.      *)
FullReports(h) ==
    {r \in reports : r.mode = "EXPANDED_OPTIMIZED" /\ r.hash = h /\ r.full}
Reporting(h) ==
    {s \in Scanner : /\ scan[s].pc \in {"report", "source_data",
                                        "source_names"}
                     /\ Optimizing(s) /\ scan[s].hash = h}

(***************************************************************************)
(* EXPANDED_OPTIMIZED gives the whole of a hash once: what makes a report  *)
(* short is exactly one full report of that hash, returned or under way,   *)
(* and no source is described by two.                                      *)
(***************************************************************************)
OptimizedOnce ==
    /\ \A h \in Hash :
          Cardinality(FullReports(h)) + Cardinality(Reporting(h))
              = (IF h \in hashes THEN 1 ELSE 0)
    /\ \A q, r \in reports : \A d \in q.described, e \in r.described :
          q.mode = "EXPANDED_OPTIMIZED" /\ r.mode = q.mode /\ d.file = e.file
              => q = r

(***************************************************************************)
(* A scan beside an import returns.  Of scan_manager_t as of               *)
(* import_manager_t hashdb.hpp says "All interfaces are locked and         *)
(* threadsafe" (:310, :498), and the import adds a blank source data       *)
(* record "just to keep from breaking the reverse look-up done in          *)
(* scan_manager_t" (libhashdb.cpp:349).                                    *)
(***************************************************************************)
ScanNeverAborts == Running
=============================================================================
