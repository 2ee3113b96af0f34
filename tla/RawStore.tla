------------------------------ MODULE RawStore ------------------------------
(***************************************************************************)
(* The content-addressed raw-object store (cryptofactors.ingest.raw):      *)
(* writer.py (write_stream, retry_catalog_registration), catalog.py        *)
(* (register_publication, record_failed_acquisition) and reconcile.py      *)
(* (reconcile_orphan_temps).                                               *)
(*                                                                         *)
(* Writers are processes, each with its own SQLite connection, that share  *)
(* one store directory and one catalog.  An action is what a process does  *)
(* between two points at which another process, or a crash, can intervene: *)
(* a file-system call, a lock, a committed statement.  A content stands    *)
(* for the bytes and their digest, so an object at the path of content c   *)
(* either holds those bytes or is "corrupt".                               *)
(***************************************************************************)
EXTENDS Naturals, FiniteSets

CONSTANTS
  Writer,       \* writer processes
  Reconciler,   \* processes running reconcile_orphan_temps
  Temp,         \* names mkstemp may return in the temp directory
  Content,      \* object contents
  AcqId,        \* acquisition ids
  Meta,         \* provenance of an attempt other than its content
  Jobs,         \* calls of write_stream that may be made
  DryRun,       \* reconcile's dry_run
  EagerAge,     \* min_age_seconds so small that a temp is stale before it is leased
  MaxAttempts,  \* bound: calls of write_stream and retry_catalog_registration
  MaxCrashes,   \* bound: writer crashes and power losses
  None          \* no temp, no holder, no row, no job

Process == Writer \cup Reconciler

ASSUME JobsAssumption ==
  Jobs \subseteq [acq : AcqId, content : Content, meta : Meta, register : BOOLEAN]
ASSUME ProcessAssumption == Writer \cap Reconciler = {}
ASSUME FlagAssumption == DryRun \in BOOLEAN /\ EagerAge \in BOOLEAN
ASSUME BoundAssumption == MaxAttempts \in Nat /\ MaxCrashes \in Nat

VARIABLES
  \* the store directory
  temp,        \* does this temp name exist
  aged,        \* is its mtime older than min_age_seconds
  lease,       \* holder of the flock on it
  store,       \* the object path of each content
  \* the catalog
  rawObject,   \* committed rows of raw_object
  acquisition, \* committed row of raw_acquisition, or None
  dbLock,      \* holder of SQLite's write lock
  txn,         \* transaction a refused INSERT left open on a connection
  \* the writers
  pc,          \* where write_stream is
  job,         \* its arguments
  tmp,         \* its temp file
  publication, \* its flags published and reused: "none", "created" or "reused"
  inserted,    \* raw_object row inserted by its open transaction
  \* the reconcilers
  rpc,         \* where the loop over one directory entry is
  entry,       \* that entry
  stale,       \* age > min_age_seconds when the entry was stat'ed
  \* what callers were told, and the bounds
  acked,       \* results returned: the job and whether the object was reused
  recoverable, \* jobs that ended in RecoverableCatalogRegistrationError
  attempts, crashes

fileVars == <<temp, aged, lease, store>>
catalogVars == <<rawObject, acquisition, dbLock, txn>>
writerVars == <<pc, job, tmp, publication, inserted>>
reconcilerVars == <<rpc, entry, stale>>
auxVars == <<acked, recoverable, attempts, crashes>>
vars == <<fileVars, catalogVars, writerVars, reconcilerVars, auxVars>>

Ledger == INSTANCE ContentLedger WITH
            objects <- {c \in Content : store[c] \in {"linked", "durable"}},
            ledger <- acquisition

ASSUME NoneAssumption ==
  None \notin Process \cup Temp \cup Content \cup AcqId \cup Meta \cup Jobs
                \cup Ledger!Verdict

(***************************************************************************)
(* "linked" and "durable" objects hold the right bytes: the temp file was  *)
(* fsynced before the link.  Only the directory entry of a "linked" one    *)
(* has not been fsynced yet.                                               *)
(***************************************************************************)
Intact(c) == store[c] \in {"linked", "durable"}

(***************************************************************************)
(* sqlite3 opens a transaction before an INSERT, and an INSERT refused as  *)
(* busy leaves it open ("begun").  The next SELECT pins its WAL snapshot   *)
(* ("reads"), the next commit of anybody else makes the snapshot           *)
(* "outdated", and from then on every INSERT of the connection is refused. *)
(***************************************************************************)
Free(w) == dbLock \in {None, w} /\ txn[w] # "outdated"

LeftOpen(w) == [txn EXCEPT ![w] = IF txn[w] = "none" THEN "begun" ELSE txn[w]]

CommittedBy(w) ==
  [v \in Writer |-> IF v = w THEN "none"
                    ELSE IF txn[v] = "reads" THEN "outdated" ELSE txn[v]]

(* Mutation: any earlier success of the id counts as this one.             *)
Compatible_ByStatus(w) ==
  acquisition[job[w].acq] # None /\ acquisition[job[w].acq].status = "SUCCEEDED"

(* The acquisition row the job w would register is the one already there:  *)
(* _compatible_provenance, whose raw_object_id stands for the content.     *)
Compatible(w) == acquisition[job[w].acq] = Ledger!Succeeded(job[w].content, job[w].meta)

(* The call moves to label; back at "idle" it has returned or raised.      *)
Goto(w, label) ==
  /\ pc' = [pc EXCEPT ![w] = label]
  /\ job' = [job EXCEPT ![w] = IF label = "idle" THEN None ELSE job[w]]

(* An exception leaves write_stream: a FAILED row is recorded only when     *)
(* nothing was published by this call.                                     *)
AfterError(w) == IF publication[w] = "none" /\ job[w].register THEN "fail_source" ELSE "idle"

Init ==
  /\ temp = [t \in Temp |-> FALSE]
  /\ aged = [t \in Temp |-> FALSE]
  /\ lease = [t \in Temp |-> None]
  /\ store \in [Content -> {"absent", "corrupt"}]
  /\ rawObject = {}
  /\ acquisition = [a \in AcqId |-> None]
  /\ dbLock = None
  /\ txn = [w \in Writer |-> "none"]
  /\ pc = [w \in Writer |-> "idle"]
  /\ job = [w \in Writer |-> None]
  /\ tmp = [w \in Writer |-> None]
  /\ publication = [w \in Writer |-> "none"]
  /\ inserted = [w \in Writer |-> FALSE]
  /\ rpc = [r \in Reconciler |-> "idle"]
  /\ entry = [r \in Reconciler |-> None]
  /\ stale = [r \in Reconciler |-> FALSE]
  /\ acked = {}
  /\ recoverable = {}
  /\ attempts = 0
  /\ crashes = 0
-----------------------------------------------------------------------------
(***************************************************************************)
(* write_stream, up to the publication of the object.                      *)
(***************************************************************************)

(* mkstemp returns a name nobody uses (its random part never recurs).      *)
CreateTemp(w) ==
  /\ pc[w] = "idle"
  /\ attempts < MaxAttempts
  /\ \E j \in Jobs, t \in Temp :
       /\ ~temp[t]
       /\ \A v \in Writer : tmp[v] # t
       /\ \A r \in Reconciler : entry[r] # t
       /\ job' = [job EXCEPT ![w] = j]
       /\ tmp' = [tmp EXCEPT ![w] = t]
       /\ temp' = [temp EXCEPT ![t] = TRUE]
       /\ aged' = [aged EXCEPT ![t] = FALSE]
  /\ attempts' = attempts + 1
  /\ pc' = [pc EXCEPT ![w] = "lease"]
  /\ UNCHANGED <<lease, store, catalogVars, publication, inserted, reconcilerVars,
                 acked, recoverable, crashes>>

(* flock(LOCK_EX | LOCK_NB) on the descriptor just created.                *)
TakeLease(w) ==
  /\ pc[w] = "lease"
  /\ lease[tmp[w]] = None
  /\ lease' = [lease EXCEPT ![tmp[w]] = w]
  /\ Goto(w, "stream")
  /\ UNCHANGED <<temp, aged, store, catalogVars, tmp, publication,
                 inserted, reconcilerVars, auxVars>>

(* Somebody else holds it, which can only be a reconciler's probe: close,  *)
(* unlink, InterruptedWriteError.                                          *)
LeaseRefused(w) ==
  /\ pc[w] = "lease"
  /\ lease[tmp[w]] # None
  /\ temp' = [temp EXCEPT ![tmp[w]] = FALSE]
  /\ tmp' = [tmp EXCEPT ![w] = None]
  /\ Goto(w, AfterError(w))
  /\ UNCHANGED <<aged, lease, store, catalogVars, publication,
                 inserted, reconcilerVars, auxVars>>

(* Chunks written, digest computed, temp fsynced, expected and provider    *)
(* checksums evaluated.                                                    *)
StreamTemp(w) ==
  /\ pc[w] = "stream"
  /\ aged' = [aged EXCEPT ![tmp[w]] = FALSE]
  /\ Goto(w, "publish")
  /\ UNCHANGED <<temp, lease, store, catalogVars, tmp, publication,
                 inserted, reconcilerVars, auxVars>>

(* The source aborts, the temp cannot be fsynced, a checksum disagrees.    *)
StreamFails(w) ==
  /\ pc[w] = "stream"
  /\ Goto(w, "close")
  /\ UNCHANGED <<fileVars, catalogVars, tmp, publication, inserted,
                 reconcilerVars, auxVars>>

Publish(w, how, label) ==
  /\ publication' = [publication EXCEPT ![w] = how]
  /\ Goto(w, label)

(* final_path.exists(): an intact object is reused as it stands; a corrupt *)
(* one is CorruptDestinationError; none at all leads to the link.          *)
ProbeFinal(w) ==
  LET c == job[w].content IN
  /\ pc[w] = "publish"
  /\ \/ Intact(c) /\ Publish(w, "reused", "verify")
     \/ store[c] = "corrupt" /\ Goto(w, "close") /\ UNCHANGED publication
     \/ store[c] = "absent" /\ Goto(w, "link") /\ UNCHANGED publication
  /\ UNCHANGED <<fileVars, catalogVars, tmp, inserted, reconcilerVars, auxVars>>

(* os.link of the temp onto the final path: PublicationError when the temp *)
(* name is gone, and never over an existing object.                        *)
LinkFinal(w) ==
  LET c == job[w].content IN
  /\ pc[w] = "link"
  /\ \/ /\ ~temp[tmp[w]] \/ store[c] = "corrupt"
        /\ Goto(w, "close") /\ UNCHANGED <<store, publication>>
     \/ /\ temp[tmp[w]] /\ store[c] = "absent"
        /\ store' = [store EXCEPT ![c] = "linked"]
        /\ Publish(w, "created", "sync")
     \/ /\ temp[tmp[w]] /\ Intact(c)
        /\ Publish(w, "reused", "verify") /\ UNCHANGED store
  /\ UNCHANGED <<temp, aged, lease, catalogVars, tmp, inserted,
                 reconcilerVars, auxVars>>

(* fsync_file(final) and _fsync_parents.                                   *)
SyncFinal(w) ==
  /\ pc[w] = "sync"
  /\ store' = [store EXCEPT ![job[w].content] = "durable"]
  /\ Goto(w, "verify")
  /\ UNCHANGED <<temp, aged, lease, catalogVars, tmp, publication,
                 inserted, reconcilerVars, auxVars>>

(* Mutation: the fsync error is swallowed.                                 *)
SyncFails_Swallowed(w) ==
  /\ pc[w] = "sync"
  /\ Goto(w, "verify")
  /\ UNCHANGED <<fileVars, catalogVars, tmp, publication, inserted,
                 reconcilerVars, auxVars>>

(* DurabilityError after the link: the object stays, no row is written.    *)
SyncFails(w) ==
  /\ pc[w] = "sync"
  /\ Goto(w, "close")
  /\ UNCHANGED <<fileVars, catalogVars, tmp, publication, inserted,
                 reconcilerVars, auxVars>>
-----------------------------------------------------------------------------
(***************************************************************************)
(* register_publication.                                                   *)
(***************************************************************************)

(* verify_publication_receipt re-reads the object before any row.          *)
VerifyReceipt(w) ==
  /\ pc[w] = "verify"
  /\ Goto(w, IF ~job[w].register THEN "return"
             ELSE IF Intact(job[w].content) THEN "source" ELSE "close")
  /\ UNCHANGED <<fileVars, catalogVars, tmp, publication, inserted,
                 reconcilerVars, auxVars>>

(* ensure_source inserts nothing, the source being registered, and commits, *)
(* which also ends a transaction this connection left open earlier.        *)
EnsureSource(w) ==
  /\ pc[w] \in {"source", "fail_source"}
  /\ Free(w)
  /\ dbLock' = None
  /\ txn' = [txn EXCEPT ![w] = "none"]
  /\ Goto(w, IF pc[w] = "source" THEN "lookup" ELSE "fail_lookup")
  /\ UNCHANGED <<fileVars, rawObject, acquisition, tmp, publication,
                 inserted, reconcilerVars, auxVars>>

(* get_acquisition: nothing yet, our own earlier success, or a conflict.   *)
LookupAcquisition(w) ==
  /\ pc[w] = "lookup"
  /\ Goto(w, IF acquisition[job[w].acq] = None THEN "object"
             ELSE IF Compatible(w) THEN "return" ELSE "close")
  /\ UNCHANGED <<fileVars, catalogVars, tmp, publication, inserted,
                 reconcilerVars, auxVars>>

(* INSERT INTO raw_object unless the row is there.  A row committed between *)
(* the SELECT and the INSERT ends the same way, after a rollback.          *)
InsertObject(w) ==
  /\ pc[w] = "object"
  /\ \/ /\ job[w].content \in rawObject
        /\ UNCHANGED <<dbLock, inserted>>
     \/ /\ job[w].content \notin rawObject
        /\ Free(w)
        /\ dbLock' = w
        /\ inserted' = [inserted EXCEPT ![w] = TRUE]
  /\ Goto(w, "acquisition")
  /\ UNCHANGED <<fileVars, rawObject, acquisition, txn, tmp, publication,
                 reconcilerVars, auxVars>>

(* INSERT INTO raw_acquisition and commit.                                 *)
CommitAcquisition(w) ==
  /\ pc[w] = "acquisition"
  /\ Free(w)
  /\ acquisition[job[w].acq] = None
  /\ acquisition' = [acquisition EXCEPT
                       ![job[w].acq] = Ledger!Succeeded(job[w].content, job[w].meta)]
  /\ rawObject' = IF inserted[w] THEN rawObject \cup {job[w].content} ELSE rawObject
  /\ inserted' = [inserted EXCEPT ![w] = FALSE]
  /\ dbLock' = None
  /\ txn' = CommittedBy(w)
  /\ Goto(w, "return")
  /\ UNCHANGED <<fileVars, tmp, publication, reconcilerVars, auxVars>>

(* The id was taken since the lookup: IntegrityError, rollback, and success *)
(* only if the row found is the one we meant to write.                     *)
AcquisitionTaken(w) ==
  /\ pc[w] = "acquisition"
  /\ Free(w)
  /\ acquisition[job[w].acq] # None
  /\ inserted' = [inserted EXCEPT ![w] = FALSE]
  /\ dbLock' = None
  /\ Goto(w, IF Compatible(w) THEN "return" ELSE "close")
  /\ UNCHANGED <<fileVars, rawObject, acquisition, txn, tmp, publication,
                 reconcilerVars, auxVars>>

(* busy_timeout runs out while another connection holds the write lock, or *)
(* SQLite refuses an outdated snapshot: RecoverableCatalogRegistrationError. *)
RegistrationBusy(w) ==
  /\ \/ pc[w] \in {"source", "acquisition"}
     \/ pc[w] = "object" /\ job[w].content \notin rawObject
  /\ ~Free(w)
  /\ recoverable' = recoverable \cup {job[w]}
  /\ txn' = LeftOpen(w)
  /\ Goto(w, "close")
  /\ UNCHANGED <<fileVars, rawObject, acquisition, dbLock, tmp, publication, inserted,
                 reconcilerVars, acked, attempts, crashes>>

(* The inner finally: unlock, close and unlink the temp.                   *)
DropTemp(w) ==
  /\ lease' = [t \in Temp |-> IF t = tmp[w] /\ lease[t] = w THEN None ELSE lease[t]]
  /\ temp' = [t \in Temp |-> temp[t] /\ t # tmp[w]]
  /\ tmp' = [tmp EXCEPT ![w] = None]
  /\ publication' = [publication EXCEPT ![w] = "none"]

Close(w) ==
  /\ pc[w] = "close"
  /\ DropTemp(w)
  /\ Goto(w, AfterError(w))
  /\ UNCHANGED <<aged, store, catalogVars, inserted, reconcilerVars, auxVars>>

Return(w) ==
  /\ pc[w] = "return"
  /\ DropTemp(w)
  /\ acked' = acked \cup {[job |-> job[w], reused |-> publication[w] = "reused"]}
  /\ Goto(w, "idle")
  /\ UNCHANGED <<aged, store, catalogVars, inserted, reconcilerVars,
                 recoverable, attempts, crashes>>

(* retry_catalog_registration after a RecoverableCatalogRegistrationError: *)
(* no temp, the object is verified and registered.                         *)
RetryRegistration(w) ==
  /\ pc[w] = "idle"
  /\ attempts < MaxAttempts
  /\ \E j \in recoverable :
       /\ Intact(j.content)
       /\ job' = [job EXCEPT ![w] = j]
  /\ publication' = [publication EXCEPT ![w] = "reused"]
  /\ attempts' = attempts + 1
  /\ pc' = [pc EXCEPT ![w] = "verify"]
  /\ UNCHANGED <<fileVars, catalogVars, tmp, inserted, reconcilerVars, acked,
                 recoverable, crashes>>
-----------------------------------------------------------------------------
(***************************************************************************)
(* record_failed_acquisition, called by _record_pre_publication_failure.   *)
(***************************************************************************)

(* A FAILED row already there is an idempotent repeat or a conflict, any   *)
(* other row a conflict: the original exception is raised in every case.   *)
LookupFailed(w) ==
  /\ pc[w] = "fail_lookup"
  /\ Goto(w, IF acquisition[job[w].acq] = None THEN "fail_insert" ELSE "idle")
  /\ UNCHANGED <<fileVars, catalogVars, tmp, publication, inserted,
                 reconcilerVars, auxVars>>

(* Mutation: the FAILED row replaces a row that appeared since the lookup. *)
CommitFailed_Overwrites(w) ==
  /\ pc[w] = "fail_insert"
  /\ Free(w)
  /\ acquisition' = [acquisition EXCEPT ![job[w].acq] = Ledger!Failed(job[w].meta)]
  /\ txn' = CommittedBy(w)
  /\ Goto(w, "idle")
  /\ UNCHANGED <<fileVars, rawObject, dbLock, tmp, publication,
                 inserted, reconcilerVars, auxVars>>

CommitFailed(w) ==
  /\ pc[w] = "fail_insert"
  /\ Free(w)
  /\ acquisition[job[w].acq] = None
  /\ acquisition' = [acquisition EXCEPT ![job[w].acq] = Ledger!Failed(job[w].meta)]
  /\ txn' = CommittedBy(w)
  /\ Goto(w, "idle")
  /\ UNCHANGED <<fileVars, rawObject, dbLock, tmp, publication,
                 inserted, reconcilerVars, auxVars>>

(* The id was taken since the lookup.  Nothing rolls back: the connection  *)
(* keeps its transaction open and with it the write lock, until its next   *)
(* ensure_source.                                                          *)
FailedTaken(w) ==
  /\ pc[w] = "fail_insert"
  /\ Free(w)
  /\ acquisition[job[w].acq] # None
  /\ dbLock' = w
  /\ Goto(w, "idle")
  /\ UNCHANGED <<fileVars, rawObject, acquisition, txn, tmp, publication,
                 inserted, reconcilerVars, auxVars>>

(* Mutation: no busy timeout while recording a failure.                    *)
FailureBusy_Never(w) == FALSE

FailureBusy(w) ==
  /\ pc[w] \in {"fail_source", "fail_insert"}
  /\ ~Free(w)
  /\ txn' = LeftOpen(w)
  /\ Goto(w, "idle")
  /\ UNCHANGED <<fileVars, rawObject, acquisition, dbLock, tmp, publication,
                 inserted, reconcilerVars, auxVars>>

(* Between two calls the process reads the catalog (get_acquisition,       *)
(* get_content_by_sha256, list_acquisitions_for_object).                   *)
ReadCatalog(w) ==
  /\ pc[w] = "idle"
  /\ txn[w] = "begun"
  /\ txn' = [txn EXCEPT ![w] = "reads"]
  /\ UNCHANGED <<fileVars, rawObject, acquisition, dbLock, writerVars,
                 reconcilerVars, auxVars>>
-----------------------------------------------------------------------------
(* Mutation: a lease that outlives its process (a pid file, not a flock).  *)
Crash_KeepsLease(w) ==
  /\ pc[w] # "idle" \/ dbLock = w \/ txn[w] # "none"
  /\ crashes < MaxCrashes
  /\ crashes' = crashes + 1
  /\ dbLock' = IF dbLock = w THEN None ELSE dbLock
  /\ txn' = [txn EXCEPT ![w] = "none"]
  /\ tmp' = [tmp EXCEPT ![w] = None]
  /\ inserted' = [inserted EXCEPT ![w] = FALSE]
  /\ Goto(w, "idle")
  /\ publication' = [publication EXCEPT ![w] = "none"]
  /\ UNCHANGED <<temp, aged, lease, store, rawObject, acquisition, reconcilerVars,
                 acked, recoverable, attempts>>

(***************************************************************************)
(* A writer process dies: the kernel drops its flock, SQLite its           *)
(* transaction; its temp file stays.                                       *)
(***************************************************************************)
Crash(w) ==
  /\ pc[w] # "idle" \/ dbLock = w \/ txn[w] # "none"
  /\ crashes < MaxCrashes
  /\ crashes' = crashes + 1
  /\ lease' = [t \in Temp |-> IF lease[t] = w THEN None ELSE lease[t]]
  /\ dbLock' = IF dbLock = w THEN None ELSE dbLock
  /\ txn' = [txn EXCEPT ![w] = "none"]
  /\ tmp' = [tmp EXCEPT ![w] = None]
  /\ inserted' = [inserted EXCEPT ![w] = FALSE]
  /\ Goto(w, "idle")
  /\ publication' = [publication EXCEPT ![w] = "none"]
  /\ UNCHANGED <<temp, aged, store, rawObject, acquisition, reconcilerVars,
                 acked, recoverable, attempts>>

(* The machine loses power: every process dies, and directory entries that *)
(* were never fsynced may be gone; committed catalog rows are not.         *)
PowerLoss ==
  /\ crashes < MaxCrashes
  /\ crashes' = crashes + 1
  /\ store' \in {s \in [Content -> {"absent", "corrupt", "linked", "durable"}] :
                   \A c \in Content : \/ s[c] = store[c]
                                      \/ store[c] = "linked" /\ s[c] = "absent"}
  /\ lease' = [t \in Temp |-> None]
  /\ dbLock' = None
  /\ txn' = [w \in Writer |-> "none"]
  /\ pc' = [w \in Writer |-> "idle"]
  /\ job' = [w \in Writer |-> None]
  /\ publication' = [w \in Writer |-> "none"]
  /\ tmp' = [w \in Writer |-> None]
  /\ inserted' = [w \in Writer |-> FALSE]
  /\ rpc' = [r \in Reconciler |-> "idle"]
  /\ entry' = [r \in Reconciler |-> None]
  /\ stale' = [r \in Reconciler |-> FALSE]
  /\ UNCHANGED <<temp, aged, rawObject, acquisition, acked, recoverable, attempts>>
-----------------------------------------------------------------------------
(***************************************************************************)
(* reconcile_orphan_temps, one directory entry at a time.                  *)
(***************************************************************************)

(* min_age_seconds elapse since the last write.  Unless it is next to zero *)
(* no writer takes that long between mkstemp and flock.                    *)
GrowOld(t) ==
  /\ temp[t] /\ ~aged[t]
  /\ EagerAge \/ \A w \in Writer : ~(pc[w] = "lease" /\ tmp[w] = t)
  /\ aged' = [aged EXCEPT ![t] = TRUE]
  /\ UNCHANGED <<temp, lease, store, catalogVars, writerVars, reconcilerVars, auxVars>>

StatEntry(r) ==
  /\ rpc[r] = "idle"
  /\ \E t \in Temp :
       /\ temp[t]
       /\ entry' = [entry EXCEPT ![r] = t]
       /\ stale' = [stale EXCEPT ![r] = aged[t]]
  /\ rpc' = [rpc EXCEPT ![r] = "probe"]
  /\ UNCHANGED <<fileVars, catalogVars, writerVars, auxVars>>

Leave(r) ==
  /\ rpc' = [rpc EXCEPT ![r] = "idle"]
  /\ entry' = [entry EXCEPT ![r] = None]
  /\ stale' = [stale EXCEPT ![r] = FALSE]

(* Not locked.  After the first probe only a stale entry is probed again,  *)
(* and only when the run is not a dry run; after the second it is unlinked. *)
Advance(r) ==
  \/ /\ rpc[r] \in {"probe", "probing"} /\ (~stale[r] \/ DryRun)
     /\ Leave(r)
  \/ /\ rpc[r] \in {"probe", "probing"} /\ stale[r] /\ ~DryRun
     /\ rpc' = [rpc EXCEPT ![r] = "reprobe"]
     /\ UNCHANGED <<entry, stale>>
  \/ /\ rpc[r] \in {"reprobe", "reprobing"}
     /\ rpc' = [rpc EXCEPT ![r] = "unlink"]
     /\ UNCHANGED <<entry, stale>>

(* _is_actively_locked opens the entry and tries the flock itself.  An     *)
(* entry that cannot be opened counts as not locked.                       *)
ProbeLease(r) ==
  /\ rpc[r] \in {"probe", "reprobe"}
  /\ \/ /\ temp[entry[r]] /\ lease[entry[r]] = None
        /\ lease' = [lease EXCEPT ![entry[r]] = r]
        /\ rpc' = [rpc EXCEPT ![r] = IF rpc[r] = "probe" THEN "probing" ELSE "reprobing"]
        /\ UNCHANGED <<entry, stale>>
     \/ /\ temp[entry[r]] /\ lease[entry[r]] # None
        /\ Leave(r)
        /\ UNCHANGED lease
     \/ /\ ~temp[entry[r]]
        /\ Advance(r)
        /\ UNCHANGED lease
  /\ UNCHANGED <<temp, aged, store, catalogVars, writerVars, auxVars>>

(* Mutation: every unlocked temp is removed, whatever its age.             *)
ReleaseProbe_IgnoresAge(r) ==
  /\ rpc[r] \in {"probing", "reprobing"}
  /\ lease' = [lease EXCEPT ![entry[r]] = None]
  /\ rpc' = [rpc EXCEPT ![r] = IF rpc[r] = "probing" THEN "reprobe" ELSE "unlink"]
  /\ UNCHANGED <<entry, stale, temp, aged, store, catalogVars, writerVars, auxVars>>

ReleaseProbe(r) ==
  /\ rpc[r] \in {"probing", "reprobing"}
  /\ lease' = [lease EXCEPT ![entry[r]] = None]
  /\ Advance(r)
  /\ UNCHANGED <<temp, aged, store, catalogVars, writerVars, auxVars>>

UnlinkEntry(r) ==
  /\ rpc[r] = "unlink"
  /\ temp' = [temp EXCEPT ![entry[r]] = FALSE]
  /\ Leave(r)
  /\ UNCHANGED <<aged, lease, store, catalogVars, writerVars, auxVars>>
-----------------------------------------------------------------------------
Write(w) ==
  \/ TakeLease(w) \/ LeaseRefused(w) \/ StreamTemp(w) \/ StreamFails(w)
  \/ ProbeFinal(w) \/ LinkFinal(w) \/ SyncFinal(w) \/ SyncFails(w)
  \/ VerifyReceipt(w) \/ EnsureSource(w) \/ LookupAcquisition(w)
  \/ InsertObject(w) \/ CommitAcquisition(w) \/ AcquisitionTaken(w)
  \/ RegistrationBusy(w) \/ Close(w) \/ Return(w)
  \/ LookupFailed(w) \/ CommitFailed(w) \/ FailedTaken(w) \/ FailureBusy(w)

Call(w) == CreateTemp(w) \/ RetryRegistration(w) \/ ReadCatalog(w)

Reconcile(r) == StatEntry(r) \/ ProbeLease(r) \/ ReleaseProbe(r) \/ UnlinkEntry(r)

Next ==
  \/ \E w \in Writer : Call(w) \/ Write(w) \/ Crash(w)
  \/ \E r \in Reconciler : Reconcile(r)
  \/ \E t \in Temp : GrowOld(t)

Spec == Init /\ [][Next]_vars

PowerSpec == Init /\ [][Next \/ PowerLoss]_vars

(* Every process keeps being scheduled and time passes; callers need not   *)
(* call and nothing obliges a process to crash.  A reconciler is run again *)
(* and again and its directory scan returns every entry.                   *)
Fairness ==
  /\ \A w \in Writer : WF_vars(Write(w))
  /\ \A r \in Reconciler : WF_vars(Reconcile(r))
  /\ \A r \in Reconciler, t \in Temp : SF_vars(StatEntry(r) /\ entry'[r] = t /\ stale'[r])
  /\ \A t \in Temp : WF_vars(GrowOld(t))

FairSpec == PowerSpec /\ Fairness
-----------------------------------------------------------------------------
Labels == {"idle", "lease", "stream", "publish", "link", "sync", "verify", "source",
           "lookup", "object", "acquisition", "return", "close",
           "fail_source", "fail_lookup", "fail_insert"}

TypeOK ==
  /\ temp \in [Temp -> BOOLEAN]
  /\ aged \in [Temp -> BOOLEAN]
  /\ lease \in [Temp -> Process \cup {None}]
  /\ store \in [Content -> {"absent", "corrupt", "linked", "durable"}]
  /\ rawObject \subseteq Content
  /\ acquisition \in [AcqId -> Ledger!Verdict \cup {None}]
  /\ dbLock \in Writer \cup {None}
  /\ txn \in [Writer -> {"none", "begun", "reads", "outdated"}]
  /\ pc \in [Writer -> Labels]
  /\ job \in [Writer -> Jobs \cup {None}]
  /\ tmp \in [Writer -> Temp \cup {None}]
  /\ publication \in [Writer -> {"none", "created", "reused"}]
  /\ inserted \in [Writer -> BOOLEAN]
  /\ rpc \in [Reconciler -> {"idle", "probe", "probing", "reprobe", "reprobing", "unlink"}]
  /\ entry \in [Reconciler -> Temp \cup {None}]
  /\ stale \in [Reconciler -> BOOLEAN]
  /\ acked \subseteq [job : Jobs, reused : BOOLEAN]
  /\ recoverable \subseteq Jobs
  /\ attempts \in Nat
  /\ crashes \in Nat
-----------------------------------------------------------------------------
(* Every raw_object row and every SUCCEEDED acquisition names an object    *)
(* whose bytes are published, and a SUCCEEDED acquisition also has its     *)
(* raw_object row: nothing a writer, a crash, a rollback or a reconciler   *)
(* does in between separates the catalog from the store.                   *)
CatalogBacked ==
  /\ \A c \in rawObject : Intact(c)
  /\ \A a \in AcqId, c \in Content, m \in Meta :
       acquisition[a] = Ledger!Succeeded(c, m) => c \in rawObject

(* A call that returned has its acquisition registered with the content    *)
(* and provenance it was called with, however many processes used the same *)
(* acquisition id meanwhile.                                               *)
AckedIsRegistered ==
  \A r \in acked :
    /\ Intact(r.job.content)
    /\ r.job.register =>
         acquisition[r.job.acq] = Ledger!Succeeded(r.job.content, r.job.meta)

(* A PublishResult (an object this call created) is only returned once the *)
(* directory entry is fsynced, so it survives power losses; a result that  *)
(* reused an existing object promises no such thing.                       *)
CreatedAckIsDurable ==
  \A r \in acked : ~r.reused => store[r.job.content] = "durable"

(* While a writer holds its lease the temp keeps its name: no reconciler   *)
(* unlinks a file that is being written or linked.                         *)
LeaseProtectsTemp ==
  \A w \in Writer :
    pc[w] \in {"stream", "publish", "link"} => temp[tmp[w]] /\ lease[tmp[w]] = w

(* The detailed store implements the ledger: at most one immutable verdict *)
(* per acquisition id, SUCCEEDED only for a published content.             *)
ImplementsLedger == Ledger!Spec

(* Whatever locks other processes hold or leave behind, a call ends.       *)
CallsEnd == \A w \in Writer : pc[w] # "idle" ~> pc[w] = "idle"

(* A temp file without a writer is eventually removed.                     *)
Orphaned(t) == temp[t] /\ \A w \in Writer : tmp[w] # t
OrphansRemoved == \A t \in Temp : Orphaned(t) ~> ~temp[t]
=============================================================================
