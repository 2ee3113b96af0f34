---------------------------- MODULE DatasetStore ----------------------------
(***************************************************************************)
(* Publication of immutable datasets: catalog/dataset/publisher.py         *)
(* (publish, retry_catalog_registration), catalog_store.py                 *)
(* (register_from_receipt, the quarantine transaction) and the quarantine  *)
(* of acquisition/bitmex_funding_quarantine.py.                            *)
(*                                                                         *)
(* Publishers and quarantiners are processes over one directory tree and   *)
(* one catalog.  A dataset id is the digest of everything it stands for,   *)
(* so two publishers of one id publish the same bytes; lineage, supersession *)
(* and declared quality (PASS) are functions of the id.                    *)
(***************************************************************************)
EXTENDS Naturals, FiniteSets

CONSTANTS
  Publisher,    \* processes that publish
  Quarantiner,  \* processes that run the quarantine
  Dataset, Supersedes, Inputs, Targets, None,  \* see DatasetLedger
  Nested,       \* datasets with an output in a subdirectory
  MaxCalls,     \* bound: calls of publish, retry and the quarantine
  MaxCrashes    \* bound: deaths of processes and power losses

Process == Publisher \cup Quarantiner

ASSUME DatasetAssumption ==
  /\ Supersedes \in [Dataset -> Dataset \cup {None}]
  /\ Inputs \in [Dataset -> SUBSET Dataset]
  /\ Targets \subseteq Dataset /\ Targets # {}
  /\ Nested \subseteq Dataset
ASSUME ProcessAssumption == Publisher \cap Quarantiner = {}
ASSUME NoneAssumption == None \notin Process \cup Dataset
ASSUME BoundAssumption == MaxCalls \in Nat /\ MaxCrashes \in Nat

VARIABLES
  tree,        \* the final directory of each dataset
  row,         \* its committed catalog row, or None
  lock,        \* holder of SQLite's write lock
  pc,          \* where a publisher's call is
  target,      \* the dataset it publishes
  reused,      \* its flag reused
  doomed,      \* history: its dataset was rejected when the call began
  qpc,         \* where a quarantine is
  swapped,     \* targets its open transaction has rejected
  acked,       \* results returned
  recoverable, \* datasets some call ended on with RecoverableDatasetCatalogError
  calls, crashes

catalogVars == <<row, lock>>
publisherVars == <<pc, target, reused, doomed>>
quarantineVars == <<qpc, swapped>>
auxVars == <<acked, recoverable, calls, crashes>>
vars == <<tree, catalogVars, publisherVars, quarantineVars, auxVars>>

Ledger == INSTANCE DatasetLedger WITH
            published <- {d \in Dataset : tree[d] \in {"exposed", "synced"}}, rows <- row

ASSUME RowAssumption == None \notin Ledger!Row

(***************************************************************************)
(* A final directory is "reserved" when it has no manifest: publishers     *)
(* never leave one, but it may be there from outside.  "exposed" and       *)
(* "synced" hold every declared file; the directory entries above an       *)
(* exposed one are not fsynced yet.  "torn" lost a file of a subdirectory. *)
(***************************************************************************)
Init ==
  /\ tree \in [Dataset -> {"absent", "reserved"}]
  /\ row = [d \in Dataset |-> None]
  /\ lock = None
  /\ pc = [p \in Publisher |-> "idle"]
  /\ target = [p \in Publisher |-> None]
  /\ reused = [p \in Publisher |-> FALSE]
  /\ doomed = [p \in Publisher |-> FALSE]
  /\ qpc = [q \in Quarantiner |-> "idle"]
  /\ swapped = [q \in Quarantiner |-> {}]
  /\ acked = {}
  /\ recoverable = {}
  /\ calls = 0
  /\ crashes = 0

(* Mutation: a directory that is there counts as the dataset.              *)
Intact_DirectoryExists(d) == tree[d] # "absent"

(* _verify_existing_dataset_strict and verify_published_tree: manifest and *)
(* every declared file are there, with their digests.                      *)
Intact(d) == tree[d] \in {"exposed", "synced"}

(* The call moves on; back at "idle" it has returned or raised.            *)
Goto(p, label) ==
  /\ pc' = [pc EXCEPT ![p] = label]
  /\ target' = [target EXCEPT ![p] = IF label = "idle" THEN None ELSE target[p]]
  /\ reused' = [reused EXCEPT ![p] = label # "idle" /\ reused[p]]
  /\ doomed' = [doomed EXCEPT ![p] = label # "idle" /\ doomed[p]]

(* The call moves on with reused set.                                      *)
GotoReused(p, label) ==
  /\ pc' = [pc EXCEPT ![p] = label]
  /\ reused' = [reused EXCEPT ![p] = TRUE]
  /\ UNCHANGED <<target, doomed>>

IsRejected(d) == row[d] # None /\ row[d].quality = "REJECTED"

(* A call on dataset d begins.                                             *)
Begin(p, d) ==
  /\ target' = [target EXCEPT ![p] = d]
  /\ doomed' = [doomed EXCEPT ![p] = IsRejected(d)]

(* publish turns every error of the registration into                      *)
(* RecoverableDatasetCatalogError.                                         *)
RaiseRecoverable(p) ==
  /\ recoverable' = recoverable \cup {target[p]}
  /\ Goto(p, "idle")
-----------------------------------------------------------------------------
(***************************************************************************)
(* publish, up to the visible directory.                                   *)
(***************************************************************************)

(* validate_dependencies: every upstream dataset is registered.            *)
Publish(p) ==
  /\ pc[p] = "idle"
  /\ calls < MaxCalls
  /\ calls' = calls + 1
  /\ \E d \in Dataset :
       /\ \A e \in Inputs[d] : row[e] # None
       /\ Begin(p, d)
  /\ pc' = [pc EXCEPT ![p] = "probe"]
  /\ UNCHANGED <<tree, catalogVars, reused, quarantineVars, acked, recoverable, crashes>>

(* _ensure_published looks at the final path: nothing there makes this     *)
(* publisher the owner, a complete tree is reused, a torn one is corrupt.  *)
ProbeFinal(p) ==
  LET d == target[p] IN
  /\ pc[p] = "probe"
  /\ \/ /\ tree[d] = "absent"
        /\ Goto(p, "stage")
     \/ /\ Intact(d)
        /\ GotoReused(p, "verify")
     \/ /\ tree[d] = "torn"
        /\ Goto(p, "idle")
  /\ UNCHANGED <<tree, catalogVars, quarantineVars, auxVars>>

(* Mutation: the wait has no deadline.                                     *)
GiveUpWaiting_Never(p) ==
  /\ pc[p] = "probe"
  /\ tree[target[p]] = "reserved"
  /\ UNCHANGED vars

(* No manifest: back off and look again, until the deadline raises         *)
(* DatasetPublicationInProgressError.                                      *)
GiveUpWaiting(p) ==
  /\ pc[p] = "probe"
  /\ tree[target[p]] = "reserved"
  /\ Goto(p, "idle")
  /\ UNCHANGED <<tree, catalogVars, quarantineVars, auxVars>>

(* _publish_as_owner builds the stage: outputs copied, hashed and fsynced, *)
(* the manifest last, the stage directory and its parent fsynced.          *)
BuildStage(p) ==
  /\ pc[p] = "stage"
  /\ Goto(p, "expose")
  /\ UNCHANGED <<tree, catalogVars, quarantineVars, auxVars>>

(* A source is missing or changed, the disk is full, the rename fails: the *)
(* stage is removed.                                                       *)
StageFails(p) ==
  /\ pc[p] \in {"stage", "expose"}
  /\ Goto(p, "idle")
  /\ UNCHANGED <<tree, catalogVars, quarantineVars, auxVars>>

(* os.rename of the stage: refused over a directory with files in it, and  *)
(* then this publisher lost the reservation and looks again.               *)
ExposeStage(p) ==
  LET d == target[p] IN
  /\ pc[p] = "expose"
  /\ \/ /\ tree[d] = "absent"
        /\ tree' = [tree EXCEPT ![d] = "exposed"]
        /\ Goto(p, "sync")
     \/ /\ tree[d] # "absent"
        /\ Goto(p, "probe")
        /\ UNCHANGED tree
  /\ UNCHANGED <<catalogVars, quarantineVars, auxVars>>

(* fsync_parents, and the strict verification of the tree just renamed.    *)
SyncParents(p) ==
  /\ pc[p] = "sync"
  /\ tree' = [tree EXCEPT ![target[p]] = "synced"]
  /\ Goto(p, "verify")
  /\ UNCHANGED <<catalogVars, quarantineVars, auxVars>>

(* DatasetDurabilityError: the tree stays visible.                         *)
SyncFails(p) ==
  /\ pc[p] = "sync"
  /\ Goto(p, "idle")
  /\ UNCHANGED <<tree, catalogVars, quarantineVars, auxVars>>
-----------------------------------------------------------------------------
(***************************************************************************)
(* register_from_receipt.                                                  *)
(***************************************************************************)

HasSuccessor(d) == \E e \in Dataset : row[e] # None /\ Supersedes[e] = d

(* _complete_identical_registration: the row is what registration would    *)
(* write, up to a supersession that took place since.                      *)
Identical(d) ==
  /\ row[d].quality = "PASS"
  /\ Supersedes[d] # None =>
       row[Supersedes[d]] # None /\ row[Supersedes[d]].status = "SUPERSEDED"
  /\ row[d].status = "SUPERSEDED" => HasSuccessor(d)

(* The tree is verified again before any row.                              *)
VerifyTree(p) ==
  /\ pc[p] = "verify"
  /\ IF Intact(target[p])
     THEN Goto(p, "lookup") /\ UNCHANGED recoverable
     ELSE RaiseRecoverable(p)
  /\ UNCHANGED <<tree, catalogVars, quarantineVars, acked, calls, crashes>>

(* get_dataset: no row yet, the same registration, or a conflict.          *)
LookupDataset(p) ==
  LET d == target[p] IN
  /\ pc[p] = "lookup"
  /\ \/ row[d] = None /\ Goto(p, "supersede") /\ UNCHANGED recoverable
     \/ row[d] # None /\ Identical(d) /\ GotoReused(p, "return") /\ UNCHANGED recoverable
     \/ row[d] # None /\ ~Identical(d) /\ RaiseRecoverable(p)
  /\ UNCHANGED <<tree, catalogVars, quarantineVars, acked, calls, crashes>>

(* _validate_supersession: no self-supersession and the predecessor is     *)
(* registered.  Its walk along registered predecessors cannot meet an id   *)
(* that has no row yet.                                                    *)
ValidateSupersession(p) ==
  LET d == target[p] IN
  /\ pc[p] = "supersede"
  /\ IF Supersedes[d] # None /\ (Supersedes[d] = d \/ row[Supersedes[d]] = None)
     THEN RaiseRecoverable(p)
     ELSE Goto(p, "insert") /\ UNCHANGED recoverable
  /\ UNCHANGED <<tree, catalogVars, quarantineVars, acked, calls, crashes>>

(* The first INSERT takes the write lock; the row may have appeared since  *)
(* the lookup, which is an IntegrityError and a rollback.                  *)
BeginInsert(p) ==
  /\ pc[p] = "insert"
  /\ lock = None
  /\ \/ /\ row[target[p]] = None
        /\ lock' = p
        /\ Goto(p, "commit")
     \/ /\ row[target[p]] # None
        /\ Goto(p, "reread")
        /\ UNCHANGED lock
  /\ UNCHANGED <<tree, row, quarantineVars, auxVars>>

(* busy_timeout runs out, a later INSERT or the commit fails: rollback.    *)
InsertFails(p) ==
  /\ pc[p] \in {"insert", "commit"}
  /\ lock' = IF lock = p THEN None ELSE lock
  /\ RaiseRecoverable(p)
  /\ UNCHANGED <<tree, row, quarantineVars, acked, calls, crashes>>

(* Mutation: the predecessor keeps its status.                             *)
CommitRow_KeepsPredecessor(p) ==
  /\ pc[p] = "commit"
  /\ row' = [row EXCEPT ![target[p]] = Ledger!Registered]
  /\ lock' = None
  /\ Goto(p, "return")
  /\ UNCHANGED <<tree, quarantineVars, auxVars>>

(* _insert_all and commit: the dataset's rows and the predecessor's status. *)
CommitRow(p) ==
  LET d == target[p] IN
  /\ pc[p] = "commit"
  /\ row' = [e \in Dataset |-> IF e = d THEN Ledger!Registered
                               ELSE IF e = Supersedes[d] THEN Ledger!Superseded(row[e])
                               ELSE row[e]]
  /\ lock' = None
  /\ Goto(p, "return")
  /\ UNCHANGED <<tree, quarantineVars, auxVars>>

(* The concurrent winner's row is compared.                                *)
RereadDataset(p) ==
  LET d == target[p] IN
  /\ pc[p] = "reread"
  /\ \/ row[d] # None /\ Identical(d) /\ GotoReused(p, "return") /\ UNCHANGED recoverable
     \/ ~(row[d] # None /\ Identical(d)) /\ RaiseRecoverable(p)
  /\ UNCHANGED <<tree, catalogVars, quarantineVars, acked, calls, crashes>>

(* The caller gets its result, some time after the row was read or         *)
(* committed.                                                              *)
ReturnResult(p) ==
  /\ pc[p] = "return"
  /\ acked' = acked \cup {[dataset |-> target[p], reused |-> reused[p]]}
  /\ Goto(p, "idle")
  /\ UNCHANGED <<tree, catalogVars, quarantineVars, recoverable, calls, crashes>>

(* retry_catalog_registration: the tree is verified, then registered.      *)
RetryRegistration(p) ==
  /\ pc[p] = "idle"
  /\ calls < MaxCalls
  /\ calls' = calls + 1
  /\ \E d \in recoverable :
       /\ Intact(d)
       /\ Begin(p, d)
  /\ pc' = [pc EXCEPT ![p] = "verify"]
  /\ reused' = [reused EXCEPT ![p] = TRUE]
  /\ UNCHANGED <<tree, catalogVars, quarantineVars, acked, recoverable, crashes>>
-----------------------------------------------------------------------------
(***************************************************************************)
(* The quarantine: one BEGIN IMMEDIATE transaction over all targets.       *)
(***************************************************************************)
QGoto(q, label) == qpc' = [qpc EXCEPT ![q] = label]

BeginQuarantine(q) ==
  /\ qpc[q] = "idle"
  /\ calls < MaxCalls
  /\ lock = None
  /\ lock' = q
  /\ QGoto(q, "inspect")
  /\ calls' = calls + 1
  /\ UNCHANGED <<tree, row, publisherVars, swapped, acked, recoverable, crashes>>

(* _authenticate of one target: row, tree and manifest agree, the row is   *)
(* REGISTERED, and the dataset was built from no other.                    *)
Authentic(d) ==
  row[d] # None /\ row[d].status = "REGISTERED" /\ Intact(d) /\ Inputs[d] = {}

AllWith(quality) == \A d \in Targets : row[d].quality = quality

(* All targets PASS, or all REJECTED by an earlier run (a replay, which    *)
(* changes nothing); anything else is refused and rolled back.             *)
Inspect(q) ==
  /\ qpc[q] = "inspect"
  /\ \/ /\ \A d \in Targets : Authentic(d)
        /\ AllWith("PASS")
        /\ QGoto(q, "swap")
        /\ UNCHANGED lock
     \/ /\ ~(/\ \A d \in Targets : Authentic(d)
             /\ AllWith("PASS"))
        /\ QGoto(q, "idle")
        /\ lock' = None
  /\ UNCHANGED <<tree, row, publisherVars, swapped, auxVars>>

(* compare_and_swap_quality_status of one target.                          *)
SwapQuality(q) ==
  /\ qpc[q] = "swap"
  /\ \E d \in Targets \ swapped[q] : swapped' = [swapped EXCEPT ![q] = @ \cup {d}]
  /\ QGoto(q, IF swapped'[q] = Targets THEN "commit" ELSE "swap")
  /\ UNCHANGED <<tree, catalogVars, publisherVars, auxVars>>

(* A swap or a postcondition fails: rollback.                              *)
QuarantineFails(q) ==
  /\ qpc[q] \in {"swap", "commit"}
  /\ QGoto(q, "idle")
  /\ swapped' = [swapped EXCEPT ![q] = {}]
  /\ lock' = None
  /\ UNCHANGED <<tree, row, publisherVars, auxVars>>

CommitQuarantine(q) ==
  /\ qpc[q] = "commit"
  /\ row' = [d \in Dataset |-> IF d \in swapped[q] THEN Ledger!Rejected(row[d]) ELSE row[d]]
  /\ QGoto(q, "idle")
  /\ swapped' = [swapped EXCEPT ![q] = {}]
  /\ lock' = None
  /\ UNCHANGED <<tree, publisherVars, auxVars>>
-----------------------------------------------------------------------------
(* A process dies; SQLite rolls its transaction back.  A stage directory   *)
(* may stay behind, which nobody reads.                                    *)
Crash(x) ==
  /\ crashes < MaxCrashes
  /\ crashes' = crashes + 1
  /\ lock' = IF lock = x THEN None ELSE lock
  /\ \/ /\ x \in Publisher /\ pc[x] # "idle"
        /\ Goto(x, "idle")
        /\ UNCHANGED quarantineVars
     \/ /\ x \in Quarantiner /\ qpc[x] # "idle"
        /\ QGoto(x, "idle")
        /\ swapped' = [swapped EXCEPT ![x] = {}]
        /\ UNCHANGED publisherVars
  /\ UNCHANGED <<tree, row, acked, recoverable, calls>>

(* Somebody removes the incomplete directory.                              *)
ClearReservation(d) ==
  /\ tree[d] = "reserved"
  /\ tree' = [tree EXCEPT ![d] = "absent"]
  /\ UNCHANGED <<catalogVars, publisherVars, quarantineVars, auxVars>>

(* What a power loss may leave of a tree: an entry never fsynced may be    *)
(* gone, and so may the files of a subdirectory, which is never fsynced.   *)
Remains(d) ==
  {tree[d]} \cup (IF tree[d] = "exposed" THEN {"absent"} ELSE {})
            \cup (IF Intact(d) /\ d \in Nested THEN {"torn"} ELSE {})

PowerLoss ==
  /\ crashes < MaxCrashes
  /\ crashes' = crashes + 1
  /\ tree' \in {t \in [Dataset -> {"absent", "reserved", "exposed", "synced", "torn"}] :
                  \A d \in Dataset : t[d] \in Remains(d)}
  /\ lock' = None
  /\ pc' = [p \in Publisher |-> "idle"]
  /\ target' = [p \in Publisher |-> None]
  /\ reused' = [p \in Publisher |-> FALSE]
  /\ doomed' = [p \in Publisher |-> FALSE]
  /\ qpc' = [q \in Quarantiner |-> "idle"]
  /\ swapped' = [q \in Quarantiner |-> {}]
  /\ UNCHANGED <<row, acked, recoverable, calls>>
-----------------------------------------------------------------------------
Step(p) ==
  \/ ProbeFinal(p) \/ GiveUpWaiting(p) \/ BuildStage(p) \/ StageFails(p) \/ ExposeStage(p)
  \/ SyncParents(p) \/ SyncFails(p) \/ VerifyTree(p) \/ LookupDataset(p)
  \/ ValidateSupersession(p) \/ BeginInsert(p) \/ InsertFails(p) \/ CommitRow(p)
  \/ RereadDataset(p) \/ ReturnResult(p)

QuarantineStep(q) ==
  Inspect(q) \/ SwapQuality(q) \/ QuarantineFails(q) \/ CommitQuarantine(q)

Next ==
  \/ \E p \in Publisher : Publish(p) \/ RetryRegistration(p) \/ Step(p)
  \/ \E q \in Quarantiner : BeginQuarantine(q) \/ QuarantineStep(q)
  \/ \E x \in Process : Crash(x)
  \/ \E d \in Dataset : ClearReservation(d)

Spec == Init /\ [][Next]_vars

PowerSpec == Init /\ [][Next \/ PowerLoss]_vars

(* Processes keep being scheduled; a deadline ends every wait.             *)
FairSpec ==
  /\ Spec
  /\ \A p \in Publisher : WF_vars(Step(p))
  /\ \A q \in Quarantiner : WF_vars(QuarantineStep(q))
-----------------------------------------------------------------------------
TypeOK ==
  /\ tree \in [Dataset -> {"absent", "reserved", "exposed", "synced", "torn"}]
  /\ row \in [Dataset -> Ledger!Row \cup {None}]
  /\ lock \in Process \cup {None}
  /\ pc \in [Publisher -> {"idle", "probe", "stage", "expose", "sync", "verify", "lookup",
                           "supersede", "insert", "commit", "reread", "return"}]
  /\ target \in [Publisher -> Dataset \cup {None}]
  /\ reused \in [Publisher -> BOOLEAN]
  /\ doomed \in [Publisher -> BOOLEAN]
  /\ qpc \in [Quarantiner -> {"idle", "inspect", "swap", "commit"}]
  /\ swapped \in [Quarantiner -> SUBSET Targets]
  /\ acked \subseteq [dataset : Dataset, reused : BOOLEAN]
  /\ recoverable \subseteq Dataset
  /\ calls \in Nat
  /\ crashes \in Nat

(* A registered dataset has its complete tree, its inputs are registered,  *)
(* and its predecessor is registered and superseded; a superseded dataset  *)
(* has a registered successor.  This is what register_from_receipt checks  *)
(* outside its transaction, and what must still hold when it commits.      *)
RowsNameTrees ==
  \A d \in Dataset : row[d] # None =>
    /\ tree[d] \in {"exposed", "synced"}
    /\ \A e \in Inputs[d] : row[e] # None
    /\ Supersedes[d] # None =>
         row[Supersedes[d]] # None /\ row[Supersedes[d]].status = "SUPERSEDED"
    /\ row[d].status = "SUPERSEDED" => HasSuccessor(d)

(* The catalog never shows some targets of a quarantine rejected and       *)
(* others not, whenever a process dies.                                    *)
QuarantineIsAtomic ==
  \A d, e \in Targets :
    IsRejected(d) => IsRejected(e)

(* A rejected dataset stays rejected, through re-publication, retries of   *)
(* its registration and supersession.                                      *)
QuarantineIsFinal ==
  [][\A d \in Dataset : IsRejected(d) => IsRejected(d)']_row

(* A call that began after its dataset was rejected never reports success, *)
(* whichever of its checks and the row of a concurrent winner it passes;   *)
(* and success always finds the row.  A quarantine may commit between the  *)
(* read of the row and the return: then success is reported.               *)
RejectionIsSeen ==
  [][\A p \in Publisher : ReturnResult(p) => row[target[p]] # None /\ ~doomed[p]]_vars

(* A visible tree is never replaced, reverted or removed by publishers.    *)
TreesAreImmutable ==
  [][\A d \in Dataset : /\ tree[d] = "exposed" => tree'[d] \in {"exposed", "synced"}
                        /\ tree[d] = "synced" => tree'[d] = "synced"]_tree

(* The store implements the ledger.                                        *)
ImplementsLedger == Ledger!Spec

(* A publisher that created a dataset without subdirectories and returned  *)
(* finds it after any power loss.                                          *)
CreatedAckSurvives ==
  \A r \in acked : ~r.reused /\ r.dataset \notin Nested => tree[r.dataset] = "synced"

(* Every call of publish, retry and the quarantine ends.                   *)
CallsEnd ==
  /\ \A p \in Publisher : pc[p] # "idle" ~> pc[p] = "idle"
  /\ \A q \in Quarantiner : qpc[q] # "idle" ~> qpc[q] = "idle"
=============================================================================
