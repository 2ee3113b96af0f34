---------------------------- MODULE Qualification ----------------------------
(***************************************************************************)
(* The Gate 1 store of acquisition/binance_usdm_harmonic_qualification.py: *)
(* ordinary runs that recover retained bytes, lock a plan, and download it *)
(* under a write-ahead ledger; the reviewed migration of a version-2 store *)
(* to version 4 with a ledger of its own; and the reviewed correction that *)
(* lets a newer source execute a version-4 store.  A process may die       *)
(* between any two files it replaces, and the code may be replaced between *)
(* two runs.  One process at a time: nothing in the code locks the store.  *)
(***************************************************************************)
EXTENDS QualLedger

CONSTANTS
  Bound,      \* keys whose basename names no other candidate: recoverable
  Doubled,    \* keys a second regime of the plan selects again
  Malformed,  \* objects whose rows do not validate
  Held,       \* objects that may be retained from before the first ledger
  DownloadBudget, \* GATE1_NEW_DOWNLOAD_BUDGET_BYTES
  Allowance,  \* GATE1_ARCHITECTURE_AMENDMENT_BUDGET_BYTES
  Streams,    \* whether a transport downloads (or an in-memory index)
  MaxSource,  \* bound: versions of the executing source
  MaxCrashes  \* bound: processes that die

(* The files and pins, and the process.                                    *)
Locks == [version : {1, 2, 4}, source : Nat, plan : Sample, retained : SUBSET Key,
          receipts : Seq(Nat)]
Approvals == [lock : Locks, legacy : Ledger, plan : Sample, retained : SUBSET Key]
Acceptances == [lock : Locks, amend : Ledger, rows : SUBSET Key]
Process == [kind : {"none", "ordinary", "migration", "correction"},
            pc : {"idle", "recover", "compare", "reconcile", "adopt", "flush", "loop", "sidecar",
                  "fetch", "record", "settle", "preserve", "prepare", "install", "keep_lock",
                  "keep_ledger", "advance", "publish"},
            mem : SUBSET Key, done : SUBSET Key, again : SUBSET Key, won : SUBSET Key,
            at : Key \cup {Absent}, alias : BOOLEAN, reused : BOOLEAN]

ASSUME QualificationAssumption ==
  /\ Bound \subseteq Key /\ Doubled \subseteq Key
  /\ Malformed \subseteq Key /\ Held \subseteq Key \ Malformed
  /\ DownloadBudget \in Nat \ {0} /\ Allowance \in Nat \ {0}
  /\ Streams \in BOOLEAN /\ MaxSource \in Nat /\ MaxCrashes \in Nat
  /\ Absent \notin Ledger /\ Absent \notin Locks

VARIABLES
  source,    \* identity of the executing source
  lock,      \* plan lock file, or Absent
  legacy,    \* budget ledger file, or Absent
  amend,     \* amendment ledger file, or Absent
  rows,      \* keys the sample checkpoint completes
  objects,   \* keys whose bytes are published
  sidecars,  \* keys whose provider checksum is retained
  kept,      \* preserved prior locks and ledgers
  approved,  \* what the reviewed migration is pinned to, or Absent
  accepted,  \* what the reviewed correction is pinned to, or Absent
  proc,      \* the process
  wire,      \* history, by ledger: objects of which bytes crossed the network,
             \* and objects that a completed download found published
  crashes

files == <<lock, legacy, amend, rows, objects, sidecars, kept>>
pins == <<approved, accepted>>
qualVars == <<source, files, pins, proc, wire, crashes>>

(* mem: rows recovered in memory.  done, again: entries and aliases behind *)
(* the loop.  won: objects acquired in this run.                           *)
NoRun == [kind |-> "none", pc |-> "idle", mem |-> {}, done |-> {}, again |-> {},
         won |-> {}, at |-> Absent, alias |-> FALSE, reused |-> FALSE]
Begin(kind) == proc' = [NoRun EXCEPT !.kind = kind, !.pc = "recover"]
At(pc) == proc.pc = pc
Moves(pc) == proc' = [proc EXCEPT !.pc = pc]
Ends == proc' = NoRun

NoLedger == NewLedger(0, <<>>)
Version == IF lock = Absent THEN 0 ELSE lock.version
Lock(version, src, plan, retained, receipts) ==
  [version |-> version, source |-> src, plan |-> plan, retained |-> retained,
   receipts |-> receipts]

(* A directory without a plan, or one with a version-2 lock and its ledger, *)
(* with or without objects retained from before there was a ledger, with   *)
(* or without their rows.                                                  *)
QualInit ==
  /\ source = 0
  /\ objects \in SUBSET Held /\ sidecars = objects /\ rows \in SUBSET objects
  /\ LET cost == NewLedger(Bytes(Actual, rows), <<>>) IN
     \/ lock = Absent /\ legacy = Absent
     \/ /\ legacy = cost
        /\ \E plan \in Plans(rows, Remaining(cost, DownloadBudget)) :
             lock = Lock(2, 0, plan, rows, <<>>)
  /\ amend = Absent
  /\ kept = {}
  /\ approved = Absent /\ accepted = Absent
  /\ proc = NoRun
  /\ wire = {}
  /\ crashes = 0
-----------------------------------------------------------------------------
(* Evidence.                                                               *)

(* Retained bytes no row claims, whose checksum file names no other key.   *)
Recoverable == (Bound \cap sidecars \cap objects) \ rows
Evidence == rows \cup proc.mem

(* Mutation: a prepared amendment ledger is not looked for.                *)
Transition_Unprepared ==
  CASE Version = 4 /\ amend # Absent -> "migrated"
    [] Version \in {0, 1, 2} -> "legacy"
    [] OTHER -> "refused"

(* Which store this is, decided before anything is written.                *)
Transition ==
  CASE Version = 4 /\ amend # Absent -> "migrated"
    [] Version \in {0, 1, 2} /\ amend = Absent -> "legacy"
    [] OTHER -> "refused"

Last(receipts) == receipts[Len(receipts)]

(* validate_migrated_state: both files, their evidence and the live source. *)
Migrated ==
  /\ Version = 4 /\ amend # Absent
  /\ lock.plan = approved.plan
  /\ approved.lock \in kept
  /\ legacy = approved.legacy
  /\ lock.receipts = amend.receipts
  /\ Last(amend.receipts) = source
  /\ lock.source = source
  /\ ChargesLockedPlan(amend, lock.plan, Allowance)

(* The ledger an ordinary run spends from; bootstrapped when there is none. *)
CurrentLedger ==
  IF Version = 4 THEN amend
  ELSE IF legacy = Absent THEN NewLedger(Bytes(Actual, Evidence), <<>>)
  ELSE legacy
Limit == IF Version = 4 THEN Allowance ELSE DownloadBudget
Book == IF Version = 4 THEN "amend" ELSE "legacy"
Put(ledger) ==
  IF Version = 4 THEN amend' = ledger /\ UNCHANGED legacy
                 ELSE legacy' = ledger /\ UNCHANGED amend
-----------------------------------------------------------------------------
(* An ordinary run, up to its plan.                                        *)

StartOrdinary ==
  /\ proc = NoRun
  /\ Transition # "refused"
  /\ Transition = "migrated" => Migrated
  /\ Begin("ordinary")
  /\ UNCHANGED <<source, files, pins, wire, crashes>>

(* recover_retained_samples raises on retained bytes that do not validate, *)
(* in every kind of run.                                                   *)
RecoveryRaises ==
  /\ At("recover")
  /\ Recoverable \cap Malformed # {}
  /\ Ends
  /\ UNCHANGED <<source, files, pins, wire, crashes>>

(* With an installed plan each recovered row is written as it is proved.   *)
RecoverRow ==
  /\ At("recover") /\ proc.kind = "ordinary" /\ lock # Absent
  /\ \E k \in Recoverable \ Malformed : rows' = rows \cup {k}
  /\ UNCHANGED <<source, lock, legacy, amend, objects, sidecars, kept, pins, proc, wire,
                 crashes>>

(* Without one, and in a migration, the recovery stays in memory.          *)
Recovered ==
  /\ At("recover")
  /\ Recoverable \cap Malformed = {}
  /\ proc.kind = "ordinary" /\ lock # Absent => Recoverable = {}
  /\ proc' = [proc EXCEPT !.mem = Recoverable,
                        !.pc = IF proc.kind = "migration" THEN "preserve"
                               ELSE IF Version = 4 THEN "compare" ELSE "reconcile"]
  /\ UNCHANGED <<source, files, pins, wire, crashes>>

(* reconcile: reservations whose object is proved are settled, one write   *)
(* each.  A legacy store does this before its inputs are compared, a       *)
(* migrated one after.                                                     *)
SettleProved ==
  /\ At("reconcile")
  /\ \E k \in CurrentLedger.reserved \cap Evidence : Put(Settle(CurrentLedger, k, Actual[k]))
  /\ UNCHANGED <<source, lock, rows, objects, sidecars, kept, pins, proc, wire, crashes>>

Reconciled ==
  /\ At("reconcile")
  /\ CurrentLedger.reserved \cap Evidence = {}
  /\ Moves(IF lock = Absent THEN "adopt" ELSE IF Version = 4 THEN "flush" ELSE "compare")
  /\ UNCHANGED <<source, files, pins, wire, crashes>>

(* The inputs frozen into the lock: the source and the retained evidence.  *)
InputsHold == lock.source = source /\ lock.retained \subseteq rows

Compare ==
  /\ At("compare")
  /\ IF ~InputsHold THEN Ends ELSE Moves(IF Version = 4 THEN "reconcile" ELSE "flush")
  /\ UNCHANGED <<source, files, pins, wire, crashes>>

(* A first plan: the rows it stands on are written before it is locked.    *)
AdoptRow ==
  /\ At("adopt")
  /\ \E k \in proc.mem \ rows : rows' = rows \cup {k}
  /\ UNCHANGED <<source, lock, legacy, amend, objects, sidecars, kept, pins, proc, wire,
                 crashes>>

LockPlan ==
  /\ At("adopt") /\ proc.mem \subseteq rows
  /\ \E plan \in Plans(rows, Remaining(CurrentLedger, DownloadBudget)) :
       lock' = Lock(1, source, plan, rows, <<>>)
  /\ Moves("flush")
  /\ UNCHANGED <<source, legacy, amend, rows, objects, sidecars, kept, pins, wire, crashes>>

FlushLedger ==
  /\ At("flush")
  /\ Put(CurrentLedger)
  /\ Moves("loop")
  /\ UNCHANGED <<source, lock, rows, objects, sidecars, kept, pins, wire, crashes>>
-----------------------------------------------------------------------------
(* The acquisition loop.  Entries are taken in any order, an alias after   *)
(* the entry it repeats.                                                   *)

Entries == {k \in Key : lock.plan[k] # "blocked"}
New(k) == lock.plan[k] = "download" /\ k \notin rows
BlockedByBudget(k) == Listed[k] > Remaining(CurrentLedger, Limit)

(* The object is retained: its evidence is proved again and nothing moves. *)
Reuse ==
  /\ At("loop")
  /\ \E k \in (Entries \ proc.done) \cap rows :
       proc' = [proc EXCEPT !.done = @ \cup {k}, !.won = @ \cup {k}]
  /\ UNCHANGED <<source, files, pins, wire, crashes>>

Block ==
  /\ At("loop")
  /\ \E k \in Entries \ proc.done : /\ New(k) /\ BlockedByBudget(k)
                                   /\ proc' = [proc EXCEPT !.done = @ \cup {k}]
  /\ UNCHANGED <<source, files, pins, wire, crashes>>

(* Write-ahead: the reservation is durable before any network work.        *)
ReserveEntry ==
  /\ At("loop")
  /\ \E k \in Entries \ proc.done :
       /\ New(k) /\ ~BlockedByBudget(k)
       /\ Put(Reserve(CurrentLedger, k))
       /\ proc' = [proc EXCEPT !.at = k, !.alias = FALSE, !.pc = "sidecar"]
  /\ UNCHANGED <<source, lock, rows, objects, sidecars, kept, pins, wire, crashes>>

(* An alias of an object this run acquired costs nothing; an alias of one  *)
(* it did not acquire is acquired here, outside the budget.                *)
Alias ==
  /\ At("loop")
  /\ \E k \in (Doubled \cap Entries \cap proc.done) \ proc.again :
       proc' = IF k \in proc.won THEN [proc EXCEPT !.again = @ \cup {k}]
              ELSE [proc EXCEPT !.at = k, !.alias = TRUE, !.pc = "sidecar"]
  /\ UNCHANGED <<source, files, pins, wire, crashes>>

CompleteRun ==
  /\ At("loop")
  /\ Entries \subseteq proc.done /\ Doubled \cap Entries \subseteq proc.again
  /\ Ends
  /\ UNCHANGED <<source, files, pins, wire, crashes>>

Behind(won) ==
  [proc EXCEPT !.pc = "loop", !.at = Absent, !.won = @ \cup won,
              !.done = @ \cup {proc.at}, !.again = IF proc.alias THEN @ \cup {proc.at} ELSE @]

(* Mutation: a failed acquisition gives its reservation back.              *)
Fail_Refund ==
  /\ \/ proc.pc \in {"sidecar", "fetch"}
     \/ At("record") /\ proc.at \in Malformed
  /\ Put([CurrentLedger EXCEPT !.reserved = @ \ {proc.at}])
  /\ proc' = Behind({})
  /\ UNCHANGED <<source, lock, rows, objects, sidecars, kept, pins, wire, crashes>>

(* A failed request or refused content: the reservation stays charged.     *)
Fail ==
  /\ \/ proc.pc \in {"sidecar", "fetch"}
     \/ At("record") /\ proc.at \in Malformed
  /\ proc' = Behind({})
  /\ UNCHANGED <<source, files, pins, wire, crashes>>

(* A transport failure that no retry can mend is not caught by the loop.   *)
FetchRaises ==
  /\ At("fetch") /\ Streams
  /\ Ends
  /\ UNCHANGED <<source, files, pins, wire, crashes>>

PersistSidecar ==
  /\ At("sidecar")
  /\ sidecars' = sidecars \cup {proc.at}
  /\ Moves("fetch")
  /\ UNCHANGED <<source, lock, legacy, amend, rows, objects, kept, pins, wire, crashes>>

(* Some of the body arrives; the request is retried, fails or completes.   *)
Receive ==
  /\ At("fetch") /\ (Streams \/ proc.at \notin objects)
  /\ wire' = wire \cup {<<Book, proc.at, "bytes">>}
  /\ UNCHANGED <<source, files, pins, proc, crashes>>

(* A transport streams the whole body before it finds the object retained. *)
PublishObject ==
  /\ At("fetch")
  /\ (Streams \/ proc.at \notin objects) => <<Book, proc.at, "bytes">> \in wire
  /\ objects' = objects \cup {proc.at}
  /\ wire' = wire \cup (IF proc.at \in objects THEN {<<Book, proc.at, "found">>} ELSE {})
  /\ proc' = [proc EXCEPT !.reused = proc.at \in objects, !.pc = "record"]
  /\ UNCHANGED <<source, lock, legacy, amend, rows, sidecars, kept, pins, crashes>>

RecordRow ==
  /\ At("record") /\ proc.at \notin Malformed
  /\ rows' = rows \cup {proc.at}
  /\ IF proc.alias THEN proc' = Behind({proc.at}) ELSE Moves("settle")
  /\ UNCHANGED <<source, lock, legacy, amend, objects, sidecars, kept, pins, wire, crashes>>

SettleEntry ==
  /\ At("settle")
  /\ Put(Settle(CurrentLedger, proc.at, IF proc.reused THEN 0 ELSE Actual[proc.at]))
  /\ proc' = Behind({proc.at})
  /\ UNCHANGED <<source, lock, rows, objects, sidecars, kept, pins, wire, crashes>>
-----------------------------------------------------------------------------
(* The reviewed migration: evidence, then ledger, then lock.               *)

(* A candidate report is accepted and pinned in the next source.           *)
ReviewMigration ==
  /\ proc = NoRun
  /\ approved = Absent /\ source < MaxSource
  /\ Version = 2 /\ legacy # Absent
  /\ Recoverable \cap Malformed = {}
  /\ LET retained == rows \cup Recoverable IN
     \E plan \in Plans(retained, Allowance) :
       approved' = [lock |-> lock, legacy |-> legacy, plan |-> plan, retained |-> retained]
  /\ source' = source + 1
  /\ UNCHANGED <<files, accepted, proc, wire, crashes>>

(* reviewed_migration_preflight on a store that is not yet migrated.       *)
MigrationAccepts ==
  /\ approved # Absent
  /\ lock = approved.lock /\ legacy = approved.legacy
  /\ amend # Absent => Known(amend) = {}

StartMigration ==
  /\ proc = NoRun
  /\ MigrationAccepts
  /\ Begin("migration")
  /\ UNCHANGED <<source, files, pins, wire, crashes>>

(* The executing selection must be the accepted one.                       *)
PreservePriorLock ==
  /\ At("preserve") /\ proc.kind = "migration"
  /\ IF Evidence = approved.retained
     THEN kept' = kept \cup {lock} /\ Moves("prepare")
     ELSE Ends /\ UNCHANGED kept
  /\ UNCHANGED <<source, lock, legacy, amend, rows, objects, sidecars, pins, wire, crashes>>

PrepareLedger ==
  /\ At("prepare")
  /\ amend' = IF amend = Absent THEN NewLedger(0, <<source>>)
              ELSE IF Last(amend.receipts) = source THEN amend
              ELSE [amend EXCEPT !.receipts = Append(@, source)]
  /\ Moves("install")
  /\ UNCHANGED <<source, lock, legacy, rows, objects, sidecars, kept, pins, wire, crashes>>

InstallLock ==
  /\ At("install")
  /\ lock' = Lock(4, source, approved.plan, approved.retained, amend.receipts)
  /\ Ends
  /\ UNCHANGED <<source, legacy, amend, rows, objects, sidecars, kept, pins, wire, crashes>>
-----------------------------------------------------------------------------
(* The reviewed correction of a version-4 store.                           *)

ReviewCorrection ==
  /\ proc = NoRun
  /\ accepted = Absent /\ source < MaxSource
  /\ Version = 4
  /\ accepted' = [lock |-> lock, amend |-> amend, rows |-> rows]
  /\ source' = source + 1
  /\ UNCHANGED <<files, approved, proc, wire, crashes>>

Advanced(l) == [l EXCEPT !.receipts = Append(@, source)]
LedgerAdvanced == amend = Advanced(accepted.amend)

(* Fresh, or ledger-advanced with the lock pending; and the evidence of    *)
(* the locked plan is all in the accepted checkpoint.                      *)
CorrectionAccepts ==
  /\ accepted # Absent
  /\ lock = accepted.lock /\ rows = accepted.rows /\ legacy = approved.legacy
  /\ amend = accepted.amend \/ LedgerAdvanced
  /\ lock.retained \subseteq rows

StartCorrection ==
  /\ proc = NoRun
  /\ CorrectionAccepts
  /\ proc' = [NoRun EXCEPT !.kind = "correction", !.pc = "keep_lock"]
  /\ UNCHANGED <<source, files, pins, wire, crashes>>

(* Mutation: the accepted ledger is not preserved.                         *)
KeepLock_Only ==
  /\ At("keep_lock")
  /\ kept' = kept \cup {lock}
  /\ Moves(IF LedgerAdvanced THEN "publish" ELSE "advance")
  /\ UNCHANGED <<source, lock, legacy, amend, rows, objects, sidecars, pins, wire, crashes>>

KeepLock ==
  /\ At("keep_lock")
  /\ kept' = kept \cup {lock}
  /\ Moves(IF LedgerAdvanced THEN "publish" ELSE "keep_ledger")
  /\ UNCHANGED <<source, lock, legacy, amend, rows, objects, sidecars, pins, wire, crashes>>

KeepLedger ==
  /\ At("keep_ledger")
  /\ kept' = kept \cup {amend}
  /\ Moves("advance")
  /\ UNCHANGED <<source, lock, legacy, amend, rows, objects, sidecars, pins, wire, crashes>>

AdvanceReceipt ==
  /\ At("advance")
  /\ amend' = Advanced(amend)
  /\ Moves("publish")
  /\ UNCHANGED <<source, lock, legacy, rows, objects, sidecars, kept, pins, wire, crashes>>

PublishLock ==
  /\ At("publish")
  /\ lock' = [lock EXCEPT !.source = source, !.receipts = amend.receipts]
  /\ Ends
  /\ UNCHANGED <<source, legacy, amend, rows, objects, sidecars, kept, pins, wire, crashes>>
-----------------------------------------------------------------------------
(* The world around a run.                                                 *)

Deploy ==
  /\ proc = NoRun
  /\ source < MaxSource /\ source' = source + 1
  /\ UNCHANGED <<files, pins, proc, wire, crashes>>

Dies ==
  /\ proc # NoRun
  /\ crashes < MaxCrashes /\ crashes' = crashes + 1
  /\ Ends
  /\ UNCHANGED <<source, files, pins, wire>>

ProcessStep ==
  \/ RecoveryRaises \/ RecoverRow \/ Recovered \/ SettleProved \/ Reconciled \/ Compare
  \/ AdoptRow \/ LockPlan \/ FlushLedger
  \/ Reuse \/ Block \/ ReserveEntry \/ Alias \/ CompleteRun
  \/ Fail \/ FetchRaises \/ PersistSidecar \/ Receive \/ PublishObject \/ RecordRow \/ SettleEntry
  \/ PreservePriorLock \/ PrepareLedger \/ InstallLock
  \/ KeepLock \/ KeepLedger \/ AdvanceReceipt \/ PublishLock

QualNext ==
  \/ StartOrdinary \/ StartMigration \/ StartCorrection
  \/ ProcessStep
  \/ ReviewMigration \/ ReviewCorrection \/ Deploy \/ Dies

QualSpec == QualInit /\ [][QualNext]_qualVars
-----------------------------------------------------------------------------
(* Correctness.                                                            *)

QualTypeOK ==
  /\ source \in Nat /\ crashes \in Nat
  /\ lock \in Locks \cup {Absent} /\ {legacy, amend} \subseteq Ledger \cup {Absent}
  /\ rows \subseteq objects \cap sidecars /\ objects \cup sidecars \subseteq Key
  /\ approved \in Approvals \cup {Absent} /\ accepted \in Acceptances \cup {Absent}
  /\ proc \in Process /\ wire \in SUBSET ({"legacy", "amend"} \X Key \X {"bytes", "found"})

(* Of a ledger: objects of which bytes crossed, and objects whose download *)
(* found them published.                                                   *)
Crossed(book) == {k \in Key : <<book, k, "bytes">> \in wire}
Found(book) == {k \in Key : <<book, k, "found">> \in wire}
LedgerOf(book) == IF book = "amend" THEN amend ELSE legacy
LimitOf(book) == IF book = "amend" THEN Allowance ELSE DownloadBudget

Overrun(l) == \E k \in Settled(l) : l.charge[k] > Listed[k]
(* Covered by a reservation, by the whole body, or as "no transfer" of an  *)
(* object that was found.                                                  *)
CoveredBy(l, k, found) ==
  \/ k \in l.reserved
  \/ k \in Settled(l) /\ l.charge[k] = Actual[k]
  \/ k \in Settled(l) /\ l.charge[k] = 0 /\ k \in found
  \/ k \in Doubled /\ Overrun(l)

(* The ledger is written ahead: an object of which bytes have crossed the  *)
(* network under it stays reserved at its listed size, or is charged its   *)
(* whole body, through failures, deaths and reconciliations.  There are    *)
(* two holes.  A body that streams again while its object is published,    *)
(* by a run that died before its charge or before there was a ledger, is   *)
(* settled as "no transfer".  And an entry that the budget blocked only    *)
(* because another object came larger than listed is downloaded for its    *)
(* alias without asking the ledger.  Neither breaks the ceiling: the       *)
(* objects of which bytes have crossed, each counted once and as it was    *)
(* listed, fit the budget beside what the bytes retained before the ledger *)
(* may have cost.                                                          *)
BytesAreCovered ==
  \A book \in {"legacy", "amend"} : Crossed(book) # {} =>
    /\ LedgerOf(book) # Absent
    /\ \A k \in Crossed(book) : CoveredBy(LedgerOf(book), k, Found(book))
    /\ Bytes(Listed, Crossed(book)) + LedgerOf(book).max <= LimitOf(book)

(* A migrated store keeps its lineage: the plan is the approved one, the   *)
(* old ledger and the preserved lock are the approved bytes; a correction  *)
(* changes nothing but the source it names, and only after both files it   *)
(* replaces are preserved; no charge or reservation it found is lost.      *)
LineageIsExact ==
  /\ Version = 4 => /\ lock.plan = approved.plan /\ legacy = approved.legacy
                    /\ approved.lock \in kept
  /\ accepted # Absent =>
       /\ lock.plan = accepted.lock.plan /\ lock.retained = accepted.lock.retained
       /\ Known(accepted.amend) \subseteq Known(amend)
       /\ amend.receipts # accepted.amend.receipts => {accepted.lock, accepted.amend} \subseteq kept
       /\ lock # accepted.lock => amend.receipts # accepted.amend.receipts

Poisoned == Recoverable \cap Malformed # {}

(* A run that dies leaves a store that something can carry on with.  A     *)
(* prepared migration can be finished by any later source.  A store whose  *)
(* lock names the live source executes; a correction with its lock pending *)
(* can be finished by the source of its receipt.  Retained bytes that do   *)
(* not validate stop every ordinary run, and an object larger than it was  *)
(* listed stops every version-4 run; nothing else does.                    *)
NeverStranded ==
  proc = NoRun =>
    /\ amend # Absent /\ Version # 4 =>
         MigrationAccepts /\ rows \cup Recoverable = approved.retained /\ ~Poisoned
    /\ Version # 4 /\ amend = Absent /\ (lock # Absent => lock.source = source) =>
         Transition = "legacy" /\ (lock # Absent => lock.retained \subseteq rows \cup Recoverable)
    /\ Version = 4 /\ Last(amend.receipts) = source /\ ~Overrun(amend) =>
         \/ Migrated /\ lock.retained \subseteq rows \cup Recoverable
         \/ CorrectionAccepts /\ LedgerAdvanced
=============================================================================
