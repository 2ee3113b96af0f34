------------------------ MODULE DatasetStore_proofs ------------------------
(***************************************************************************)
(* Theorems about DatasetStore for any number of publishers, quarantiners, *)
(* datasets, calls and crashes.                                            *)
(***************************************************************************)
EXTENDS DatasetStore, TLAPS

(* A call in progress has a dataset.                                       *)
InCall == \A p \in Publisher : pc[p] # "idle" => target[p] \in Dataset

(* The write lock is held by whoever has a transaction open, which saw the *)
(* catalog it will change; swaps need rows to swap.                        *)
Quarantining ==
  \A q \in Quarantiner :
    /\ qpc[q] # "idle" => lock = q
    /\ qpc[q] \in {"swap", "commit"} => \A d \in Targets : row[d] # None
    /\ qpc[q] = "commit" => swapped[q] = Targets

Typed == TypeOK /\ InCall /\ Quarantining

(* Past is where a publisher has seen the complete tree.                   *)
Past == {"verify", "lookup", "supersede", "insert", "commit", "reread", "return"}

(* What publish and register_from_receipt have checked stays true until    *)
(* the row is committed: inputs, tree and predecessor are there, and under *)
(* the write lock the dataset itself is not.                               *)
Publishing ==
  /\ \A p \in Publisher :
       /\ pc[p] # "idle" => \A e \in Inputs[target[p]] : row[e] # None
       /\ pc[p] \in Past \cup {"sync"} => Intact(target[p])
       /\ pc[p] \in Past /\ ~reused[p] => tree[target[p]] = "synced"
       /\ pc[p] \in {"insert", "commit"} /\ Supersedes[target[p]] # None =>
            /\ Supersedes[target[p]] # target[p]
            /\ row[Supersedes[target[p]]] # None
       /\ pc[p] = "commit" => lock = p /\ row[target[p]] = None
  /\ \A d \in recoverable : \A e \in Inputs[d] : row[e] # None

LEMMA TypedInit == Init => Typed
BY DEF Init, Typed, TypeOK, InCall, Quarantining

Labels == {"idle", "probe", "stage", "expose", "sync", "verify", "lookup", "supersede",
           "insert", "commit", "reread", "return"}

PublishersTyped ==
  /\ pc \in [Publisher -> Labels]
  /\ target \in [Publisher -> Dataset \cup {None}]
  /\ reused \in [Publisher -> BOOLEAN]
  /\ doomed \in [Publisher -> BOOLEAN]
  /\ InCall

LEMMA GotoTyped ==
  ASSUME NEW p \in Publisher, NEW label \in Labels, PublishersTyped, pc[p] # "idle", Goto(p, label)
  PROVE  PublishersTyped'
BY NoneAssumption DEF PublishersTyped, InCall, Goto, Labels

LEMMA RaiseTyped ==
  ASSUME NEW p \in Publisher, PublishersTyped, recoverable \subseteq Dataset, pc[p] # "idle",
         RaiseRecoverable(p)
  PROVE  PublishersTyped' /\ recoverable' \subseteq Dataset
<1>1. Goto(p, "idle") /\ target[p] \in Dataset
  BY DEF RaiseRecoverable, PublishersTyped, InCall
<1>2. PublishersTyped'
  BY <1>1, GotoTyped DEF Labels
<1> QED
  BY <1>1, <1>2 DEF RaiseRecoverable

LEMMA GotoReusedTyped ==
  ASSUME NEW p \in Publisher, NEW label \in Labels, PublishersTyped, pc[p] # "idle",
         GotoReused(p, label)
  PROVE  PublishersTyped'
BY DEF PublishersTyped, InCall, GotoReused, Labels

(* Every step, power losses included, keeps the types.                     *)
LEMMA TypedStep == Typed /\ Publishing /\ [Next \/ PowerLoss]_vars => Typed'
<1> SUFFICES ASSUME Typed, Publishing, [Next \/ PowerLoss]_vars PROVE Typed'
  OBVIOUS
<1> USE DatasetAssumption, ProcessAssumption, NoneAssumption, BoundAssumption, RowAssumption
    DEF Typed, TypeOK, InCall, Quarantining, catalogVars, publisherVars, quarantineVars, auxVars,
        Goto, QGoto, Process
<1>t. PublishersTyped
  BY DEF PublishersTyped, Labels
<1>f. ASSUME PublishersTyped',
             UNCHANGED <<row, lock, qpc, swapped, calls, crashes>>,
             tree' = tree, recoverable' \subseteq Dataset,
             acked' \subseteq [dataset : Dataset, reused : BOOLEAN]
      PROVE  Typed'
  BY <1>f DEF PublishersTyped, Labels
<1>1. ASSUME NEW p \in Publisher, Publish(p) PROVE Typed'
  BY <1>1 DEF Publish, Begin, IsRejected
<1>2. ASSUME NEW p \in Publisher, RetryRegistration(p) PROVE Typed'
  BY <1>2 DEF RetryRegistration, Begin, IsRejected
<1>3. ASSUME NEW p \in Publisher, ProbeFinal(p) PROVE Typed'
  <2>1. PublishersTyped'
    <3>1. pc[p] # "idle"
      BY <1>3 DEF ProbeFinal
    <3>2. CASE Goto(p, "stage") \/ Goto(p, "idle")
      BY <3>1, <3>2, <1>t, GotoTyped DEF Labels
    <3>3. CASE GotoReused(p, "verify")
      BY <3>1, <3>3, <1>t, GotoReusedTyped DEF Labels
    <3> QED
      BY <3>2, <3>3, <1>3 DEF ProbeFinal
  <2> QED
    BY <1>3, <2>1, <1>f DEF ProbeFinal
<1>4. ASSUME NEW p \in Publisher, GiveUpWaiting(p) PROVE Typed'
  BY <1>4 DEF GiveUpWaiting
<1>5. ASSUME NEW p \in Publisher, BuildStage(p) PROVE Typed'
  BY <1>5 DEF BuildStage
<1>6. ASSUME NEW p \in Publisher, StageFails(p) PROVE Typed'
  BY <1>6 DEF StageFails
<1>7. ASSUME NEW p \in Publisher, ExposeStage(p) PROVE Typed'
  BY <1>7 DEF ExposeStage
<1>8. ASSUME NEW p \in Publisher, SyncParents(p) PROVE Typed'
  BY <1>8 DEF SyncParents
<1>9. ASSUME NEW p \in Publisher, SyncFails(p) PROVE Typed'
  BY <1>9 DEF SyncFails
<1>10. ASSUME NEW p \in Publisher, VerifyTree(p) PROVE Typed'
  <2>1. CASE Intact(target[p])
    <3>1. Goto(p, "lookup") /\ pc[p] # "idle" /\ UNCHANGED recoverable
      BY <1>10, <2>1 DEF VerifyTree
    <3>2. PublishersTyped'
      BY <3>1, <1>t, GotoTyped DEF Labels
    <3> QED
      BY <3>1, <3>2, <1>f, <1>10 DEF VerifyTree
  <2>2. CASE ~Intact(target[p])
    <3>1. RaiseRecoverable(p) /\ pc[p] # "idle"
      BY <1>10, <2>2 DEF VerifyTree
    <3>2. PublishersTyped' /\ recoverable' \subseteq Dataset
      BY <3>1, <1>t, RaiseTyped
    <3> QED
      BY <3>2, <1>f, <1>10 DEF VerifyTree
  <2> QED
    BY <2>1, <2>2
<1>11. ASSUME NEW p \in Publisher, LookupDataset(p) PROVE Typed'
  <2>1. pc[p] # "idle"
    BY <1>11 DEF LookupDataset
  <2>2. CASE Goto(p, "supersede") /\ UNCHANGED recoverable
    <3>1. PublishersTyped'
      BY <2>1, <2>2, <1>t, GotoTyped DEF Labels
    <3> QED
      BY <2>2, <3>1, <1>f, <1>11 DEF LookupDataset
  <2>3. CASE GotoReused(p, "return") /\ UNCHANGED recoverable
    <3>1. PublishersTyped'
      BY <2>1, <2>3, <1>t, GotoReusedTyped DEF Labels
    <3> QED
      BY <2>3, <3>1, <1>f, <1>11 DEF LookupDataset
  <2>4. CASE RaiseRecoverable(p)
    <3>1. PublishersTyped' /\ recoverable' \subseteq Dataset
      BY <2>1, <2>4, <1>t, RaiseTyped
    <3> QED
      BY <2>4, <3>1, <1>f, <1>11 DEF LookupDataset
  <2> QED
    BY <2>2, <2>3, <2>4, <1>11 DEF LookupDataset
<1>12. ASSUME NEW p \in Publisher, ValidateSupersession(p) PROVE Typed'
  <2>1. pc[p] # "idle" /\ (RaiseRecoverable(p) \/ (Goto(p, "insert") /\ UNCHANGED recoverable))
    BY <1>12 DEF ValidateSupersession
  <2>2. PublishersTyped' /\ recoverable' \subseteq Dataset
    <3>1. CASE RaiseRecoverable(p)
      BY <2>1, <3>1, <1>t, RaiseTyped
    <3>2. CASE Goto(p, "insert") /\ UNCHANGED recoverable
      BY <2>1, <3>2, <1>t, GotoTyped DEF Labels
    <3> QED
      BY <2>1, <3>1, <3>2
  <2> QED
    BY <2>2, <1>f, <1>12 DEF ValidateSupersession
<1>13. ASSUME NEW p \in Publisher, BeginInsert(p) PROVE Typed'
  BY <1>13 DEF BeginInsert
<1>14. ASSUME NEW p \in Publisher, InsertFails(p) PROVE Typed'
  BY <1>14 DEF InsertFails, RaiseRecoverable
<1>15. ASSUME NEW p \in Publisher, CommitRow(p) PROVE Typed'
  <2>1. pc[p] # "idle" /\ Goto(p, "return") /\ target[p] \in Dataset
    BY <1>15 DEF CommitRow
  <2>2. PublishersTyped'
    BY <2>1, <1>t, GotoTyped DEF Labels
  <2>3. row' \in [Dataset -> Ledger!Row \cup {None}]
    BY <1>15, <2>1 DEF Publishing, CommitRow, Ledger!Registered, Ledger!Row, Ledger!Superseded
  <2>4. lock = p
    BY <1>15 DEF CommitRow, Publishing
  <2>5. Quarantining'
    BY <1>15, <2>4 DEF CommitRow
  <2>6. UNCHANGED <<tree, qpc, swapped, acked, recoverable, calls, crashes>> /\ lock' = None
    BY <1>15 DEF CommitRow
  <2> QED
    BY <2>2, <2>3, <2>5, <2>6 DEF PublishersTyped, Labels
<1>16. ASSUME NEW p \in Publisher, RereadDataset(p) PROVE Typed'
  <2>1. pc[p] # "idle"
    BY <1>16 DEF RereadDataset
  <2>2. CASE GotoReused(p, "return") /\ UNCHANGED recoverable
    <3>1. PublishersTyped'
      BY <2>1, <2>2, <1>t, GotoReusedTyped DEF Labels
    <3> QED
      BY <2>2, <3>1, <1>f, <1>16 DEF RereadDataset
  <2>3. CASE RaiseRecoverable(p)
    <3>1. PublishersTyped' /\ recoverable' \subseteq Dataset
      BY <2>1, <2>3, <1>t, RaiseTyped
    <3> QED
      BY <2>3, <3>1, <1>f, <1>16 DEF RereadDataset
  <2> QED
    BY <2>2, <2>3, <1>16 DEF RereadDataset
<1>26. ASSUME NEW p \in Publisher, ReturnResult(p) PROVE Typed'
  <2>1. pc[p] # "idle" /\ Goto(p, "idle") /\ target[p] \in Dataset
    BY <1>26 DEF ReturnResult
  <2>2. PublishersTyped'
    BY <2>1, <1>t, GotoTyped DEF Labels
  <2>3. acked' \subseteq [dataset : Dataset, reused : BOOLEAN]
    <3>1. PICK b \in BOOLEAN : b = reused[p]
      OBVIOUS
    <3>2. [dataset |-> target[p], reused |-> b] \in [dataset : Dataset, reused : BOOLEAN]
      BY <2>1
    <3>3. acked' = acked \cup {[dataset |-> target[p], reused |-> b]}
      BY <1>26, <3>1 DEF ReturnResult
    <3> QED
      BY <3>2, <3>3
  <2> QED
    BY <2>2, <2>3, <1>f, <1>26 DEF ReturnResult
<1>17. ASSUME NEW q \in Quarantiner, BeginQuarantine(q) PROVE Typed'
  BY <1>17 DEF BeginQuarantine
<1>18. ASSUME NEW q \in Quarantiner, Inspect(q) PROVE Typed'
  <2>1. CASE QGoto(q, "swap") /\ UNCHANGED lock /\ \A d \in Targets : row[d] # None
    BY <1>18, <2>1 DEF Inspect
  <2>2. CASE QGoto(q, "idle") /\ lock' = None
    BY <1>18, <2>2 DEF Inspect
  <2> QED
    BY <1>18, <2>1, <2>2 DEF Inspect, Authentic
<1>19. ASSUME NEW q \in Quarantiner, SwapQuality(q) PROVE Typed'
  BY <1>19 DEF SwapQuality
<1>20. ASSUME NEW q \in Quarantiner, QuarantineFails(q) PROVE Typed'
  BY <1>20 DEF QuarantineFails
<1>21. ASSUME NEW q \in Quarantiner, CommitQuarantine(q) PROVE Typed'
  BY <1>21 DEF CommitQuarantine, Ledger!Rejected, Ledger!Row
<1>22. ASSUME NEW x \in Process, Crash(x) PROVE Typed'
  <2>1. lock' \in Process \cup {None}
    BY <1>22 DEF Crash
  <2>2. CASE x \in Publisher /\ pc[x] # "idle" /\ Goto(x, "idle") /\ UNCHANGED quarantineVars
    <3>1. PublishersTyped'
      BY <2>2, <1>t, GotoTyped DEF Labels
    <3>2. Quarantining'
      BY <1>22, <2>2 DEF Crash
    <3> QED
      BY <1>22, <2>1, <2>2, <3>1, <3>2 DEF Crash, PublishersTyped, Labels
  <2>3. CASE /\ x \in Quarantiner /\ qpc[x] # "idle" /\ QGoto(x, "idle")
             /\ swapped' = [swapped EXCEPT ![x] = {}] /\ UNCHANGED publisherVars
    <3>1. Quarantining'
      BY <1>22, <2>3 DEF Crash
    <3> QED
      BY <1>22, <2>1, <2>3, <3>1 DEF Crash
  <2> QED
    BY <1>22, <2>2, <2>3 DEF Crash
<1>23. ASSUME NEW d \in Dataset, ClearReservation(d) PROVE Typed'
  BY <1>23 DEF ClearReservation
<1>24. CASE PowerLoss
  BY <1>24 DEF PowerLoss
<1>25. CASE UNCHANGED vars
  BY <1>25 DEF vars
<1> QED
  BY <1>1, <1>2, <1>3, <1>4, <1>5, <1>6, <1>7, <1>8, <1>9, <1>10, <1>11, <1>12,
     <1>13, <1>14, <1>15, <1>16, <1>17, <1>18, <1>19, <1>20, <1>21, <1>22,
     <1>23, <1>24, <1>25, <1>26
     DEF Next, Step, QuarantineStep

(* Rows and complete trees never go away, and writers share one lock.      *)
LEMMA RowsStay ==
  ASSUME Typed, Publishing, [Next \/ PowerLoss]_vars
  PROVE  \A d \in Dataset : row[d] # None => row'[d] # None
<1> USE DatasetAssumption, RowAssumption DEF Typed, TypeOK, Quarantining, catalogVars, Publishing
<1>1. ASSUME NEW p \in Publisher, CommitRow(p)
      PROVE  \A d \in Dataset : row[d] # None => row'[d] # None
  <2>1. \A e \in Dataset : Ledger!Superseded(row[e]) # None \/ row[e] = None
    BY DEF Ledger!Row, Ledger!Superseded
  <2>2. Ledger!Registered # None
    BY DEF Ledger!Row, Ledger!Registered
  <2> QED
    BY <1>1, <2>1, <2>2 DEF CommitRow
<1>2. ASSUME NEW q \in Quarantiner, CommitQuarantine(q)
      PROVE  \A d \in Dataset : row[d] # None => row'[d] # None
  BY <1>2 DEF CommitQuarantine, Ledger!Row, Ledger!Rejected
<1>3. ASSUME UNCHANGED row PROVE \A d \in Dataset : row[d] # None => row'[d] # None
  BY <1>3
<1>4. CASE UNCHANGED vars \/ PowerLoss
  BY <1>3, <1>4 DEF vars, PowerLoss
<1> QED
  BY <1>1, <1>2, <1>3, <1>4
     DEF Next, Step, QuarantineStep, Publish, RetryRegistration, ProbeFinal, GiveUpWaiting,
         BuildStage, StageFails, ExposeStage, SyncParents, SyncFails, VerifyTree, LookupDataset,
         ValidateSupersession, BeginInsert, InsertFails, RereadDataset, ReturnResult, BeginQuarantine, Inspect,
         SwapQuality, QuarantineFails, Crash, ClearReservation

LEMMA PublishingStep == Typed /\ Publishing /\ [Next \/ PowerLoss]_vars => Publishing'
<1> SUFFICES ASSUME Typed, Publishing, [Next \/ PowerLoss]_vars PROVE Publishing'
  OBVIOUS
<1>r. \A d \in Dataset : row[d] # None => row'[d] # None
  BY RowsStay
<1> USE DatasetAssumption, ProcessAssumption, NoneAssumption, RowAssumption, <1>r
    DEF Typed, TypeOK, InCall, Quarantining, Publishing, Past, Intact, catalogVars, publisherVars,
        quarantineVars, auxVars, Goto, GotoReused, QGoto, Process
<1>1. ASSUME NEW p \in Publisher, Publish(p) PROVE Publishing'
  BY <1>1 DEF Publish, Begin
<1>2. ASSUME NEW p \in Publisher, RetryRegistration(p) PROVE Publishing'
  BY <1>2 DEF RetryRegistration, Begin, Intact
<1>3. ASSUME NEW p \in Publisher, ProbeFinal(p) PROVE Publishing'
  BY <1>3 DEF ProbeFinal, Intact
<1>4. ASSUME NEW p \in Publisher, GiveUpWaiting(p) PROVE Publishing'
  BY <1>4 DEF GiveUpWaiting
<1>5. ASSUME NEW p \in Publisher, BuildStage(p) PROVE Publishing'
  BY <1>5 DEF BuildStage
<1>6. ASSUME NEW p \in Publisher, StageFails(p) PROVE Publishing'
  BY <1>6 DEF StageFails
<1>7. ASSUME NEW p \in Publisher, ExposeStage(p) PROVE Publishing'
  BY <1>7 DEF ExposeStage, Intact
<1>8. ASSUME NEW p \in Publisher, SyncParents(p) PROVE Publishing'
  BY <1>8 DEF SyncParents, Intact
<1>9. ASSUME NEW p \in Publisher, SyncFails(p) PROVE Publishing'
  BY <1>9 DEF SyncFails
<1>10. ASSUME NEW p \in Publisher, VerifyTree(p) PROVE Publishing'
  BY <1>10 DEF VerifyTree, RaiseRecoverable
<1>11. ASSUME NEW p \in Publisher, LookupDataset(p) PROVE Publishing'
  BY <1>11 DEF LookupDataset, RaiseRecoverable
<1>12. ASSUME NEW p \in Publisher, ValidateSupersession(p) PROVE Publishing'
  BY <1>12 DEF ValidateSupersession, RaiseRecoverable
<1>13. ASSUME NEW p \in Publisher, BeginInsert(p) PROVE Publishing'
  BY <1>13 DEF BeginInsert
<1>14. ASSUME NEW p \in Publisher, InsertFails(p) PROVE Publishing'
  BY <1>14 DEF InsertFails, RaiseRecoverable
<1>15. ASSUME NEW p \in Publisher, CommitRow(p) PROVE Publishing'
  BY <1>15 DEF CommitRow, Ledger!Registered, Ledger!Superseded
<1>16. ASSUME NEW p \in Publisher, RereadDataset(p) PROVE Publishing'
  BY <1>16 DEF RereadDataset, RaiseRecoverable
<1>26. ASSUME NEW p \in Publisher, ReturnResult(p) PROVE Publishing'
  BY <1>26 DEF ReturnResult
<1>17. ASSUME NEW q \in Quarantiner, BeginQuarantine(q) PROVE Publishing'
  BY <1>17 DEF BeginQuarantine
<1>18. ASSUME NEW q \in Quarantiner, Inspect(q) PROVE Publishing'
  BY <1>18 DEF Inspect
<1>19. ASSUME NEW q \in Quarantiner, SwapQuality(q) PROVE Publishing'
  BY <1>19 DEF SwapQuality
<1>20. ASSUME NEW q \in Quarantiner, QuarantineFails(q) PROVE Publishing'
  BY <1>20 DEF QuarantineFails
<1>21. ASSUME NEW q \in Quarantiner, CommitQuarantine(q) PROVE Publishing'
  BY <1>21 DEF CommitQuarantine, Ledger!Rejected
<1>22. ASSUME NEW x \in Process, Crash(x) PROVE Publishing'
  BY <1>22 DEF Crash
<1>23. ASSUME NEW d \in Dataset, ClearReservation(d) PROVE Publishing'
  BY <1>23 DEF ClearReservation, Intact
<1>24. CASE PowerLoss
  BY <1>24 DEF PowerLoss
<1>25. CASE UNCHANGED vars
  BY <1>25 DEF vars
<1> QED
  BY <1>1, <1>2, <1>3, <1>4, <1>5, <1>6, <1>7, <1>8, <1>9, <1>10, <1>11, <1>12,
     <1>13, <1>14, <1>15, <1>16, <1>17, <1>18, <1>19, <1>20, <1>21, <1>22,
     <1>23, <1>24, <1>25, <1>26
     DEF Next, Step, QuarantineStep

Grounded == Typed /\ Publishing

LEMMA GroundedAlways == (Spec => []Grounded) /\ (PowerSpec => []Grounded)
<1>1. Init => Grounded
  BY TypedInit DEF Grounded, Init, Publishing, Past, Intact
<1>2. Grounded /\ [Next \/ PowerLoss]_vars => Grounded'
  BY TypedStep, PublishingStep DEF Grounded
<1>3. Grounded /\ [Next]_vars => Grounded'
  BY <1>2
<1> QED
  BY <1>1, <1>2, <1>3, PTL DEF Spec, PowerSpec

(* The variables of the store keep their types.                            *)
THEOREM TypeCorrect == Spec => []TypeOK
BY GroundedAlways, PTL DEF Grounded, Typed
-----------------------------------------------------------------------------
(***************************************************************************)
(* Rows change only when a registration or a quarantine commits.           *)
(***************************************************************************)
LEMMA RowsChange ==
  ASSUME [Next \/ PowerLoss]_vars, row' # row
  PROVE  \/ \E p \in Publisher : CommitRow(p)
         \/ \E q \in Quarantiner : CommitQuarantine(q)
<1>1. CASE UNCHANGED vars \/ PowerLoss
  BY <1>1 DEF vars, catalogVars, PowerLoss
<1> QED
  BY <1>1
     DEF Next, Step, QuarantineStep, catalogVars, Publish, RetryRegistration, ProbeFinal, GiveUpWaiting, BuildStage, StageFails,
         ExposeStage, SyncParents, SyncFails, VerifyTree, LookupDataset, ValidateSupersession,
         BeginInsert, InsertFails, RereadDataset, ReturnResult, BeginQuarantine, Inspect, SwapQuality,
         QuarantineFails, Crash, ClearReservation

(* What a committed registration does to the catalog.                      *)
LEMMA RegistrationEffect ==
  ASSUME Grounded, NEW p \in Publisher, CommitRow(p)
  PROVE  /\ target[p] \in Dataset
         /\ row[target[p]] = None
         /\ Intact(target[p])
         /\ \A e \in Inputs[target[p]] : row[e] # None
         /\ Supersedes[target[p]] # None => /\ Supersedes[target[p]] # target[p]
                                           /\ row[Supersedes[target[p]]] # None
         /\ row' = [e \in Dataset |-> IF e = target[p] THEN Ledger!Registered
                                      ELSE IF e = Supersedes[target[p]]
                                           THEN Ledger!Superseded(row[e])
                                      ELSE row[e]]
         /\ tree' = tree
BY DEF Grounded, Typed, TypeOK, InCall, Publishing, Past, CommitRow

(* What a committed quarantine does to it.                                 *)
LEMMA QuarantineEffect ==
  ASSUME Grounded, NEW q \in Quarantiner, CommitQuarantine(q)
  PROVE  /\ \A d \in Targets : row[d] # None
         /\ row' = [d \in Dataset |-> IF d \in Targets THEN Ledger!Rejected(row[d]) ELSE row[d]]
         /\ tree' = tree
BY DEF Grounded, Typed, TypeOK, Quarantining, CommitQuarantine

LEMMA AtomicStep == Grounded /\ QuarantineIsAtomic /\ [Next \/ PowerLoss]_vars => QuarantineIsAtomic'
<1> SUFFICES ASSUME Grounded, QuarantineIsAtomic, [Next \/ PowerLoss]_vars
             PROVE  QuarantineIsAtomic'
  OBVIOUS
<1> USE DatasetAssumption, NoneAssumption, RowAssumption DEF Grounded, Typed, TypeOK
<1>1. ASSUME NEW p \in Publisher, CommitRow(p) PROVE QuarantineIsAtomic'
  <2>1. \A d \in Dataset : row'[d] # None /\ row'[d].quality = "REJECTED"
                            => row[d] # None /\ row[d].quality = "REJECTED"
    BY <1>1, RegistrationEffect DEF Ledger!Registered, Ledger!Superseded, Ledger!Row
  <2>2. \A d \in Dataset : row[d] # None /\ row[d].quality = "REJECTED"
                            => row'[d] # None /\ row'[d].quality = "REJECTED"
    BY <1>1, RegistrationEffect DEF Ledger!Registered, Ledger!Superseded, Ledger!Row
  <2> QED
    BY <2>1, <2>2 DEF QuarantineIsAtomic, IsRejected
<1>2. ASSUME NEW q \in Quarantiner, CommitQuarantine(q) PROVE QuarantineIsAtomic'
  <2>1. \A d \in Targets : row'[d] # None /\ row'[d].quality = "REJECTED"
    BY <1>2, QuarantineEffect DEF Ledger!Rejected, Ledger!Row
  <2> QED
    BY <2>1 DEF QuarantineIsAtomic, IsRejected
<1>3. CASE row' = row
  BY <1>3 DEF QuarantineIsAtomic, IsRejected
<1> QED
  BY <1>1, <1>2, <1>3, RowsChange

(* However processes die, the catalog shows all targets rejected or none.  *)
THEOREM QuarantineAtomic == Spec => []QuarantineIsAtomic
<1>1. Init => QuarantineIsAtomic
  BY DatasetAssumption DEF Init, QuarantineIsAtomic, IsRejected
<1>2. Grounded /\ QuarantineIsAtomic /\ [Next]_vars => QuarantineIsAtomic'
  BY AtomicStep
<1> QED
  BY <1>1, <1>2, GroundedAlways, PTL DEF Spec

(* A rejection outlasts every step, power losses included.                 *)
LEMMA RejectionsStay ==
  ASSUME Grounded, [Next \/ PowerLoss]_vars, NEW d \in Dataset, IsRejected(d)
  PROVE  IsRejected(d)'
<1> USE DatasetAssumption, RowAssumption DEF Grounded, Typed, TypeOK, IsRejected
<1>1. ASSUME NEW p \in Publisher, CommitRow(p) PROVE IsRejected(d)'
  BY <1>1, RegistrationEffect DEF Ledger!Superseded, Ledger!Row
<1>2. ASSUME NEW q \in Quarantiner, CommitQuarantine(q) PROVE IsRejected(d)'
  BY <1>2, QuarantineEffect DEF Ledger!Rejected, Ledger!Row
<1>3. CASE row' = row
  BY <1>3
<1> QED
  BY <1>1, <1>2, <1>3, RowsChange

(* No registration, retry or supersession takes a rejection back.          *)
THEOREM QuarantineFinal == Spec => QuarantineIsFinal
<1>1. Grounded /\ [Next]_vars => [\A d \in Dataset : IsRejected(d) => IsRejected(d)']_row
  BY RejectionsStay
<1> QED
  BY <1>1, GroundedAlways, PTL DEF Spec, QuarantineIsFinal

(* A doomed call's dataset is rejected since, and the call has not passed  *)
(* the comparison of its row; one that returns has found the row.          *)
Judged ==
  \A p \in Publisher :
    /\ doomed[p] => pc[p] # "idle" /\ IsRejected(target[p])
    /\ pc[p] = "return" => row[target[p]] # None /\ ~doomed[p]

LEMMA JudgedStep == Grounded /\ Judged /\ [Next]_vars => Judged'
<1> SUFFICES ASSUME Grounded, Judged, [Next]_vars, NEW p \in Publisher
             PROVE  /\ doomed'[p] => pc'[p] # "idle" /\ IsRejected(target[p])'
                    /\ pc'[p] = "return" => row'[target'[p]] # None /\ ~doomed'[p]
  BY DEF Judged
<1>r. \A d \in Dataset : IsRejected(d) => IsRejected(d)'
  BY RejectionsStay
<1>n. \A d \in Dataset : row[d] # None => row'[d] # None
  BY RowsStay DEF Grounded
<1> USE NoneAssumption DEF Grounded, Typed, TypeOK, InCall
<1>k. ASSUME pc'[p] = pc[p], target'[p] = target[p], doomed'[p] = doomed[p]
      PROVE  /\ doomed'[p] => pc'[p] # "idle" /\ IsRejected(target[p])'
             /\ pc'[p] = "return" => row'[target'[p]] # None /\ ~doomed'[p]
  <2>1. pc[p] # "idle" => target[p] \in Dataset
    OBVIOUS
  <2>2. ASSUME doomed[p] PROVE IsRejected(target[p])'
    <3>1. target[p] \in Dataset /\ IsRejected(target[p])
      BY <2>1, <2>2 DEF Judged
    <3> QED
      BY <1>k, <1>r, <3>1 DEF IsRejected
  <2> QED
    BY <1>k, <1>n, <2>1, <2>2 DEF Judged
<1>g. ASSUME NEW label \in Labels, Goto(p, label), label # "return"
      PROVE  /\ doomed'[p] => pc'[p] # "idle" /\ IsRejected(target[p])'
             /\ pc'[p] = "return" => row'[target'[p]] # None /\ ~doomed'[p]
  <2>1. pc'[p] = label /\ (doomed'[p] <=> label # "idle" /\ doomed[p])
    BY <1>g DEF Goto
  <2>2. label # "idle" => target'[p] = target[p]
    BY <1>g DEF Goto
  <2>3. ASSUME doomed'[p] PROVE IsRejected(target[p])'
    <3>1. target[p] \in Dataset /\ IsRejected(target[p]) /\ target'[p] = target[p]
      BY <2>1, <2>2, <2>3 DEF Judged
    <3> QED
      BY <1>r, <3>1 DEF IsRejected
  <2> QED
    BY <1>g, <2>1, <2>3
<1>m. ASSUME NEW q \in Publisher, q # p, Publish(q) \/ RetryRegistration(q) \/ Step(q)
      PROVE  pc'[p] = pc[p] /\ target'[p] = target[p] /\ doomed'[p] = doomed[p]
  <2>1. ASSUME NEW label \in Labels, Goto(q, label) \/ GotoReused(q, label)
        PROVE  pc'[p] = pc[p] /\ target'[p] = target[p] /\ doomed'[p] = doomed[p]
    BY <1>m, <2>1 DEF Goto, GotoReused
  <2>2. CASE Publish(q) \/ RetryRegistration(q)
    BY <1>m, <2>2 DEF Publish, RetryRegistration, Begin
  <2>3. CASE Step(q)
    BY <2>1, <2>3
       DEF Step, ProbeFinal, GiveUpWaiting, BuildStage, StageFails, ExposeStage, SyncParents,
           SyncFails, VerifyTree, LookupDataset, ValidateSupersession, BeginInsert, InsertFails,
           CommitRow, RereadDataset, ReturnResult, RaiseRecoverable, Labels
  <2> QED
    BY <1>m, <2>2, <2>3
<1>1. ASSUME Publish(p) \/ RetryRegistration(p)
      PROVE  /\ doomed'[p] => pc'[p] # "idle" /\ IsRejected(target[p])'
             /\ pc'[p] = "return" => row'[target'[p]] # None /\ ~doomed'[p]
  <2>1. PICK d : Begin(p, d)
    BY <1>1 DEF Publish, RetryRegistration
  <2>2. row' = row /\ pc'[p] \in {"probe", "verify"}
    BY <1>1 DEF Publish, RetryRegistration, catalogVars
  <2>3. target'[p] = d /\ (doomed'[p] <=> IsRejected(d))
    BY <2>1 DEF Begin
  <2> QED
    BY <2>2, <2>3 DEF IsRejected
<1>2. ASSUME pc[p] # "idle", row' = row, GotoReused(p, "return"),
             row[target[p]] # None, Identical(target[p])
      PROVE  /\ doomed'[p] => pc'[p] # "idle" /\ IsRejected(target[p])'
             /\ pc'[p] = "return" => row'[target'[p]] # None /\ ~doomed'[p]
  <2>1. ~doomed[p]
    BY <1>2 DEF Judged, Identical, IsRejected
  <2>2. target'[p] = target[p] /\ doomed'[p] = doomed[p]
    BY <1>2 DEF GotoReused
  <2> QED
    BY <1>2, <2>1, <2>2
<1>3. ASSUME CommitRow(p)
      PROVE  /\ doomed'[p] => pc'[p] # "idle" /\ IsRejected(target[p])'
             /\ pc'[p] = "return" => row'[target'[p]] # None /\ ~doomed'[p]
  <2>1. pc[p] = "commit" /\ Goto(p, "return")
    BY <1>3 DEF CommitRow
  <2>2. target[p] \in Dataset /\ row[target[p]] = None
    BY <2>1 DEF Publishing
  <2>3. ~doomed[p]
    BY <2>2 DEF Judged, IsRejected
  <2>4. target'[p] = target[p] /\ ~doomed'[p]
    BY <2>1, <2>3 DEF Goto
  <2>5. row'[target[p]] = Ledger!Registered
    BY <1>3, <2>2 DEF CommitRow
  <2>6. Ledger!Registered # None
    BY RowAssumption DEF Ledger!Row, Ledger!Registered
  <2> QED
    BY <2>4, <2>5, <2>6
<1>4. ASSUME ProbeFinal(p), GotoReused(p, "verify")
      PROVE  /\ doomed'[p] => pc'[p] # "idle" /\ IsRejected(target[p])'
             /\ pc'[p] = "return" => row'[target'[p]] # None /\ ~doomed'[p]
  <2>1. row' = row
    BY <1>4 DEF ProbeFinal, catalogVars
  <2>2. pc'[p] = "verify" /\ target'[p] = target[p] /\ doomed'[p] = doomed[p]
    BY <1>4 DEF GotoReused
  <2> QED
    BY <2>1, <2>2 DEF Judged, IsRejected
<1>5. ASSUME Step(p)
      PROVE  /\ doomed'[p] => pc'[p] # "idle" /\ IsRejected(target[p])'
             /\ pc'[p] = "return" => row'[target'[p]] # None /\ ~doomed'[p]
  <2>1. CASE LookupDataset(p) \/ RereadDataset(p)
    <3>1. row' = row /\ pc[p] # "idle"
      BY <2>1 DEF LookupDataset, RereadDataset, catalogVars
    <3>2. \/ Goto(p, "supersede") \/ Goto(p, "idle")
          \/ GotoReused(p, "return") /\ row[target[p]] # None /\ Identical(target[p])
      BY <2>1 DEF LookupDataset, RereadDataset, RaiseRecoverable
    <3> QED
      BY <1>2, <1>g, <3>1, <3>2 DEF Labels
  <2>2. CASE CommitRow(p)
    BY <1>3, <2>2
  <2>3. CASE ProbeFinal(p)
    BY <1>4, <1>g, <2>3 DEF ProbeFinal, Labels
  <2>4. CASE \E label \in Labels \ {"return"} : Goto(p, label)
    BY <1>g, <2>4
  <2>5. ASSUME ~(LookupDataset(p) \/ RereadDataset(p)), ~CommitRow(p), ~ProbeFinal(p)
        PROVE  \E label \in Labels \ {"return"} : Goto(p, label)
    BY <1>5, <2>5
       DEF Step, GiveUpWaiting, BuildStage, StageFails, ExposeStage, SyncParents, SyncFails,
           VerifyTree, ValidateSupersession, BeginInsert, InsertFails, ReturnResult,
           RaiseRecoverable, Labels
  <2> QED
    BY <2>1, <2>2, <2>3, <2>4, <2>5
<1>6. ASSUME NEW q \in Quarantiner, BeginQuarantine(q) \/ QuarantineStep(q)
      PROVE  pc'[p] = pc[p] /\ target'[p] = target[p] /\ doomed'[p] = doomed[p]
  BY <1>6 DEF BeginQuarantine, QuarantineStep, Inspect, SwapQuality, QuarantineFails,
              CommitQuarantine, publisherVars
<1>7. ASSUME NEW x \in Process, Crash(x)
      PROVE  \/ Goto(p, "idle")
             \/ pc'[p] = pc[p] /\ target'[p] = target[p] /\ doomed'[p] = doomed[p]
  BY <1>7 DEF Crash, Goto, publisherVars
<1>8. ASSUME (\E d \in Dataset : ClearReservation(d)) \/ UNCHANGED vars
      PROVE  pc'[p] = pc[p] /\ target'[p] = target[p] /\ doomed'[p] = doomed[p]
  BY <1>8 DEF ClearReservation, publisherVars, vars
<1>9. ASSUME NEW x \in Process, Crash(x)
      PROVE  /\ doomed'[p] => pc'[p] # "idle" /\ IsRejected(target[p])'
             /\ pc'[p] = "return" => row'[target'[p]] # None /\ ~doomed'[p]
  BY <1>7, <1>9, <1>g, <1>k DEF Labels
<1>10. ASSUME NEW q \in Publisher, Publish(q) \/ RetryRegistration(q) \/ Step(q)
       PROVE  /\ doomed'[p] => pc'[p] # "idle" /\ IsRejected(target[p])'
              /\ pc'[p] = "return" => row'[target'[p]] # None /\ ~doomed'[p]
  <2>1. CASE q = p
    BY <1>10, <2>1, <1>1, <1>5
  <2>2. CASE q # p
    BY <1>10, <2>2, <1>m, <1>k
  <2> QED
    BY <2>1, <2>2
<1> QED
  BY <1>6, <1>8, <1>9, <1>10, <1>k DEF Next

(* A call that begins after its dataset was rejected ends without success, *)
(* whichever publisher wins the race for the row; a success has its row.   *)
(* The row may be rejected between its read and the return.                *)
THEOREM RejectionsSeen == Spec => RejectionIsSeen
<1>1. Init => Judged
  BY DEF Init, Judged
<1>2. Judged /\ [Next]_vars =>
        [\A p \in Publisher : ReturnResult(p) => row[target[p]] # None /\ ~doomed[p]]_vars
  BY DEF Judged, ReturnResult
<1> QED
  BY <1>1, <1>2, JudgedStep, GroundedAlways, PTL DEF Spec, RejectionIsSeen
-----------------------------------------------------------------------------
(***************************************************************************)
(* Trees change only by a rename, its fsync or the removal of a directory  *)
(* without manifest.                                                       *)
(***************************************************************************)
TreeStep ==
  \/ tree' = tree
  \/ \E d \in Dataset : tree[d] = "absent" /\ tree' = [tree EXCEPT ![d] = "exposed"]
  \/ \E d \in Dataset : Intact(d) /\ tree' = [tree EXCEPT ![d] = "synced"]
  \/ \E d \in Dataset : tree[d] = "reserved" /\ tree' = [tree EXCEPT ![d] = "absent"]

LEMMA TreesChange == ASSUME Grounded, [Next]_vars PROVE TreeStep
<1> USE DEF Grounded, Typed, InCall, TreeStep
<1>1. ASSUME NEW p \in Publisher, ExposeStage(p) PROVE TreeStep
  BY <1>1 DEF ExposeStage
<1>2. ASSUME NEW p \in Publisher, SyncParents(p) PROVE TreeStep
  BY <1>2 DEF SyncParents, Publishing
<1>3. ASSUME NEW d \in Dataset, ClearReservation(d) PROVE TreeStep
  BY <1>3 DEF ClearReservation
<1>4. CASE UNCHANGED vars
  BY <1>4 DEF vars
<1> QED
  BY <1>1, <1>2, <1>3, <1>4
     DEF Next, Step, QuarantineStep, Publish, RetryRegistration, ProbeFinal, GiveUpWaiting,
         BuildStage, StageFails, SyncFails, VerifyTree, LookupDataset, ValidateSupersession,
         BeginInsert, InsertFails, CommitRow, RereadDataset, ReturnResult, BeginQuarantine, Inspect,
         SwapQuality, QuarantineFails, CommitQuarantine, Crash

(* No publisher, however it loses a race, touches a visible tree.          *)
THEOREM TreesImmutable == Spec => TreesAreImmutable
<1>1. ASSUME Grounded, [Next]_vars
      PROVE  \A d \in Dataset : /\ tree[d] = "exposed" => tree'[d] \in {"exposed", "synced"}
                                /\ tree[d] = "synced" => tree'[d] = "synced"
  BY <1>1, TreesChange DEF TreeStep, Intact, Grounded, Typed, TypeOK
<1>2. Grounded /\ [Next]_vars =>
        [\A d \in Dataset : /\ tree[d] = "exposed" => tree'[d] \in {"exposed", "synced"}
                            /\ tree[d] = "synced" => tree'[d] = "synced"]_tree
  BY <1>1
<1> QED
  BY <1>2, GroundedAlways, PTL DEF Spec, TreesAreImmutable

(* A registered dataset keeps its tree, inputs and consistent supersession *)
(* although they were checked before the transaction.                      *)
THEOREM RowsHaveTrees == Spec => []RowsNameTrees
<1>1. Init => RowsNameTrees
  BY DEF Init, RowsNameTrees
<1>2. ASSUME Grounded, RowsNameTrees, [Next]_vars PROVE RowsNameTrees'
  <2> USE DatasetAssumption, NoneAssumption, RowAssumption DEF Grounded, Typed, TypeOK
  <2>1. \A d \in Dataset : tree[d] \in {"exposed", "synced"} => tree'[d] \in {"exposed", "synced"}
    BY <1>2, TreesChange DEF TreeStep, Intact
  <2>2. ASSUME NEW p \in Publisher, CommitRow(p) PROVE RowsNameTrees'
    <3> DEFINE d == target[p]
    <3>1. /\ d \in Dataset /\ row[d] = None /\ Intact(d)
          /\ \A e \in Inputs[d] : row[e] # None
          /\ Supersedes[d] # None => Supersedes[d] # d /\ row[Supersedes[d]] # None
          /\ row' = [e \in Dataset |-> IF e = d THEN Ledger!Registered
                                       ELSE IF e = Supersedes[d] THEN Ledger!Superseded(row[e])
                                       ELSE row[e]]
          /\ tree' = tree
      BY <1>2, <2>2, RegistrationEffect
    <3>2. \A e \in Dataset : row[e] # None => Ledger!Superseded(row[e]) # None
      <4>1. \A r \in Ledger!Row : Ledger!Superseded(r) \in Ledger!Row
        BY DEF Ledger!Superseded, Ledger!Row
      <4> QED
        BY <1>2, <4>1
    <3>3. Ledger!Registered # None /\ Ledger!Registered.status = "REGISTERED"
      BY DEF Ledger!Registered, Ledger!Row
    <3> HIDE DEF d
    <3>4. ASSUME NEW e \in Dataset, row'[e] # None
          PROVE  /\ tree'[e] \in {"exposed", "synced"}
                 /\ \A f \in Inputs[e] : row'[f] # None
      BY <1>2, <3>1, <3>2, <3>3, <3>4 DEF RowsNameTrees, Intact
    <3>5. ASSUME NEW e \in Dataset, row'[e] # None, Supersedes[e] # None
          PROVE  row'[Supersedes[e]] # None /\ row'[Supersedes[e]].status = "SUPERSEDED"
      <4>1. CASE e = d
        BY <3>1, <3>2, <3>5, <4>1 DEF Ledger!Superseded
      <4>2. CASE e # d
        <5>1. row[e] # None
          BY <3>1, <3>5, <4>2
        <5>2. row[Supersedes[e]] # None /\ row[Supersedes[e]].status = "SUPERSEDED"
          BY <1>2, <3>5, <5>1 DEF RowsNameTrees
        <5> QED
          BY <3>1, <3>2, <3>5, <5>2 DEF Ledger!Superseded
      <4> QED
        BY <4>1, <4>2
    <3>6. ASSUME NEW e \in Dataset, row'[e] # None, row'[e].status = "SUPERSEDED"
          PROVE  \E f \in Dataset : row'[f] # None /\ Supersedes[f] = e
      <4>1. CASE e = Supersedes[d]
        BY <3>1, <3>3, <4>1
      <4>2. CASE e # Supersedes[d]
        <5>1. e # d /\ row'[e] = row[e]
          BY <3>1, <3>3, <3>6, <4>2
        <5>2. PICK f \in Dataset : row[f] # None /\ Supersedes[f] = e
          BY <1>2, <3>6, <5>1 DEF RowsNameTrees, HasSuccessor
        <5>3. row'[f] # None
          BY <3>1, <3>2, <5>2
        <5> QED
          BY <5>2, <5>3
      <4> QED
        BY <4>1, <4>2
    <3> QED
      BY <3>4, <3>5, <3>6 DEF RowsNameTrees, HasSuccessor
  <2>3. ASSUME NEW q \in Quarantiner, CommitQuarantine(q) PROVE RowsNameTrees'
    <3>1. \A d \in Dataset : /\ row'[d] # None <=> row[d] # None
                             /\ row[d] # None => row'[d].status = row[d].status
      BY <1>2, <2>3, QuarantineEffect DEF Ledger!Rejected, Ledger!Row
    <3>2. tree' = tree
      BY <1>2, <2>3, QuarantineEffect
    <3> QED
      BY <1>2, <3>1, <3>2 DEF RowsNameTrees, HasSuccessor
  <2>4. CASE row' = row
    BY <1>2, <2>1, <2>4 DEF RowsNameTrees, HasSuccessor
  <2> QED
    BY <1>2, <2>2, <2>3, <2>4, RowsChange
<1> QED
  BY <1>1, <1>2, GroundedAlways, PTL DEF Spec
-----------------------------------------------------------------------------
LEMMA LedgerStep ==
  Grounded /\ [Next]_vars =>
    [Ledger!Next]_<<{d \in Dataset : tree[d] \in {"exposed", "synced"}}, row>>
<1> SUFFICES ASSUME Grounded, [Next]_vars
             PROVE  [Ledger!Next]_<<{d \in Dataset : tree[d] \in {"exposed", "synced"}}, row>>
  OBVIOUS
<1> USE DEF Grounded, Typed, TypeOK
<1>1. ASSUME NEW p \in Publisher, CommitRow(p) PROVE Ledger!Next
  <2>1. Ledger!Register(target[p])
    BY <1>1, RegistrationEffect DEF Ledger!Register, Intact
  <2> QED
    BY <1>1, <2>1, RegistrationEffect DEF Ledger!Next
<1>2. ASSUME NEW q \in Quarantiner, CommitQuarantine(q) PROVE Ledger!Next
  BY <1>2, QuarantineEffect DEF Ledger!Next, Ledger!Quarantine
<1>3. ASSUME row' = row, NEW d \in Dataset, tree[d] = "absent", tree' = [tree EXCEPT ![d] = "exposed"]
      PROVE  Ledger!Next
  <2>1. Ledger!Publish(d)
    BY <1>3 DEF Ledger!Publish
  <2> QED
    BY <2>1 DEF Ledger!Next
<1>4. CASE /\ row' = row
           /\ \/ tree' = tree
              \/ \E d \in Dataset : Intact(d) /\ tree' = [tree EXCEPT ![d] = "synced"]
              \/ \E d \in Dataset : tree[d] = "reserved" /\ tree' = [tree EXCEPT ![d] = "absent"]
  BY <1>4 DEF Intact
<1> QED
  BY <1>1, <1>2, <1>3, <1>4, RowsChange, TreesChange DEF TreeStep

(* The store refines DatasetLedger.                                        *)
THEOREM StoreImplementsLedger == Spec => ImplementsLedger
<1>1. Init => Ledger!Init
  BY DEF Init, Ledger!Init
<1> QED
  BY <1>1, LedgerStep, GroundedAlways, PTL DEF Spec, ImplementsLedger, Ledger!Spec
-----------------------------------------------------------------------------
LEMMA SurvivesStep ==
  Grounded /\ CreatedAckSurvives /\ [Next \/ PowerLoss]_vars => CreatedAckSurvives'
<1> SUFFICES ASSUME Grounded, CreatedAckSurvives, [Next \/ PowerLoss]_vars PROVE CreatedAckSurvives'
  OBVIOUS
<1> USE DEF Grounded, Typed, TypeOK
<1>1. ASSUME NEW d \in Dataset, d \notin Nested, tree[d] = "synced" PROVE tree'[d] = "synced"
  <2>1. CASE PowerLoss
    BY <1>1, <2>1 DEF PowerLoss, Remains, Intact
  <2>2. CASE [Next]_vars
    BY <1>1, <2>2, TreesChange DEF TreeStep, Intact
  <2> QED
    BY <2>1, <2>2
<1>2. ASSUME NEW r \in acked' \ acked, ~r.reused PROVE r.dataset \in Dataset /\ tree[r.dataset] = "synced"
  <2>1. ASSUME NEW p \in Publisher, ReturnResult(p) PROVE r.dataset \in Dataset /\ tree[r.dataset] = "synced"
    <3>1. PICK b \in BOOLEAN : b = reused[p]
      OBVIOUS
    <3>2. r = [dataset |-> target[p], reused |-> b]
      BY <1>2, <2>1, <3>1 DEF ReturnResult
    <3>3. r.dataset = target[p] /\ ~reused[p]
      BY <1>2, <3>1, <3>2
    <3> QED
      BY <2>1, <3>3 DEF ReturnResult, Publishing, Past, InCall
  <2> QED
    BY <1>2, <2>1
       DEF Next, Step, QuarantineStep, vars, auxVars, RaiseRecoverable, Publish, RetryRegistration,
           ProbeFinal, GiveUpWaiting, BuildStage, StageFails, ExposeStage, SyncParents, SyncFails,
           VerifyTree, LookupDataset, ValidateSupersession, BeginInsert, InsertFails, CommitRow,
           RereadDataset, BeginQuarantine, Inspect, SwapQuality, QuarantineFails, CommitQuarantine,
           Crash, ClearReservation, PowerLoss
<1>3. \A r \in acked : r.dataset \in Dataset
  OBVIOUS
<1> QED
  BY <1>1, <1>2, <1>3 DEF CreatedAckSurvives

(* A flat dataset a returned publish created survives every power loss.    *)
THEOREM CreatedAcksSurvive == PowerSpec => []CreatedAckSurvives
<1>1. Init => CreatedAckSurvives
  BY DEF Init, CreatedAckSurvives
<1> QED
  BY <1>1, SurvivesStep, GroundedAlways, PTL DEF PowerSpec
=============================================================================
