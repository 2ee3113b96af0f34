--------------------------- MODULE RawStore_proofs ---------------------------
(***************************************************************************)
(* Theorems about RawStore for any number of writers, reconcilers, temp     *)
(* names, contents, acquisition ids, calls and crashes.                    *)
(***************************************************************************)
EXTENDS RawStore, TLAPS

(* A call in progress has its arguments.                                   *)
InCall == \A w \in Writer : pc[w] # "idle" => job[w] \in Jobs

Typed == TypeOK /\ InCall

LEMMA TypedInit == Init => Typed
BY FlagAssumption DEF Init, Typed, TypeOK, InCall, Labels

ReconcilersTyped ==
  /\ rpc \in [Reconciler -> {"idle", "probe", "probing", "reprobe", "reprobing", "unlink"}]
  /\ entry \in [Reconciler -> Temp \cup {None}]
  /\ stale \in [Reconciler -> BOOLEAN]

LEMMA AdvanceTyped ==
  ASSUME NEW r \in Reconciler, ReconcilersTyped, Advance(r)
  PROVE  ReconcilersTyped'
BY FlagAssumption DEF Advance, Leave, ReconcilersTyped

(* Every step, power losses included, keeps the types.                     *)
LEMMA TypedStep == Typed /\ [Next \/ PowerLoss]_vars => Typed'
<1> SUFFICES ASSUME Typed, [Next \/ PowerLoss]_vars PROVE Typed'
  OBVIOUS
<1> USE JobsAssumption, NoneAssumption
    DEF Typed, TypeOK, InCall, Labels, Process, fileVars, catalogVars, reconcilerVars,
        auxVars, writerVars, Goto
<1>1. ASSUME NEW w \in Writer, CreateTemp(w) PROVE Typed'
  BY <1>1 DEF CreateTemp
<1>2. ASSUME NEW w \in Writer, RetryRegistration(w) PROVE Typed'
  BY <1>2 DEF RetryRegistration, Intact
<1>3. ASSUME NEW w \in Writer, TakeLease(w) PROVE Typed'
  BY <1>3 DEF TakeLease
<1>4. ASSUME NEW w \in Writer, LeaseRefused(w) PROVE Typed'
  BY <1>4 DEF LeaseRefused, AfterError
<1>5. ASSUME NEW w \in Writer, StreamTemp(w) PROVE Typed'
  BY <1>5 DEF StreamTemp
<1>6. ASSUME NEW w \in Writer, StreamFails(w) PROVE Typed'
  BY <1>6 DEF StreamFails
<1>7. ASSUME NEW w \in Writer, ProbeFinal(w) PROVE Typed'
  BY <1>7 DEF ProbeFinal, Publish, Intact
<1>8. ASSUME NEW w \in Writer, LinkFinal(w) PROVE Typed'
  BY <1>8 DEF LinkFinal, Publish, Intact
<1>9. ASSUME NEW w \in Writer, SyncFinal(w) PROVE Typed'
  BY <1>9 DEF SyncFinal
<1>10. ASSUME NEW w \in Writer, SyncFails(w) PROVE Typed'
  BY <1>10 DEF SyncFails
<1>11. ASSUME NEW w \in Writer, VerifyReceipt(w) PROVE Typed'
  BY <1>11 DEF VerifyReceipt, Intact
<1>12. ASSUME NEW w \in Writer, EnsureSource(w) PROVE Typed'
  BY <1>12 DEF EnsureSource
<1>13. ASSUME NEW w \in Writer, LookupAcquisition(w) PROVE Typed'
  BY <1>13 DEF LookupAcquisition
<1>14. ASSUME NEW w \in Writer, InsertObject(w) PROVE Typed'
  BY <1>14 DEF InsertObject
<1>15. ASSUME NEW w \in Writer, CommitAcquisition(w) PROVE Typed'
  BY <1>15 DEF CommitAcquisition, CommittedBy, Ledger!Succeeded, Ledger!Verdict
<1>16. ASSUME NEW w \in Writer, AcquisitionTaken(w) PROVE Typed'
  BY <1>16 DEF AcquisitionTaken
<1>17. ASSUME NEW w \in Writer, RegistrationBusy(w) PROVE Typed'
  BY <1>17 DEF RegistrationBusy, LeftOpen
<1>18. ASSUME NEW w \in Writer, Close(w) PROVE Typed'
  BY <1>18 DEF Close, DropTemp, AfterError
<1>19. ASSUME NEW w \in Writer, Return(w) PROVE Typed'
  <2>1. job[w] \in Jobs
    BY <1>19 DEF Return
  <2>2. acked' \subseteq [job : Jobs, reused : BOOLEAN]
    <3>1. ASSUME NEW b \in BOOLEAN PROVE [job |-> job[w], reused |-> b] \in [job : Jobs, reused : BOOLEAN]
      BY <2>1
    <3>2. (publication[w] = "reused") \in BOOLEAN
      OBVIOUS
    <3>3. [job |-> job[w], reused |-> publication[w] = "reused"] \in [job : Jobs, reused : BOOLEAN]
      BY <3>1, <3>2
    <3> QED
      BY <1>19, <3>3 DEF Return
  <2>3. /\ temp' \in [Temp -> BOOLEAN]
        /\ lease' \in [Temp -> Process \cup {None}]
        /\ tmp' \in [Writer -> Temp \cup {None}]
        /\ publication' \in [Writer -> {"none", "created", "reused"}]
    BY <1>19 DEF Return, DropTemp
  <2>4. /\ Goto(w, "idle")
        /\ UNCHANGED <<aged, store, catalogVars, inserted, reconcilerVars, recoverable,
                       attempts, crashes>>
    BY <1>19 DEF Return
  <2> QED
    BY <2>2, <2>3, <2>4
<1>20. ASSUME NEW w \in Writer, LookupFailed(w) PROVE Typed'
  BY <1>20 DEF LookupFailed
<1>21. ASSUME NEW w \in Writer, CommitFailed(w) PROVE Typed'
  BY <1>21 DEF CommitFailed, CommittedBy, Ledger!Failed, Ledger!Verdict
<1>22. ASSUME NEW w \in Writer, FailedTaken(w) PROVE Typed'
  BY <1>22 DEF FailedTaken
<1>23. ASSUME NEW w \in Writer, FailureBusy(w) PROVE Typed'
  BY <1>23 DEF FailureBusy, LeftOpen
<1>24. ASSUME NEW w \in Writer, Crash(w) PROVE Typed'
  BY <1>24 DEF Crash
<1>25. ASSUME NEW r \in Reconciler, StatEntry(r) PROVE Typed'
  BY <1>25 DEF StatEntry
<1>26. ASSUME NEW r \in Reconciler, ProbeLease(r) PROVE Typed'
  <2>1. CASE temp[entry[r]] /\ lease[entry[r]] = None
    <3>1. rpc' \in [Reconciler -> {"idle", "probe", "probing", "reprobe", "reprobing", "unlink"}]
      BY <1>26, <2>1 DEF ProbeLease
    <3>2. lease' \in [Temp -> Process \cup {None}]
      BY <1>26, <2>1 DEF ProbeLease
    <3>3. UNCHANGED <<entry, stale, temp, aged, store, catalogVars, writerVars, auxVars>>
      BY <1>26, <2>1 DEF ProbeLease
    <3> QED
      BY <3>1, <3>2, <3>3
  <2>2. CASE temp[entry[r]] /\ lease[entry[r]] # None
    <3>1. Leave(r) /\ UNCHANGED <<lease, temp, aged, store, catalogVars, writerVars, auxVars>>
      BY <1>26, <2>2 DEF ProbeLease
    <3> QED
      BY <3>1 DEF Leave
  <2>3. CASE ~temp[entry[r]]
    <3>1. Advance(r) /\ UNCHANGED <<lease, temp, aged, store, catalogVars, writerVars, auxVars>>
      BY <1>26, <2>3 DEF ProbeLease
    <3>2. ReconcilersTyped'
      BY <3>1, AdvanceTyped DEF ReconcilersTyped
    <3> QED
      BY <3>1, <3>2 DEF ReconcilersTyped
  <2> QED
    BY <2>1, <2>2, <2>3
<1>27. ASSUME NEW r \in Reconciler, ReleaseProbe(r) PROVE Typed'
  <2>1. /\ Advance(r) /\ lease' = [lease EXCEPT ![entry[r]] = None]
        /\ UNCHANGED <<temp, aged, store, catalogVars, writerVars, auxVars>>
    BY <1>27 DEF ReleaseProbe
  <2>2. ReconcilersTyped'
    BY <2>1, AdvanceTyped DEF ReconcilersTyped
  <2> QED
    BY <2>1, <2>2 DEF ReconcilersTyped
<1>28. ASSUME NEW r \in Reconciler, UnlinkEntry(r) PROVE Typed'
  BY <1>28 DEF UnlinkEntry, Leave
<1>r. ASSUME NEW w \in Writer, ReadCatalog(w) PROVE Typed'
  BY <1>r DEF ReadCatalog
<1>29. ASSUME NEW t \in Temp, GrowOld(t) PROVE Typed'
  BY <1>29 DEF GrowOld
<1>30. CASE PowerLoss
  BY <1>30 DEF PowerLoss
<1>31. CASE UNCHANGED vars
  BY <1>31 DEF vars
<1> QED
  BY <1>1, <1>2, <1>3, <1>4, <1>5, <1>6, <1>7, <1>8, <1>9, <1>10, <1>11, <1>12, <1>13,
     <1>14, <1>15, <1>16, <1>17, <1>18, <1>19, <1>20, <1>21, <1>22, <1>23, <1>24, <1>25,
     <1>26, <1>27, <1>28, <1>r, <1>29, <1>30, <1>31
     DEF Next, Call, Write, Reconcile

(* Type correctness, with and without power losses.                        *)
THEOREM TypeCorrect == Spec => []TypeOK
<1>1. Typed /\ [Next]_vars => Typed'
  BY TypedStep
<1> QED
  BY TypedInit, <1>1, PTL DEF Spec, Typed

LEMMA TypedAlways == Spec => []Typed
<1>1. Typed /\ [Next]_vars => Typed'
  BY TypedStep
<1> QED
  BY TypedInit, <1>1, PTL DEF Spec
-----------------------------------------------------------------------------
(***************************************************************************)
(* The catalog never gets ahead of the store.  CatalogBacked alone is not  *)
(* inductive: a row is written by a call that verified its object several  *)
(* steps earlier, so the invariant also says what such a call knows.       *)
(***************************************************************************)
Registering == {"sync", "verify", "source", "lookup", "object", "acquisition", "return"}

CallBacked(w) ==
  /\ pc[w] \in Registering => Intact(job[w].content)
  /\ pc[w] = "acquisition" => job[w].content \in rawObject \/ inserted[w]
  /\ pc[w] = "return" /\ job[w].register => Compatible(w)

CallsBacked == \A w \in Writer : CallBacked(w)

Backed == CallsBacked /\ CatalogBacked /\ AckedIsRegistered

(* No step takes an object, a row or a verdict away.                       *)
Monotone ==
  /\ \A c \in Content : Intact(c) => Intact(c)'
  /\ rawObject \subseteq rawObject'
  /\ \A a \in AcqId : acquisition[a] # None => acquisition'[a] = acquisition[a]

LEMMA StepMonotone == Typed /\ [Next]_vars => Monotone
<1> SUFFICES ASSUME Typed, [Next]_vars PROVE Monotone
  OBVIOUS
<1> USE DEF Typed, TypeOK, InCall, Monotone, Intact, fileVars, catalogVars, Goto
<1>1. ASSUME NEW w \in Writer, CreateTemp(w) PROVE Monotone
  BY <1>1, JobsAssumption DEF CreateTemp
<1>2. ASSUME NEW w \in Writer, RetryRegistration(w) PROVE Monotone
  BY <1>2, JobsAssumption DEF RetryRegistration
<1>3. ASSUME NEW w \in Writer, TakeLease(w) PROVE Monotone
  BY <1>3, JobsAssumption DEF TakeLease
<1>4. ASSUME NEW w \in Writer, LeaseRefused(w) PROVE Monotone
  BY <1>4, JobsAssumption DEF LeaseRefused
<1>5. ASSUME NEW w \in Writer, StreamTemp(w) PROVE Monotone
  BY <1>5, JobsAssumption DEF StreamTemp
<1>6. ASSUME NEW w \in Writer, StreamFails(w) PROVE Monotone
  BY <1>6, JobsAssumption DEF StreamFails
<1>7. ASSUME NEW w \in Writer, ProbeFinal(w) PROVE Monotone
  BY <1>7, JobsAssumption DEF ProbeFinal, Publish
<1>8. ASSUME NEW w \in Writer, LinkFinal(w) PROVE Monotone
  BY <1>8, JobsAssumption DEF LinkFinal, Publish
<1>9. ASSUME NEW w \in Writer, SyncFinal(w) PROVE Monotone
  BY <1>9, JobsAssumption DEF SyncFinal
<1>10. ASSUME NEW w \in Writer, SyncFails(w) PROVE Monotone
  BY <1>10, JobsAssumption DEF SyncFails
<1>11. ASSUME NEW w \in Writer, VerifyReceipt(w) PROVE Monotone
  BY <1>11, JobsAssumption DEF VerifyReceipt
<1>12. ASSUME NEW w \in Writer, EnsureSource(w) PROVE Monotone
  BY <1>12, JobsAssumption DEF EnsureSource
<1>13. ASSUME NEW w \in Writer, LookupAcquisition(w) PROVE Monotone
  BY <1>13, JobsAssumption DEF LookupAcquisition
<1>14. ASSUME NEW w \in Writer, InsertObject(w) PROVE Monotone
  BY <1>14, JobsAssumption DEF InsertObject
<1>15. ASSUME NEW w \in Writer, CommitAcquisition(w) PROVE Monotone
  BY <1>15, JobsAssumption DEF CommitAcquisition
<1>16. ASSUME NEW w \in Writer, AcquisitionTaken(w) PROVE Monotone
  BY <1>16, JobsAssumption DEF AcquisitionTaken
<1>17. ASSUME NEW w \in Writer, RegistrationBusy(w) PROVE Monotone
  BY <1>17, JobsAssumption DEF RegistrationBusy
<1>18. ASSUME NEW w \in Writer, Close(w) PROVE Monotone
  BY <1>18, JobsAssumption DEF Close
<1>19. ASSUME NEW w \in Writer, Return(w) PROVE Monotone
  BY <1>19, JobsAssumption DEF Return
<1>20. ASSUME NEW w \in Writer, LookupFailed(w) PROVE Monotone
  BY <1>20, JobsAssumption DEF LookupFailed
<1>21. ASSUME NEW w \in Writer, CommitFailed(w) PROVE Monotone
  BY <1>21, JobsAssumption DEF CommitFailed
<1>22. ASSUME NEW w \in Writer, FailedTaken(w) PROVE Monotone
  BY <1>22, JobsAssumption DEF FailedTaken
<1>23. ASSUME NEW w \in Writer, FailureBusy(w) PROVE Monotone
  BY <1>23, JobsAssumption DEF FailureBusy
<1>24. ASSUME NEW w \in Writer, Crash(w) PROVE Monotone
  BY <1>24, JobsAssumption DEF Crash
<1>25. ASSUME NEW r \in Reconciler, StatEntry(r) PROVE Monotone
  BY <1>25 DEF StatEntry
<1>26. ASSUME NEW r \in Reconciler, ProbeLease(r) PROVE Monotone
  BY <1>26 DEF ProbeLease
<1>27. ASSUME NEW r \in Reconciler, ReleaseProbe(r) PROVE Monotone
  BY <1>27 DEF ReleaseProbe
<1>28. ASSUME NEW r \in Reconciler, UnlinkEntry(r) PROVE Monotone
  BY <1>28 DEF UnlinkEntry
<1>r. ASSUME NEW w \in Writer, ReadCatalog(w) PROVE Monotone
  BY <1>r DEF ReadCatalog
<1>29. ASSUME NEW t \in Temp, GrowOld(t) PROVE Monotone
  BY <1>29 DEF GrowOld
<1>30. CASE UNCHANGED vars
  BY <1>30 DEF vars
<1> QED
  BY <1>1, <1>2, <1>3, <1>4, <1>5, <1>6, <1>7, <1>8, <1>9, <1>10, <1>11, <1>12, <1>13,
     <1>14, <1>15, <1>16, <1>17, <1>18, <1>19, <1>20, <1>21, <1>22, <1>23, <1>24, <1>25,
     <1>26, <1>27, <1>28, <1>r, <1>29, <1>30
     DEF Next, Call, Write, Reconcile

LEMMA BackedInit == Init => Backed
<1> SUFFICES ASSUME Init PROVE Backed
  OBVIOUS
<1>1. CallsBacked
  BY DEF Init, CallsBacked, CallBacked, Registering
<1>2. CatalogBacked
  BY NoneAssumption DEF Init, CatalogBacked, Ledger!Succeeded, Ledger!Verdict
<1>3. AckedIsRegistered
  BY DEF Init, AckedIsRegistered
<1> QED
  BY <1>1, <1>2, <1>3 DEF Backed

(* What a call or a caller knows is not disturbed by the other processes.  *)
LEMMA CallKept ==
  ASSUME Typed, Monotone, NEW w \in Writer, CallBacked(w),
         pc'[w] = pc[w], job'[w] = job[w], inserted'[w] = inserted[w]
  PROVE  CallBacked(w)'
<1>1. CASE pc[w] = "idle"
  BY <1>1 DEF CallBacked, Registering
<1>2. CASE pc[w] # "idle"
  <2>1. /\ job[w] \in Jobs /\ job[w].content \in Content
        /\ job[w].acq \in AcqId /\ job[w].meta \in Meta
    BY <1>2, JobsAssumption DEF Typed, InCall
  <2>2. pc[w] \in Registering => Intact(job[w].content)'
    BY <2>1 DEF CallBacked, Monotone
  <2>3. pc[w] = "acquisition" => job[w].content \in rawObject' \/ inserted[w]
    BY DEF CallBacked, Monotone
  <2>4. Ledger!Succeeded(job[w].content, job[w].meta) # None
    BY <2>1, NoneAssumption DEF Ledger!Succeeded, Ledger!Verdict
  <2>5. Compatible(w) => Compatible(w)'
    BY <2>1, <2>4 DEF Compatible, Monotone, Ledger!Succeeded
  <2>6. pc[w] = "return" /\ job[w].register => Compatible(w)'
    BY <2>5 DEF CallBacked
  <2>7. (pc[w] \in Registering)' <=> pc[w] \in Registering
    BY DEF Registering
  <2> QED
    BY <2>2, <2>3, <2>6, <2>7 DEF CallBacked, Intact
<1> QED
  BY <1>1, <1>2

LEMMA AcksKept ==
  ASSUME Typed, Monotone, AckedIsRegistered, acked' = acked
  PROVE  AckedIsRegistered'
<1> SUFFICES ASSUME NEW r \in acked
             PROVE  /\ Intact(r.job.content)'
                    /\ r.job.register => acquisition'[r.job.acq]
                         = Ledger!Succeeded(r.job.content, r.job.meta)
  BY DEF AckedIsRegistered
<1>1. r.job \in Jobs /\ r.job.content \in Content /\ r.job.acq \in AcqId /\ r.job.meta \in Meta
  BY JobsAssumption DEF Typed, TypeOK
<1>2. Ledger!Succeeded(r.job.content, r.job.meta) # None
  BY <1>1, NoneAssumption DEF Ledger!Succeeded, Ledger!Verdict
<1> QED
  BY <1>1, <1>2 DEF AckedIsRegistered, Monotone

LEMMA BackedStep == Typed /\ Backed /\ [Next]_vars => Backed'
<1> SUFFICES ASSUME Typed, Backed, [Next]_vars PROVE Backed'
  OBVIOUS
<1>m. Monotone
  BY StepMonotone
<1>t. Typed'
  BY TypedStep
<1> USE <1>m, <1>t, JobsAssumption, NoneAssumption
    DEF Typed, TypeOK, InCall, Labels, Backed, CallsBacked, CallBacked, CatalogBacked, AckedIsRegistered,
        Registering, Monotone, Compatible, Ledger!Succeeded, fileVars, catalogVars, auxVars, Goto
<1>1. ASSUME NEW w \in Writer, CreateTemp(w) PROVE Backed'
  BY <1>1 DEF CreateTemp
<1>2. ASSUME NEW w \in Writer, RetryRegistration(w) PROVE Backed'
  BY <1>2 DEF RetryRegistration
<1>3. ASSUME NEW w \in Writer, TakeLease(w) PROVE Backed'
  BY <1>3 DEF TakeLease
<1>4. ASSUME NEW w \in Writer, LeaseRefused(w) PROVE Backed'
  BY <1>4 DEF LeaseRefused, AfterError
<1>5. ASSUME NEW w \in Writer, StreamTemp(w) PROVE Backed'
  BY <1>5 DEF StreamTemp
<1>6. ASSUME NEW w \in Writer, StreamFails(w) PROVE Backed'
  BY <1>6 DEF StreamFails
<1>7. ASSUME NEW w \in Writer, ProbeFinal(w) PROVE Backed'
  BY <1>7 DEF ProbeFinal, Publish
<1>8. ASSUME NEW w \in Writer, LinkFinal(w) PROVE Backed'
  <2>1. CallBacked(w)'
    <3>1. job'[w] = job[w] /\ job[w].content \in Content
      BY <1>8 DEF LinkFinal, Publish
    <3>2. /\ pc'[w] \in {"close", "sync", "verify"}
          /\ pc'[w] # "close" => Intact(job[w].content)'
      BY <1>8, <3>1 DEF LinkFinal, Publish, Intact
    <3> QED
      BY <3>1, <3>2 DEF Intact
  <2>2. ASSUME NEW v \in Writer, v # w PROVE CallBacked(v)'
    <3>1. pc'[v] = pc[v] /\ job'[v] = job[v] /\ inserted'[v] = inserted[v]
      BY <1>8, <2>2 DEF LinkFinal, Publish
    <3> QED
      BY <3>1, CallKept
  <2>3. CatalogBacked'
    BY <1>8 DEF LinkFinal, Publish
  <2>4. AckedIsRegistered'
    <3>1. acked' = acked
      BY <1>8 DEF LinkFinal
    <3> QED
      BY <3>1, AcksKept
  <2> QED
    BY <2>1, <2>2, <2>3, <2>4
<1>9. ASSUME NEW w \in Writer, SyncFinal(w) PROVE Backed'
  BY <1>9 DEF SyncFinal
<1>10. ASSUME NEW w \in Writer, SyncFails(w) PROVE Backed'
  BY <1>10 DEF SyncFails
<1>11. ASSUME NEW w \in Writer, VerifyReceipt(w) PROVE Backed'
  BY <1>11 DEF VerifyReceipt
<1>12. ASSUME NEW w \in Writer, EnsureSource(w) PROVE Backed'
  BY <1>12 DEF EnsureSource
<1>13. ASSUME NEW w \in Writer, LookupAcquisition(w) PROVE Backed'
  BY <1>13 DEF LookupAcquisition
<1>14. ASSUME NEW w \in Writer, InsertObject(w) PROVE Backed'
  BY <1>14 DEF InsertObject
<1>15. ASSUME NEW w \in Writer, CommitAcquisition(w) PROVE Backed'
  <2>1. CallBacked(w)'
    BY <1>15 DEF CommitAcquisition
  <2>2. ASSUME NEW v \in Writer, v # w PROVE CallBacked(v)'
    <3>1. pc'[v] = pc[v] /\ job'[v] = job[v] /\ inserted'[v] = inserted[v]
      BY <1>15, <2>2 DEF CommitAcquisition
    <3> QED
      BY <3>1, CallKept
  <2>3. CatalogBacked'
    BY <1>15 DEF CommitAcquisition
  <2>4. AckedIsRegistered'
    <3>1. acked' = acked
      BY <1>15 DEF CommitAcquisition
    <3> QED
      BY <3>1, AcksKept
  <2> QED
    BY <2>1, <2>2, <2>3, <2>4
<1>16. ASSUME NEW w \in Writer, AcquisitionTaken(w) PROVE Backed'
  BY <1>16 DEF AcquisitionTaken
<1>17. ASSUME NEW w \in Writer, RegistrationBusy(w) PROVE Backed'
  BY <1>17 DEF RegistrationBusy
<1>18. ASSUME NEW w \in Writer, Close(w) PROVE Backed'
  BY <1>18 DEF Close, AfterError, DropTemp
<1>19. ASSUME NEW w \in Writer, Return(w) PROVE Backed'
  BY <1>19 DEF Return, DropTemp
<1>20. ASSUME NEW w \in Writer, LookupFailed(w) PROVE Backed'
  BY <1>20 DEF LookupFailed
<1>21. ASSUME NEW w \in Writer, CommitFailed(w) PROVE Backed'
  <2>1. CallBacked(w)'
    BY <1>21 DEF CommitFailed, Ledger!Failed
  <2>2. ASSUME NEW v \in Writer, v # w PROVE CallBacked(v)'
    <3>1. pc'[v] = pc[v] /\ job'[v] = job[v] /\ inserted'[v] = inserted[v]
      BY <1>21, <2>2 DEF CommitFailed, Ledger!Failed
    <3> QED
      BY <3>1, CallKept
  <2>3. CatalogBacked'
    BY <1>21 DEF CommitFailed, Ledger!Failed
  <2>4. AckedIsRegistered'
    <3>1. acked' = acked
      BY <1>21 DEF CommitFailed
    <3> QED
      BY <3>1, AcksKept
  <2> QED
    BY <2>1, <2>2, <2>3, <2>4
<1>22. ASSUME NEW w \in Writer, FailedTaken(w) PROVE Backed'
  BY <1>22 DEF FailedTaken
<1>23. ASSUME NEW w \in Writer, FailureBusy(w) PROVE Backed'
  BY <1>23 DEF FailureBusy
<1>24. ASSUME NEW w \in Writer, Crash(w) PROVE Backed'
  BY <1>24 DEF Crash
<1>25. ASSUME NEW r \in Reconciler, StatEntry(r) PROVE Backed'
  BY <1>25 DEF StatEntry, writerVars
<1>26. ASSUME NEW r \in Reconciler, ProbeLease(r) PROVE Backed'
  BY <1>26 DEF ProbeLease, writerVars
<1>27. ASSUME NEW r \in Reconciler, ReleaseProbe(r) PROVE Backed'
  BY <1>27 DEF ReleaseProbe, writerVars
<1>28. ASSUME NEW r \in Reconciler, UnlinkEntry(r) PROVE Backed'
  BY <1>28 DEF UnlinkEntry, writerVars
<1>r. ASSUME NEW w \in Writer, ReadCatalog(w) PROVE Backed'
  BY <1>r DEF ReadCatalog, writerVars
<1>29. ASSUME NEW t \in Temp, GrowOld(t) PROVE Backed'
  BY <1>29 DEF GrowOld, writerVars
<1>30. CASE UNCHANGED vars
  BY <1>30 DEF vars, writerVars
<1> QED
  BY <1>1, <1>2, <1>3, <1>4, <1>5, <1>6, <1>7, <1>8, <1>9, <1>10, <1>11, <1>12, <1>13,
     <1>14, <1>15, <1>16, <1>17, <1>18, <1>19, <1>20, <1>21, <1>22, <1>23, <1>24, <1>25,
     <1>26, <1>27, <1>28, <1>r, <1>29, <1>30
     DEF Next, Call, Write, Reconcile

(* Every registered row has its bytes, in every reachable state.           *)
THEOREM CatalogNeverAhead == Spec => []CatalogBacked
<1> QED
  BY TypedAlways, BackedInit, BackedStep, PTL DEF Spec, Backed

(* Whatever a caller was told is in the catalog and stays there.           *)
THEOREM AcksAreKept == Spec => []AckedIsRegistered
<1> QED
  BY TypedAlways, BackedInit, BackedStep, PTL DEF Spec, Backed
-----------------------------------------------------------------------------
(***************************************************************************)
(* The store implements the ledger.                                        *)
(***************************************************************************)
LEMMA LedgerStutter == UNCHANGED <<store, acquisition>> => UNCHANGED Ledger!vars
BY DEF Ledger!vars

LEMMA LedgerStep == Typed /\ Backed /\ [Next]_vars => [Ledger!Next]_(Ledger!vars)
<1> SUFFICES ASSUME Typed, Backed, [Next]_vars PROVE [Ledger!Next]_(Ledger!vars)
  OBVIOUS
<1> USE DEF Typed, TypeOK, InCall
<1>1. ASSUME NEW w \in Writer, LinkFinal(w) PROVE [Ledger!Next]_(Ledger!vars)
  <2>1. PICK c \in Content : c = job[w].content
    BY <1>1, JobsAssumption DEF LinkFinal
  <2>2. UNCHANGED acquisition
    BY <1>1 DEF LinkFinal, catalogVars
  <2>3. CASE UNCHANGED store
    BY <2>2, <2>3, LedgerStutter
  <2>4. CASE store' = [store EXCEPT ![c] = "linked"]
    <3>1. {d \in Content : store'[d] \in {"linked", "durable"}}
            = {d \in Content : store[d] \in {"linked", "durable"}} \cup {c}
      BY <2>1, <2>4
    <3>2. Ledger!Publish(c)
      BY <2>2, <3>1 DEF Ledger!Publish
    <3> QED
      BY <2>1, <3>2 DEF Ledger!Next
  <2> QED
    BY <1>1, <2>1, <2>3, <2>4 DEF LinkFinal
<1>2. ASSUME NEW w \in Writer, SyncFinal(w) PROVE [Ledger!Next]_(Ledger!vars)
  <2>1. Intact(job[w].content) /\ UNCHANGED acquisition
    BY <1>2 DEF SyncFinal, Backed, CallsBacked, CallBacked, Registering, catalogVars
  <2>2. {d \in Content : store'[d] \in {"linked", "durable"}}
          = {d \in Content : store[d] \in {"linked", "durable"}}
    BY <1>2, <2>1 DEF SyncFinal, Intact
  <2> QED
    BY <2>1, <2>2 DEF Ledger!vars
<1>3. ASSUME NEW w \in Writer, CommitAcquisition(w) PROVE [Ledger!Next]_(Ledger!vars)
  <2>1. /\ job[w].acq \in AcqId /\ job[w].content \in Content /\ job[w].meta \in Meta
        /\ Intact(job[w].content)
    BY <1>3, JobsAssumption
       DEF CommitAcquisition, Backed, CallsBacked, CallBacked, Registering
  <2>2. Ledger!Succeed(job[w].acq, job[w].content, job[w].meta)
    BY <1>3, <2>1 DEF CommitAcquisition, Ledger!Succeed, Intact, fileVars
  <2> QED
    BY <2>1, <2>2 DEF Ledger!Next
<1>4. ASSUME NEW w \in Writer, CommitFailed(w) PROVE [Ledger!Next]_(Ledger!vars)
  <2>1. job[w].acq \in AcqId /\ job[w].meta \in Meta
    BY <1>4, JobsAssumption DEF CommitFailed
  <2>2. Ledger!Fail(job[w].acq, job[w].meta)
    BY <1>4 DEF CommitFailed, Ledger!Fail, fileVars
  <2> QED
    BY <2>1, <2>2 DEF Ledger!Next
<1>5. ASSUME NEW w \in Writer,
                   \/ CreateTemp(w) \/ RetryRegistration(w) \/ TakeLease(w) \/ LeaseRefused(w)
                \/ StreamTemp(w) \/ StreamFails(w) \/ ProbeFinal(w) \/ SyncFails(w)
                \/ VerifyReceipt(w) \/ EnsureSource(w) \/ LookupAcquisition(w) \/ InsertObject(w)
                \/ AcquisitionTaken(w) \/ RegistrationBusy(w) \/ Close(w) \/ Return(w)
                \/ LookupFailed(w) \/ FailedTaken(w) \/ FailureBusy(w) \/ ReadCatalog(w)
                \/ Crash(w)
      PROVE  [Ledger!Next]_(Ledger!vars)
  <2>1. UNCHANGED <<store, acquisition>>
    BY <1>5 DEF fileVars, catalogVars, CreateTemp, RetryRegistration, TakeLease, LeaseRefused, StreamTemp,
         StreamFails, ProbeFinal, SyncFails, VerifyReceipt, EnsureSource,
         LookupAcquisition, InsertObject, AcquisitionTaken, RegistrationBusy,
         Close, Return, LookupFailed, FailedTaken, FailureBusy, ReadCatalog, Crash
  <2> QED
    BY <2>1, LedgerStutter
<1>6. ASSUME NEW r \in Reconciler, Reconcile(r) PROVE [Ledger!Next]_(Ledger!vars)
  <2>1. UNCHANGED <<store, acquisition>>
    BY <1>6 DEF Reconcile, StatEntry, ProbeLease, ReleaseProbe, UnlinkEntry, fileVars, catalogVars
  <2> QED
    BY <2>1, LedgerStutter
<1>7. ASSUME NEW t \in Temp, GrowOld(t) PROVE [Ledger!Next]_(Ledger!vars)
  BY <1>7, LedgerStutter DEF GrowOld, catalogVars
<1>8. CASE UNCHANGED vars
  BY <1>8, LedgerStutter DEF vars, fileVars, catalogVars
<1> QED
  BY <1>1, <1>2, <1>3, <1>4, <1>5, <1>6, <1>7, <1>8 DEF Next, Call, Write

(* The store refines ContentLedger: one immutable verdict per acquisition  *)
(* id, and SUCCEEDED only for content that is published.                   *)
THEOREM StoreImplementsLedger == Spec => ImplementsLedger
<1>1. Init => Ledger!Init
  BY DEF Init, Ledger!Init
<1> QED
  BY <1>1, LedgerStep, TypedAlways, BackedInit, BackedStep, PTL
     DEF Spec, ImplementsLedger, Ledger!Spec
-----------------------------------------------------------------------------
(***************************************************************************)
(* What a power loss cannot take back.                                     *)
(***************************************************************************)
Settled == {"verify", "source", "lookup", "object", "acquisition", "return"}

CallIsDurable ==
  \A w \in Writer :
    pc[w] \in Settled => publication[w] = "reused" \/ store[job[w].content] = "durable"

Durable == CallIsDurable /\ CreatedAckIsDurable

LEMMA DurableStep == Typed /\ Durable /\ [Next \/ PowerLoss]_vars => Durable'
<1> SUFFICES ASSUME Typed, Durable, [Next \/ PowerLoss]_vars PROVE Durable'
  OBVIOUS
<1> USE JobsAssumption
    DEF Typed, TypeOK, InCall, Durable, CallIsDurable, CreatedAckIsDurable, Settled,
        fileVars, catalogVars, auxVars, Goto
<1>1. ASSUME NEW w \in Writer, CreateTemp(w) PROVE Durable'
  BY <1>1 DEF CreateTemp
<1>2. ASSUME NEW w \in Writer, RetryRegistration(w) PROVE Durable'
  BY <1>2 DEF RetryRegistration
<1>3. ASSUME NEW w \in Writer, TakeLease(w) PROVE Durable'
  BY <1>3 DEF TakeLease
<1>4. ASSUME NEW w \in Writer, LeaseRefused(w) PROVE Durable'
  BY <1>4 DEF LeaseRefused, AfterError
<1>5. ASSUME NEW w \in Writer, StreamTemp(w) PROVE Durable'
  BY <1>5 DEF StreamTemp
<1>6. ASSUME NEW w \in Writer, StreamFails(w) PROVE Durable'
  BY <1>6 DEF StreamFails
<1>7. ASSUME NEW w \in Writer, ProbeFinal(w) PROVE Durable'
  BY <1>7 DEF ProbeFinal, Publish
<1>8. ASSUME NEW w \in Writer, LinkFinal(w) PROVE Durable'
  BY <1>8 DEF LinkFinal, Publish
<1>9. ASSUME NEW w \in Writer, SyncFinal(w) PROVE Durable'
  BY <1>9 DEF SyncFinal
<1>10. ASSUME NEW w \in Writer, SyncFails(w) PROVE Durable'
  BY <1>10 DEF SyncFails
<1>11. ASSUME NEW w \in Writer, VerifyReceipt(w) PROVE Durable'
  BY <1>11 DEF VerifyReceipt
<1>12. ASSUME NEW w \in Writer, EnsureSource(w) PROVE Durable'
  BY <1>12 DEF EnsureSource
<1>13. ASSUME NEW w \in Writer, LookupAcquisition(w) PROVE Durable'
  BY <1>13 DEF LookupAcquisition
<1>14. ASSUME NEW w \in Writer, InsertObject(w) PROVE Durable'
  BY <1>14 DEF InsertObject
<1>15. ASSUME NEW w \in Writer, CommitAcquisition(w) PROVE Durable'
  BY <1>15 DEF CommitAcquisition
<1>16. ASSUME NEW w \in Writer, AcquisitionTaken(w) PROVE Durable'
  BY <1>16 DEF AcquisitionTaken
<1>17. ASSUME NEW w \in Writer, RegistrationBusy(w) PROVE Durable'
  BY <1>17 DEF RegistrationBusy
<1>18. ASSUME NEW w \in Writer, Close(w) PROVE Durable'
  BY <1>18 DEF Close, AfterError, DropTemp
<1>19. ASSUME NEW w \in Writer, Return(w) PROVE Durable'
  <2>1. CallIsDurable'
    BY <1>19 DEF Return, DropTemp
  <2>2. \A r \in acked' : ~r.reused => store[r.job.content] = "durable"
    <3>1. publication[w] = "reused" \/ store[job[w].content] = "durable"
      BY <1>19 DEF Return
    <3>2. ASSUME NEW b \in BOOLEAN, b <=> publication[w] = "reused", NEW r,
                 r = [job |-> job[w], reused |-> b]
          PROVE  ~r.reused => store[r.job.content] = "durable"
      BY <3>1, <3>2
    <3>3. \A r \in acked' : r \in acked \/ r = [job |-> job[w], reused |-> publication[w] = "reused"]
      BY <1>19 DEF Return
    <3> QED
      BY <3>2, <3>3
  <2> QED
    BY <1>19, <2>1, <2>2 DEF Return
<1>20. ASSUME NEW w \in Writer, LookupFailed(w) PROVE Durable'
  BY <1>20 DEF LookupFailed
<1>21. ASSUME NEW w \in Writer, CommitFailed(w) PROVE Durable'
  BY <1>21 DEF CommitFailed
<1>22. ASSUME NEW w \in Writer, FailedTaken(w) PROVE Durable'
  BY <1>22 DEF FailedTaken
<1>23. ASSUME NEW w \in Writer, FailureBusy(w) PROVE Durable'
  BY <1>23 DEF FailureBusy
<1>24. ASSUME NEW w \in Writer, Crash(w) PROVE Durable'
  BY <1>24 DEF Crash
<1>25. ASSUME NEW r \in Reconciler, StatEntry(r) PROVE Durable'
  BY <1>25 DEF StatEntry, writerVars
<1>26. ASSUME NEW r \in Reconciler, ProbeLease(r) PROVE Durable'
  BY <1>26 DEF ProbeLease, writerVars
<1>27. ASSUME NEW r \in Reconciler, ReleaseProbe(r) PROVE Durable'
  BY <1>27 DEF ReleaseProbe, writerVars
<1>28. ASSUME NEW r \in Reconciler, UnlinkEntry(r) PROVE Durable'
  BY <1>28 DEF UnlinkEntry, writerVars
<1>r. ASSUME NEW w \in Writer, ReadCatalog(w) PROVE Durable'
  BY <1>r DEF ReadCatalog, writerVars
<1>29. ASSUME NEW t \in Temp, GrowOld(t) PROVE Durable'
  BY <1>29 DEF GrowOld, writerVars
<1>30. CASE PowerLoss
  BY <1>30 DEF PowerLoss
<1>31. CASE UNCHANGED vars
  BY <1>31 DEF vars, writerVars
<1> QED
  BY <1>1, <1>2, <1>3, <1>4, <1>5, <1>6, <1>7, <1>8, <1>9, <1>10, <1>11, <1>12, <1>13,
     <1>14, <1>15, <1>16, <1>17, <1>18, <1>19, <1>20, <1>21, <1>22, <1>23, <1>24, <1>25,
     <1>26, <1>27, <1>28, <1>r, <1>29, <1>30, <1>31
     DEF Next, Call, Write, Reconcile

(* A returned PublishResult survives every power loss.                     *)
THEOREM CreatedAcksSurvive == PowerSpec => []CreatedAckIsDurable
<1>1. Init => Durable
  BY DEF Init, Durable, CallIsDurable, CreatedAckIsDurable, Settled
<1> QED
  BY TypedInit, TypedStep, <1>1, DurableStep, PTL DEF PowerSpec, Durable
-----------------------------------------------------------------------------
(***************************************************************************)
(* The lease protects the temp, when no temp is stale before it is leased. *)
(* A reconciler that has seen an entry unlocked unlinks it two calls later: *)
(* it may only do so because the entry was stale, hence past its lease.    *)
(***************************************************************************)
Holding == {"stream", "publish", "link"}

(* Each writer has a temp of its own, from mkstemp to the unlink.          *)
TempsHeld ==
  /\ \A v, w \in Writer : v # w => tmp[v] # tmp[w] \/ tmp[v] = None
  /\ \A w \in Writer : pc[w] \in {"idle", "fail_source", "fail_lookup", "fail_insert"} => tmp[w] = None
  /\ \A w \in Writer : pc[w] \in {"lease"} \cup Holding => tmp[w] \in Temp /\ temp[tmp[w]]
  /\ \A w \in Writer : pc[w] = "lease" => ~aged[tmp[w]] /\ lease[tmp[w]] # w
  /\ \A w \in Writer : pc[w] \in Holding => lease[tmp[w]] = w
  /\ \A t \in Temp, w \in Writer : lease[t] = w => tmp[w] = t

(* What a reconciler knows of the entry it is at.                          *)
EntriesKnown ==
  /\ \A r \in Reconciler : rpc[r] # "idle" => entry[r] \in Temp
  /\ \A r \in Reconciler : rpc[r] \in {"probing", "reprobing"} => lease[entry[r]] = r
  /\ \A r \in Reconciler : rpc[r] \in {"reprobe", "reprobing", "unlink"} => stale[r]
  /\ \A r \in Reconciler, w \in Writer : stale[r] /\ tmp[w] = entry[r] => pc[w] # "lease"
  /\ \A r \in Reconciler, w \in Writer :
       rpc[r] = "unlink" /\ tmp[w] = entry[r] => pc[w] \notin {"lease"} \cup Holding

LeaseInv == TempsHeld /\ EntriesKnown

LEMMA NoneApart ==
  /\ None \notin Writer /\ None \notin Reconciler /\ None \notin Temp
  /\ \A r \in Reconciler : r \notin Writer
BY NoneAssumption, ProcessAssumption DEF Process

(* A step of a call that touches no temp.                                  *)
LEMMA ElsewhereKeepsLeases ==
  ASSUME Typed, LeaseInv, NEW w \in Writer, UNCHANGED <<temp, aged, lease, tmp, reconcilerVars>>,
         \A v \in Writer \ {w} : pc'[v] = pc[v],
         pc'[w] # "lease", pc'[w] \in Holding => pc[w] \in Holding,
         pc'[w] \in {"idle", "fail_source", "fail_lookup", "fail_insert"} => tmp[w] = None
  PROVE  LeaseInv'
BY DEF LeaseInv, TempsHeld, EntriesKnown, Holding, reconcilerVars

(* The end of a call: its temp and its lease are given up.                 *)
LEMMA DropKeepsLeases ==
  ASSUME Typed, LeaseInv, NEW w \in Writer, UNCHANGED <<aged, reconcilerVars>>,
         \A v \in Writer \ {w} : pc'[v] = pc[v] /\ tmp'[v] = tmp[v],
         tmp'[w] = None, pc'[w] \notin {"lease"} \cup Holding,
         \A t \in Temp : lease'[t] = lease[t] \/ (lease[t] = w /\ lease'[t] = None),
         \A t \in Temp : lease'[t] # w,
         \A t \in Temp : temp'[t] = temp[t] \/ t = tmp[w]
  PROVE  LeaseInv'
<1> USE NoneApart DEF LeaseInv, Typed, TypeOK, reconcilerVars
<1>1. \A v \in Writer \ {w} : pc[v] \in {"lease"} \cup Holding => tmp[v] # tmp[w]
  BY DEF TempsHeld
<1>2. TempsHeld'
  BY <1>1 DEF TempsHeld, Holding
<1>3. EntriesKnown'
  BY DEF EntriesKnown, Holding
<1>4. QED
  BY <1>2, <1>3

LEMMA LeaseStep == ~EagerAge /\ Typed /\ LeaseInv /\ [Next \/ PowerLoss]_vars => LeaseInv'
<1> SUFFICES ASSUME ~EagerAge, Typed, LeaseInv, [Next \/ PowerLoss]_vars PROVE LeaseInv'
  OBVIOUS
<1>1. ASSUME NEW w \in Writer, CreateTemp(w) PROVE LeaseInv'
  <2>1. PICK t \in Temp :
          /\ pc[w] = "idle" /\ ~temp[t]
          /\ \A v \in Writer : tmp[v] # t
          /\ \A r \in Reconciler : entry[r] # t
          /\ tmp' = [tmp EXCEPT ![w] = t]
          /\ temp' = [temp EXCEPT ![t] = TRUE]
          /\ aged' = [aged EXCEPT ![t] = FALSE]
          /\ pc' = [pc EXCEPT ![w] = "lease"]
          /\ UNCHANGED <<lease, rpc, entry, stale>>
    BY <1>1 DEF CreateTemp, reconcilerVars
  <2>2. tmp[w] = None /\ \A u \in Temp : lease[u] # w
    BY <2>1, NoneApart DEF LeaseInv, TempsHeld
  <2>3. /\ tmp'[w] = t /\ pc'[w] = "lease" /\ temp'[t] /\ ~aged'[t]
        /\ \A v \in Writer \ {w} : tmp'[v] = tmp[v] /\ pc'[v] = pc[v]
        /\ \A u \in Temp \ {t} : temp'[u] = temp[u] /\ aged'[u] = aged[u]
    BY <2>1 DEF Typed, TypeOK
  <2>4. TempsHeld'
    BY <2>1, <2>2, <2>3 DEF LeaseInv, TempsHeld, Holding
  <2>5. EntriesKnown'
    BY <2>1, <2>3 DEF LeaseInv, EntriesKnown, Holding
  <2>6. QED
    BY <2>4, <2>5 DEF LeaseInv
<1>2. ASSUME NEW w \in Writer, TakeLease(w) PROVE LeaseInv'
  <2>1. PICK t \in Temp : t = tmp[w]
    BY <1>2 DEF TakeLease, LeaseInv, TempsHeld
  <2>2. /\ pc[w] = "lease" /\ lease[t] = None /\ lease' = [lease EXCEPT ![t] = w]
        /\ pc' = [pc EXCEPT ![w] = "stream"]
        /\ UNCHANGED <<temp, aged, tmp, rpc, entry, stale>>
    BY <1>2, <2>1 DEF TakeLease, Goto, reconcilerVars
  <2>3. /\ lease'[t] = w /\ pc'[w] = "stream"
        /\ \A u \in Temp \ {t} : lease'[u] = lease[u]
        /\ \A v \in Writer \ {w} : pc'[v] = pc[v]
    BY <2>2 DEF Typed, TypeOK
  <2>4. TempsHeld'
    BY <2>1, <2>2, <2>3, NoneApart DEF LeaseInv, TempsHeld, Holding
  <2>5. \A r \in Reconciler : rpc[r] \in {"probing", "reprobing"} => entry[r] # t
    BY <2>2, NoneApart DEF LeaseInv, EntriesKnown
  <2>6. \A r \in Reconciler : rpc[r] = "unlink" => entry[r] # t
    BY <2>1, <2>2 DEF LeaseInv, EntriesKnown
  <2>7. EntriesKnown'
    BY <2>1, <2>2, <2>3, <2>5, <2>6 DEF LeaseInv, EntriesKnown, Holding
  <2>8. QED
    BY <2>4, <2>7 DEF LeaseInv
<1>3. ASSUME NEW w \in Writer, LeaseRefused(w) PROVE LeaseInv'
  <2>1. tmp[w] \in Temp /\ \A t \in Temp : lease[t] # w
    BY <1>3 DEF LeaseRefused, LeaseInv, TempsHeld
  <2>2. /\ temp' = [temp EXCEPT ![tmp[w]] = FALSE]
        /\ tmp' = [tmp EXCEPT ![w] = None]
        /\ pc' = [pc EXCEPT ![w] = AfterError(w)]
        /\ UNCHANGED <<aged, lease, reconcilerVars>>
    BY <1>3 DEF LeaseRefused, Goto
  <2>3. AfterError(w) \in {"fail_source", "idle"}
    BY DEF AfterError
  <2>4. QED
    <3>1. /\ \A v \in Writer \ {w} : pc'[v] = pc[v] /\ tmp'[v] = tmp[v]
          /\ tmp'[w] = None /\ pc'[w] \notin {"lease"} \cup Holding
      BY <2>2, <2>3 DEF Typed, TypeOK, Holding
    <3>2. \A t \in Temp : temp'[t] = temp[t] \/ t = tmp[w]
      BY <2>1, <2>2 DEF Typed, TypeOK
    <3>3. /\ \A t \in Temp : lease'[t] = lease[t] /\ lease'[t] # w
          /\ UNCHANGED <<aged, reconcilerVars>>
      BY <2>1, <2>2
    <3>4. QED
      BY <3>1, <3>2, <3>3, DropKeepsLeases
<1>4. ASSUME NEW w \in Writer, StreamTemp(w) PROVE LeaseInv'
  <2>1. /\ pc[w] = "stream" /\ aged' = [aged EXCEPT ![tmp[w]] = FALSE]
        /\ pc' = [pc EXCEPT ![w] = "publish"]
        /\ UNCHANGED <<temp, lease, tmp, rpc, entry, stale>>
    BY <1>4 DEF StreamTemp, Goto, reconcilerVars
  <2>2. TempsHeld'
    BY <2>1 DEF LeaseInv, TempsHeld, Holding, Typed, TypeOK
  <2>3. EntriesKnown'
    BY <2>1 DEF LeaseInv, EntriesKnown, Holding, Typed, TypeOK
  <2>4. QED
    BY <2>2, <2>3 DEF LeaseInv
<1>5. ASSUME NEW w \in Writer, Close(w) \/ Return(w) PROVE LeaseInv'
  <2>1. DropTemp(w) /\ UNCHANGED <<aged, reconcilerVars>>
    BY <1>5 DEF Close, Return
  <2>2. \A v \in Writer \ {w} : pc'[v] = pc[v] /\ tmp'[v] = tmp[v]
    BY <1>5 DEF Close, Return, DropTemp, Goto, Typed, TypeOK
  <2>3. tmp'[w] = None /\ pc'[w] \in {"fail_source", "idle"}
    BY <1>5 DEF Close, Return, DropTemp, Goto, AfterError, Typed, TypeOK
  <2>4. \A t \in Temp : lease[t] = w => t = tmp[w]
    BY DEF LeaseInv, TempsHeld
  <2>5. /\ \A t \in Temp : lease'[t] = lease[t] \/ (lease[t] = w /\ lease'[t] = None)
        /\ \A t \in Temp : lease'[t] # w
        /\ \A t \in Temp : temp'[t] = temp[t] \/ t = tmp[w]
    <3>1. \A t \in Temp : lease'[t] = IF t = tmp[w] /\ lease[t] = w THEN None ELSE lease[t]
      BY <2>1 DEF DropTemp
    <3>2. \A t \in Temp : temp'[t] = (temp[t] /\ t # tmp[w])
      BY <2>1 DEF DropTemp
    <3>3. \A t \in Temp : temp'[t] = temp[t] \/ t = tmp[w]
      BY <3>2 DEF Typed, TypeOK
    <3>4. \A t \in Temp : (lease'[t] = lease[t] \/ (lease[t] = w /\ lease'[t] = None)) /\ lease'[t] # w
      BY <2>4, <3>1, NoneApart
    <3>5. QED
      BY <3>3, <3>4
  <2>6. QED
    BY <2>1, <2>2, <2>3, <2>5, DropKeepsLeases DEF Holding
<1>6. ASSUME NEW w \in Writer, Crash(w) PROVE LeaseInv'
  <2>1. /\ \A v \in Writer \ {w} : pc'[v] = pc[v] /\ tmp'[v] = tmp[v]
        /\ tmp'[w] = None /\ pc'[w] = "idle"
        /\ UNCHANGED <<temp, aged, reconcilerVars>>
    BY <1>6 DEF Crash, Goto, Typed, TypeOK
  <2>2. /\ \A t \in Temp : lease'[t] = lease[t] \/ (lease[t] = w /\ lease'[t] = None)
        /\ \A t \in Temp : lease'[t] # w
    <3>1. \A t \in Temp : lease'[t] = IF lease[t] = w THEN None ELSE lease[t]
      BY <1>6 DEF Crash
    <3>2. QED
      BY <3>1, NoneApart
  <2>3. QED
    BY <2>1, <2>2, DropKeepsLeases DEF Holding
<1>7. CASE PowerLoss
  BY <1>7, NoneApart DEF PowerLoss, LeaseInv, TempsHeld, EntriesKnown, Holding
<1>8. ASSUME NEW w \in Writer,
             \/ RetryRegistration(w) \/ StreamFails(w) \/ ProbeFinal(w) \/ LinkFinal(w) \/ SyncFinal(w)
             \/ SyncFails(w) \/ VerifyReceipt(w) \/ EnsureSource(w) \/ LookupAcquisition(w)
             \/ InsertObject(w) \/ CommitAcquisition(w) \/ AcquisitionTaken(w) \/ RegistrationBusy(w)
             \/ LookupFailed(w) \/ CommitFailed(w) \/ FailedTaken(w) \/ FailureBusy(w)
      PROVE  LeaseInv'
  <2>1. UNCHANGED <<temp, aged, lease, tmp, reconcilerVars>>
    BY <1>8 DEF RetryRegistration, StreamFails, ProbeFinal, LinkFinal, SyncFinal, SyncFails, VerifyReceipt,
       EnsureSource, LookupAcquisition, InsertObject, CommitAcquisition, AcquisitionTaken,
       RegistrationBusy, LookupFailed, CommitFailed, FailedTaken, FailureBusy, fileVars
  <2>2. /\ \A v \in Writer \ {w} : pc'[v] = pc[v]
        /\ pc'[w] # "lease" /\ (pc'[w] \in Holding => pc[w] \in Holding)
        /\ pc'[w] \in {"idle", "fail_source", "fail_lookup", "fail_insert"}
             => pc[w] \in {"fail_source", "fail_lookup", "fail_insert"}
    BY <1>8 DEF RetryRegistration, StreamFails, ProbeFinal, LinkFinal, SyncFinal, SyncFails, VerifyReceipt,
       EnsureSource, LookupAcquisition, InsertObject, CommitAcquisition, AcquisitionTaken,
       RegistrationBusy, LookupFailed, CommitFailed, FailedTaken, FailureBusy, Goto, Publish, Holding,
       Typed, TypeOK
  <2>3. QED
    BY <2>1, <2>2, ElsewhereKeepsLeases DEF LeaseInv, TempsHeld
<1>9. CASE \E w \in Writer : ReadCatalog(w)
  BY <1>9 DEF ReadCatalog, fileVars, writerVars, reconcilerVars, LeaseInv, TempsHeld, EntriesKnown, Holding
<1>10. ASSUME NEW r \in Reconciler, StatEntry(r) PROVE LeaseInv'
  <2>1. PICK t \in Temp :
          /\ temp[t] /\ entry' = [entry EXCEPT ![r] = t]
          /\ stale' = [stale EXCEPT ![r] = aged[t]]
          /\ rpc' = [rpc EXCEPT ![r] = "probe"]
          /\ UNCHANGED <<temp, aged, lease, pc, tmp>>
    BY <1>10 DEF StatEntry, fileVars, writerVars
  <2>2. \A w \in Writer : aged[t] /\ tmp[w] = t => pc[w] # "lease"
    BY DEF LeaseInv, TempsHeld
  <2>3. TempsHeld'
    BY <2>1 DEF LeaseInv, TempsHeld
  <2>4. /\ entry'[r] = t /\ stale'[r] = aged[t] /\ rpc'[r] = "probe"
        /\ \A q \in Reconciler \ {r} : entry'[q] = entry[q] /\ stale'[q] = stale[q] /\ rpc'[q] = rpc[q]
    BY <2>1 DEF Typed, TypeOK
  <2>5. EntriesKnown'
    BY <2>1, <2>2, <2>4 DEF LeaseInv, EntriesKnown, Holding
  <2>6. QED
    BY <2>3, <2>5 DEF LeaseInv
<1>11. ASSUME NEW r \in Reconciler, ProbeLease(r) \/ ReleaseProbe(r) PROVE LeaseInv'
  <2>1. /\ UNCHANGED <<temp, aged, pc, tmp>> /\ rpc[r] # "idle"
        /\ \A q \in Reconciler \ {r} : entry'[q] = entry[q] /\ stale'[q] = stale[q] /\ rpc'[q] = rpc[q]
    BY <1>11 DEF ProbeLease, ReleaseProbe, Advance, Leave, writerVars, Typed, TypeOK
  <2>2. PICK t \in Temp : t = entry[r]
    BY <2>1 DEF LeaseInv, EntriesKnown
  <2>3. \/ lease' = lease /\ rpc'[r] \notin {"probing", "reprobing"}
        \/ lease[t] = None /\ lease' = [lease EXCEPT ![t] = r] /\ rpc'[r] # "unlink"
        \/ lease[t] = r /\ lease' = [lease EXCEPT ![t] = None] /\ rpc'[r] \notin {"probing", "reprobing"}
    BY <1>11, <2>2 DEF ProbeLease, ReleaseProbe, Advance, Leave, Typed, TypeOK, LeaseInv, EntriesKnown
  <2>4. /\ r \notin Writer /\ None \notin Writer /\ None # r
        /\ \A u \in Temp \ {t} : lease'[u] = lease[u]
        /\ lease'[t] = lease[t] \/ (lease[t] \notin Writer /\ lease'[t] \notin Writer)
    <3>1. r \notin Writer /\ None \notin Writer /\ None # r
      BY NoneApart
    <3>2. \A u \in Temp \ {t} : lease'[u] = lease[u]
      BY <2>3 DEF Typed, TypeOK
    <3>3. lease'[t] = lease[t] \/ (lease[t] \notin Writer /\ lease'[t] \notin Writer)
      <4>1. lease \in [Temp -> Process \cup {None}]
        BY DEF Typed, TypeOK
      <4>2. CASE lease[t] = None /\ lease' = [lease EXCEPT ![t] = r]
        BY <3>1, <4>1, <4>2
      <4>3. CASE lease[t] = r /\ lease' = [lease EXCEPT ![t] = None]
        BY <3>1, <4>1, <4>3
      <4>4. QED
        BY <2>3, <4>2, <4>3
    <3>4. QED
      BY <3>1, <3>2, <3>3
  <2>5. TempsHeld'
    BY <2>1, <2>4 DEF LeaseInv, TempsHeld, Holding
  <2>6. /\ rpc'[r] # "idle" => entry'[r] = t /\ stale'[r] = stale[r]
        /\ rpc'[r] = "idle" => ~stale'[r]
        /\ rpc'[r] \in {"reprobe", "reprobing", "unlink"} => stale[r]
    BY <1>11, <2>2 DEF ProbeLease, ReleaseProbe, Advance, Leave, Typed, TypeOK, LeaseInv, EntriesKnown
  <2>7. rpc'[r] \in {"probing", "reprobing"} => lease'[t] = r
    BY <2>3 DEF Typed, TypeOK
  <2>8. \A q \in Reconciler \ {r} : rpc[q] \in {"probing", "reprobing"} => lease'[entry[q]] = q
    BY <2>3, <2>4, NoneApart DEF LeaseInv, EntriesKnown
  <2>9. rpc'[r] = "unlink" => \A w \in Writer : tmp[w] = t => pc[w] \notin {"lease"} \cup Holding
    <3> SUFFICES ASSUME rpc'[r] = "unlink", NEW w \in Writer, tmp[w] = t
                 PROVE  pc[w] \notin {"lease"} \cup Holding
      OBVIOUS
    <3>1. pc[w] # "lease"
      BY <2>2, <2>6 DEF LeaseInv, EntriesKnown
    <3>2. ~temp[t] \/ lease[t] = r
      BY <1>11, <2>2 DEF ProbeLease, ReleaseProbe, Leave, Typed, TypeOK, LeaseInv, EntriesKnown
    <3>3. pc[w] \in Holding => temp[t] /\ lease[t] = w
      BY DEF LeaseInv, TempsHeld
    <3>4. QED
      BY <2>4, <3>1, <3>2, <3>3
  <2>10. EntriesKnown'
    <3>1. \A q \in Reconciler : rpc'[q] # "idle" => entry'[q] \in Temp
      BY <2>1, <2>6 DEF LeaseInv, EntriesKnown
    <3>2. \A q \in Reconciler : rpc'[q] \in {"probing", "reprobing"} => lease'[entry'[q]] = q
      BY <2>1, <2>6, <2>7, <2>8
    <3>3. \A q \in Reconciler : rpc'[q] \in {"reprobe", "reprobing", "unlink"} => stale'[q]
      BY <2>1, <2>6 DEF LeaseInv, EntriesKnown
    <3>4. \A q \in Reconciler, w \in Writer : stale'[q] /\ tmp'[w] = entry'[q] => pc'[w] # "lease"
      BY <2>1, <2>2, <2>6 DEF LeaseInv, EntriesKnown
    <3>5. \A q \in Reconciler, w \in Writer :
            rpc'[q] = "unlink" /\ tmp'[w] = entry'[q] => pc'[w] \notin {"lease"} \cup Holding
      BY <2>1, <2>6, <2>9 DEF LeaseInv, EntriesKnown
    <3>6. QED
      BY <3>1, <3>2, <3>3, <3>4, <3>5 DEF EntriesKnown, Holding
  <2>11. QED
    BY <2>5, <2>10 DEF LeaseInv
<1>12. ASSUME NEW r \in Reconciler, UnlinkEntry(r) PROVE LeaseInv'
  <2>1. /\ rpc[r] = "unlink" /\ temp' = [temp EXCEPT ![entry[r]] = FALSE]
        /\ Leave(r) /\ UNCHANGED <<aged, lease, pc, tmp>>
    BY <1>12 DEF UnlinkEntry, writerVars
  <2>2. TempsHeld'
    BY <2>1 DEF LeaseInv, TempsHeld, EntriesKnown, Holding, Typed, TypeOK
  <2>3. EntriesKnown'
    BY <2>1 DEF LeaseInv, EntriesKnown, Holding, Leave, Typed, TypeOK
  <2>4. QED
    BY <2>2, <2>3 DEF LeaseInv
<1>13. ASSUME NEW t \in Temp, GrowOld(t) PROVE LeaseInv'
  BY <1>13 DEF GrowOld, writerVars, reconcilerVars, LeaseInv, TempsHeld, EntriesKnown, Holding, Typed, TypeOK
<1>14. CASE UNCHANGED vars
  BY <1>14 DEF vars, fileVars, writerVars, reconcilerVars, LeaseInv, TempsHeld, EntriesKnown, Holding
<1>15. QED
  BY <1>1, <1>2, <1>3, <1>4, <1>5, <1>6, <1>7, <1>8, <1>9, <1>10, <1>11, <1>12, <1>13, <1>14
     DEF Next, Call, Write, Reconcile

(* No reconciler unlinks a temp that is being written or linked, through   *)
(* crashes and power losses, when min_age_seconds outlasts the time from   *)
(* mkstemp to flock.                                                       *)
THEOREM LeaseProtects == ~EagerAge /\ PowerSpec => []LeaseProtectsTemp
<1>1. Init => LeaseInv
  BY NoneApart DEF Init, LeaseInv, TempsHeld, EntriesKnown, Holding
<1>2. LeaseInv => LeaseProtectsTemp
  BY DEF LeaseInv, TempsHeld, Holding, LeaseProtectsTemp
<1>3. CASE EagerAge
  BY <1>3
<1>4. CASE ~EagerAge
  <2>1. Typed /\ LeaseInv /\ [Next \/ PowerLoss]_vars => LeaseInv'
    BY <1>4, LeaseStep
  <2>2. QED
    BY TypedInit, TypedStep, <1>1, <1>2, <2>1, PTL DEF PowerSpec
<1>5. QED
  BY <1>3, <1>4
=============================================================================
