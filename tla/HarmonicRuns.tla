---------------------------- MODULE HarmonicRuns ----------------------------
(***************************************************************************)
(* A run of acquisition/binance_usdm_harmonic_acquisition.py: run_acquire  *)
(* with its worker threads and bounded work queue, the run row it opens    *)
(* and finishes, and the publication of its receipt (complete_publication) *)
(* as receipt, locator, seal and head, with the recovery of an interrupted *)
(* run or publication when the next process binds the session.             *)
(*                                                                         *)
(* Facts are counted: `attempts` are the rows of the attempt table,        *)
(* `facts` those of completion, sidecar_fact, coinalyze_charge and         *)
(* charge_transition.  What the charges say is in HarmonicCharges.         *)
(***************************************************************************)
EXTENDS Naturals, Sequences, FiniteSets

CONSTANTS
  Thread,     \* worker threads (WORKER_CEILING)
  Items,      \* schedulable plan rows fed per run
  Capacity,   \* bound of the work queue (QUEUE_CEILING)
  MaxStarts,  \* bound: processes started
  MaxFacts    \* bound: fact rows

ASSUME RunAssumption ==
  /\ Items \in Nat /\ Capacity \in Nat \ {0} /\ MaxStarts \in Nat /\ MaxFacts \in Nat
  /\ IsFiniteSet(Thread)

VARIABLES
  recorded,  \* fact rows, by kind
  run,       \* run_metadata rows, each finished one with its run_publication
  receipts,  \* runs whose receipt is in the receipt directory
  locator,   \* locator of each run: absent, empty or written
  seals,     \* run_seal rows, oldest first
  head,      \* run the seal_head names; 0 is the installed plan receipt
  main,      \* where the process's main thread is
  after,     \* where it goes when the publication is complete
  target,    \* run it publishes
  at,        \* where each worker is
  work,      \* plan rows in the work queue
  pills,     \* None entries behind them
  fed,       \* rows and then None entries put
  calls,     \* counters.network_calls
  errors,    \* counters.errors
  stopping,  \* controls.stop_event
  refused,   \* why a session was refused
  starts

chainVars == <<recorded, run, receipts, locator, seals, head>>
poolVars == <<at, work, pills, fed, calls, errors, stopping>>
mainVars == <<main, after, target>>
runsVars == <<chainVars, mainVars, poolVars, refused, starts>>

Zero == [attempts |-> 0, facts |-> 0]

(* The marks each sealed run covers.                                       *)
Covered == [k \in 1..Len(seals) |-> [from |-> run[seals[k]].start, to |-> run[seals[k]].end]]

Chain == INSTANCE ReceiptChain WITH chain <- Covered

(* Marks of the head, from its receipt.                                    *)
HeadMarks == IF head = 0 THEN Zero ELSE run[head].end

LastSeal == IF seals = <<>> THEN 0 ELSE seals[Len(seals)]
Unfinished == {r \in DOMAIN run : ~run[r].ended}
Sealed == {seals[k] : k \in DOMAIN seals}
Unsealed == {r \in DOMAIN run : run[r].ended /\ r \notin Sealed}

NoPool ==
  /\ at = [w \in Thread |-> "none"]
  /\ work = 0 /\ pills = 0 /\ fed = 0
  /\ calls = 0 /\ errors = 0 /\ stopping = FALSE

RunsInit ==
  /\ recorded = Zero
  /\ run = <<>>
  /\ receipts = {}
  /\ locator = [r \in 1..MaxStarts |-> "absent"]
  /\ seals = <<>>
  /\ head = 0
  /\ main = "down" /\ after = "down" /\ target = 0
  /\ NoPool
  /\ refused = "no"
  /\ starts = 0
-----------------------------------------------------------------------------
(* The process dies or exits: threads and counters are gone, the flock is  *)
(* free.                                                                   *)
Exit ==
  /\ main' = "down" /\ after' = "down" /\ target' = 0
  /\ at' = [w \in Thread |-> "none"]
  /\ work' = 0 /\ pills' = 0 /\ fed' = 0
  /\ calls' = 0 /\ errors' = 0 /\ stopping' = FALSE

Refuse(why) ==
  /\ refused' = why
  /\ Exit
  /\ UNCHANGED <<chainVars, starts>>

SessionDies ==
  /\ main # "down"
  /\ Exit
  /\ UNCHANGED <<chainVars, refused, starts>>

BeginPublication(r, next) == main' = "receipt" /\ target' = r /\ after' = next
Move(next) == main' = next /\ UNCHANGED <<after, target>>

(* bind_session: one process at a time (flock LOCK_EX).                    *)
Bind ==
  /\ main = "down" /\ starts < MaxStarts
  /\ starts' = starts + 1
  /\ Move("recover_head")
  /\ refused' = "no"
  /\ UNCHANGED <<chainVars, poolVars>>

(* The head and every seal before it have their receipts (authenticate_prefix). *)
Authentic ==
  /\ head = 0 \/ head \in Sealed
  /\ \A r \in Sealed : r <= head => r \in receipts

(* Mutation: a run without a seal is not resumed.                          *)
RecoverHead_SkipsUnsealed ==
  /\ main = "recover_head"
  /\ IF head = LastSeal THEN Move("recover_run") ELSE BeginPublication(LastSeal, "recover_run")
  /\ UNCHANGED <<chainVars, poolVars, refused, starts>>

(* authenticate_prefix and _recover_published_receipt_head.                *)
RecoverHead ==
  /\ main = "recover_head"
  /\ IF ~Authentic \/ Cardinality(Unsealed) > 1 THEN Refuse("ambiguous")
     ELSE /\ IF Unsealed # {} THEN \E r \in Unsealed : BeginPublication(r, "recover_run")
             ELSE IF head = LastSeal THEN Move("recover_run")
             ELSE BeginPublication(LastSeal, "recover_run")
          /\ UNCHANGED <<chainVars, poolVars, refused, starts>>

(* Finish r: the row ends at the current marks and the receipt body is     *)
(* stored in the same transaction (finish_run).                            *)
Finish(r) ==
  /\ run[r].start = HeadMarks
  /\ run' = [run EXCEPT ![r] = [start |-> run[r].start, end |-> recorded, ended |-> TRUE,
                                errors |-> run[r].errors, pred |-> head]]
  /\ UNCHANGED <<recorded, receipts, locator, seals, head>>

(* _recover_unfinished_run, _finalize_interrupted_run.                     *)
RecoverRun ==
  /\ main = "recover_run"
  /\ IF Cardinality(Unfinished) > 1 \/ \E r \in Unfinished : run[r].start # HeadMarks
     THEN Refuse("ambiguous")
     ELSE /\ IF Unfinished = {} THEN Move("begin") /\ UNCHANGED chainVars
             ELSE \E r \in Unfinished : Finish(r) /\ BeginPublication(r, "begin")
          /\ UNCHANGED <<poolVars, refused, starts>>
-----------------------------------------------------------------------------
(* complete_publication, one durable effect at a time.                     *)

PublishReceipt ==
  /\ main = "receipt"
  /\ receipts' = receipts \cup {target}
  /\ Move("locator")
  /\ UNCHANGED <<recorded, run, locator, seals, head, poolVars, refused, starts>>

(* Mutation: an existing locator is taken for written.                     *)
CreateLocator_Trusts ==
  /\ main = "locator"
  /\ locator' = [locator EXCEPT ![target] = IF @ = "absent" THEN "empty" ELSE @]
  /\ Move(IF locator[target] = "absent" THEN "fill" ELSE "seal")
  /\ UNCHANGED <<recorded, run, receipts, seals, head, poolVars, refused, starts>>

(* write_run_locator: created under its final name, then written.          *)
CreateLocator ==
  /\ main = "locator"
  /\ locator[target] # "empty"
  /\ locator' = [locator EXCEPT ![target] = IF @ = "absent" THEN "empty" ELSE @]
  /\ Move(IF locator[target] = "absent" THEN "fill" ELSE "seal")
  /\ UNCHANGED <<recorded, run, receipts, seals, head, poolVars, refused, starts>>

(* An existing locator with another body is malformed.                     *)
LocatorRefused == main = "locator" /\ locator[target] = "empty" /\ Refuse("locator")

FillLocator ==
  /\ main = "fill"
  /\ locator' = [locator EXCEPT ![target] = "written"]
  /\ Move("seal")
  /\ UNCHANGED <<recorded, run, receipts, seals, head, poolVars, refused, starts>>

(* The write or its fsync raises: the locator is unlinked.                 *)
FillFails ==
  /\ main = "fill"
  /\ locator' = [locator EXCEPT ![target] = "absent"]
  /\ Exit
  /\ UNCHANGED <<recorded, run, receipts, seals, head, refused, starts>>

(* Mutation: a seal that is there is inserted again.                       *)
InsertSeal_Twice ==
  /\ main = "seal"
  /\ seals' = Append(seals, target)
  /\ Move("head")
  /\ UNCHANGED <<recorded, run, receipts, locator, head, poolVars, refused, starts>>

InsertSeal ==
  /\ main = "seal"
  /\ seals' = IF target \in Sealed THEN seals ELSE Append(seals, target)
  /\ Move("head")
  /\ UNCHANGED <<recorded, run, receipts, locator, head, poolVars, refused, starts>>

(* Mutation: the head follows the seal without looking at its predecessor  *)
(* and stays where it is when the publication was resumed.                 *)
AdvanceHead_Once ==
  /\ main = "head"
  /\ head' = IF after = "exit" THEN target ELSE head
  /\ Move(after)
  /\ UNCHANGED <<recorded, run, receipts, locator, seals, poolVars, refused, starts>>

(* advance_seal: compare and set on the predecessor.                       *)
AdvanceHead ==
  /\ main = "head"
  /\ IF head \notin {target, run[target].pred} THEN Refuse("head")
     ELSE /\ head' = target
          /\ Move(after)
          /\ UNCHANGED <<recorded, run, receipts, locator, seals, poolVars, refused, starts>>
-----------------------------------------------------------------------------
(* begin_run after _require_runnable_head.                                 *)
BeginRun ==
  /\ main = "begin"
  /\ Unfinished = {} /\ recorded = HeadMarks
  /\ run' = Append(run, [start |-> HeadMarks, end |-> HeadMarks, ended |-> FALSE,
                         errors |-> 0, pred |-> head])
  /\ Move("prepare")
  /\ UNCHANGED <<recorded, receipts, locator, seals, head, poolVars, refused, starts>>

TailRefused ==
  /\ main = "begin"
  /\ Unfinished # {} \/ recorded # HeadMarks
  /\ Refuse("tail")

AddFact == recorded' = [attempts |-> recorded.attempts, facts |-> recorded.facts + 1]
AddAttempt == recorded' = [attempts |-> recorded.attempts + 1, facts |-> recorded.facts]
Room == recorded.attempts + recorded.facts < MaxFacts

(* reconcile_open_charges and adopt_retained, then the workers start.      *)
Prepare ==
  /\ main = "prepare"
  /\ \/ Room /\ AddFact /\ Move("prepare") /\ UNCHANGED at
     \/ at' = [w \in Thread |-> "get"] /\ Move("feed") /\ UNCHANGED recorded
  /\ UNCHANGED <<run, receipts, locator, seals, head, work, pills, fed, calls, errors, stopping,
                 refused, starts>>

(* The feeder blocks while the queue is full.                              *)
Feed ==
  /\ main = "feed"
  /\ \/ /\ fed < Items /\ ~stopping
        /\ work + pills < Capacity
        /\ work' = work + 1 /\ fed' = fed + 1
        /\ UNCHANGED mainVars
     \/ /\ fed = Items \/ stopping
        /\ Move("pills") /\ fed' = 0
        /\ UNCHANGED work
  /\ UNCHANGED <<chainVars, at, pills, calls, errors, stopping, refused, starts>>

PutPill ==
  /\ main = "pills"
  /\ \/ /\ fed < Cardinality(Thread)
        /\ work + pills < Capacity
        /\ pills' = pills + 1 /\ fed' = fed + 1
        /\ UNCHANGED mainVars
     \/ /\ fed = Cardinality(Thread)
        /\ Move("join")
        /\ UNCHANGED <<pills, fed>>
  /\ UNCHANGED <<chainVars, at, work, calls, errors, stopping, refused, starts>>

(* The joins end, or give up after 120 s each; then the coordinator stops  *)
(* and calls run in their callers.                                         *)
Join ==
  /\ main = "join"
  /\ Move("count")
  /\ UNCHANGED <<chainVars, poolVars, refused, starts>>

Current == Len(run)

(* network_calls against the durable attempts of this run.                 *)
Count ==
  /\ main = "count"
  /\ calls = recorded.attempts - run[Current].start.attempts
  /\ Move("finish")
  /\ UNCHANGED <<chainVars, poolVars, refused, starts>>

FinishRun ==
  /\ main = "finish"
  /\ calls = recorded.attempts - run[Current].start.attempts
  /\ errors = run[Current].errors
  /\ Finish(Current)
  /\ BeginPublication(Current, "exit")
  /\ UNCHANGED <<poolVars, refused, starts>>

(* A counter disagrees with the durable rows: UnsafeStateError leaves the  *)
(* run open for the next session.                                          *)
FinishRefused ==
  /\ \/ main \in {"count", "finish"} /\ calls # recorded.attempts - run[Current].start.attempts
     \/ main = "finish" /\ errors # run[Current].errors
  /\ Exit
  /\ UNCHANGED <<chainVars, refused, starts>>

EndProcess ==
  /\ main = "exit"
  /\ Exit
  /\ UNCHANGED <<chainVars, refused, starts>>
-----------------------------------------------------------------------------
(* Workers.  After the joins gave up they go on, until the process ends;   *)
(* complete_publication holds the state's lock.                            *)

LockHeld == main \in {"receipt", "locator", "fill", "seal", "head"}
Running == main \in {"feed", "pills", "join", "count", "finish"}

(* A row that is complete is proved again and skipped, as is any row after *)
(* a stop; the others make a request, unless a check fails first.          *)
TakeRow(w) ==
  /\ at[w] = "get" /\ work > 0
  /\ work' = work - 1
  /\ \/ UNCHANGED <<at, calls, errors>>
     \/ ~stopping /\ at' = [at EXCEPT ![w] = "called"] /\ calls' = calls + 1 /\ UNCHANGED errors
     \/ at' = [at EXCEPT ![w] = "erring"] /\ errors' = errors + 1 /\ UNCHANGED calls
  /\ UNCHANGED <<chainVars, mainVars, pills, fed, stopping, refused, starts>>

TakePill(w) ==
  /\ at[w] = "get" /\ work = 0 /\ pills > 0
  /\ pills' = pills - 1
  /\ at' = [at EXCEPT ![w] = "exited"]
  /\ UNCHANGED <<chainVars, mainVars, work, fed, calls, errors, stopping, refused, starts>>

(* request_with_retry: one attempt stands for its retries, each of which   *)
(* is counted and recorded in the same way.                                *)
RecordAttempt(w) ==
  /\ at[w] = "called" /\ ~LockHeld /\ Room
  /\ AddAttempt
  /\ \/ at' = [at EXCEPT ![w] = "recorded"] /\ UNCHANGED errors
     \/ at' = [at EXCEPT ![w] = "erring"] /\ errors' = errors + 1
  /\ UNCHANGED <<run, receipts, locator, seals, head, mainVars, work, pills, fed, calls, stopping,
                 refused, starts>>

(* Charges, transitions, a sidecar, then the completion.                   *)
RecordFact(w) ==
  /\ at[w] = "recorded" /\ ~LockHeld /\ Room
  /\ AddFact
  /\ at' \in {at, [at EXCEPT ![w] = "get"]}
  /\ UNCHANGED <<run, receipts, locator, seals, head, mainVars, work, pills, fed, calls, errors,
                 stopping, refused, starts>>

(* A refused body, a failed publication, a coordinator that did not answer. *)
WorkFails(w) ==
  /\ at[w] \in {"called", "recorded"}
  /\ at' = [at EXCEPT ![w] = "erring"]
  /\ errors' = errors + 1
  /\ UNCHANGED <<chainVars, mainVars, work, pills, fed, calls, stopping, refused, starts>>

(* SQLite fails: the exception nobody expected, which stops the run and    *)
(* counts no error.                                                        *)
WriteFails(w) ==
  /\ at[w] \in {"called", "recorded"}
  /\ at' = [at EXCEPT ![w] = "get"]
  /\ stopping' = TRUE
  /\ UNCHANGED <<chainVars, mainVars, work, pills, fed, calls, errors, refused, starts>>

Erring(r) == [start |-> r.start, end |-> r.end, ended |-> r.ended, errors |-> r.errors + 1,
              pred |-> r.pred]

(* Mutation: the worker leaves its loop after an error.                    *)
NoteError_Leaves(w) ==
  /\ at[w] = "erring" /\ Running
  /\ run' = [run EXCEPT ![Current] = Erring(run[Current])]
  /\ at' = [at EXCEPT ![w] = "exited"]
  /\ stopping' \in {stopping, TRUE}
  /\ UNCHANGED <<recorded, receipts, locator, seals, head, mainVars, work, pills, fed, calls,
                 errors, refused, starts>>

(* note_run_error, and request_stop unless the error was a plain one.      *)
NoteError(w) ==
  /\ at[w] = "erring" /\ Running
  /\ run' = [run EXCEPT ![Current] = Erring(run[Current])]
  /\ at' = [at EXCEPT ![w] = "get"]
  /\ stopping' \in {stopping, TRUE}
  /\ UNCHANGED <<recorded, receipts, locator, seals, head, mainVars, work, pills, fed, calls,
                 errors, refused, starts>>

(* note_run_error raises, on an SQLite error or because the run is no      *)
(* longer open: the exception leaves the handler and the thread ends.      *)
NoteErrorFails(w) ==
  /\ at[w] = "erring"
  /\ at' = [at EXCEPT ![w] = "dead"]
  /\ UNCHANGED <<chainVars, mainVars, work, pills, fed, calls, errors, stopping, refused, starts>>
-----------------------------------------------------------------------------
Session == Bind \/ SessionDies

Main ==
  \/ RecoverHead \/ RecoverRun
  \/ PublishReceipt \/ CreateLocator \/ LocatorRefused \/ FillLocator \/ FillFails
  \/ InsertSeal \/ AdvanceHead
  \/ BeginRun \/ TailRefused \/ Prepare \/ Feed \/ PutPill \/ Join
  \/ Count \/ FinishRun \/ FinishRefused \/ EndProcess

ThreadStep(w) ==
  \/ TakeRow(w) \/ TakePill(w) \/ RecordAttempt(w) \/ RecordFact(w)
  \/ WorkFails(w) \/ WriteFails(w) \/ NoteError(w) \/ NoteErrorFails(w)

RunsNext == Session \/ Main \/ \E w \in Thread : ThreadStep(w)

RunsSpec == RunsInit /\ [][RunsNext]_runsVars

(* A live process keeps running its threads; nobody has to start one.      *)
FairRunsSpec == RunsSpec /\ WF_runsVars(Main) /\ \A w \in Thread : WF_runsVars(ThreadStep(w))
-----------------------------------------------------------------------------
Run == [start : Chain!Marks, end : Chain!Marks, ended : BOOLEAN, errors : Nat, pred : Nat]

RunsTypeOK ==
  /\ recorded \in Chain!Marks
  /\ run \in Seq(Run)
  /\ receipts \in SUBSET Nat
  /\ locator \in [1..MaxStarts -> {"absent", "empty", "written"}]
  /\ seals \in Seq(Nat)
  /\ head \in Nat /\ target \in Nat
  /\ {main, after} \subseteq {"down", "recover_head", "recover_run", "receipt", "locator", "fill",
       "seal", "head", "begin", "prepare", "feed", "pills", "join", "count", "finish", "exit"}
  /\ at \in [Thread -> {"none", "get", "called", "recorded", "erring", "exited", "dead"}]
  /\ {work, pills, fed, calls, errors, starts} \subseteq Nat
  /\ stopping \in BOOLEAN
  /\ refused \in {"no", "ambiguous", "locator", "head", "tail"}

(* Every seal covers a finished run that starts where the run sealed       *)
(* before it ends, and the receipt and the locator of a sealed run are in  *)
(* their directory: no crash leaves a seal without evidence (finish_run,   *)
(* complete_publication).                                                  *)
SealsRestOnEvidence ==
  \A k \in DOMAIN seals :
    /\ run[seals[k]].ended
    /\ seals[k] \in receipts /\ locator[seals[k]] = "written"
    /\ run[seals[k]].pred = IF k = 1 THEN 0 ELSE seals[k - 1]

(* The head is the last seal, or the one before while a publication or a   *)
(* recovery is due; at most one run is unfinished or unsealed.             *)
OneRunAtStake ==
  /\ \/ head = LastSeal
     \/ LastSeal # 0 /\ Unfinished = {} /\ Unsealed = {} /\ head = run[LastSeal].pred
  /\ Cardinality(Unfinished \cup Unsealed) <= 1

(* A session is refused for a half-written locator or for facts behind the *)
(* last seal, never because recovery lost count of its own runs            *)
(* (authenticate_prefix, _require_runnable_head).                          *)
RefusalsAreDue ==
  [][refused' \notin {refused, "no"} =>
       \/ refused' = "locator" /\ locator[target] = "empty"
       \/ refused' = "tail" /\ Unfinished = {} /\ Unsealed = {} /\ recorded # HeadMarks]_runsVars

(* The sealed runs are a chain that covers every fact once.                *)
ImplementsChain == Chain!Spec

(* While no thread dies of its own error handler, a process ends: the      *)
(* bounded queue, the None entries and the joins do not block each other.  *)
RunEnds == [](\A w \in Thread : at[w] # "dead") => (main # "down" ~> main = "down")
=============================================================================
