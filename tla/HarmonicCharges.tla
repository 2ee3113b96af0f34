--------------------------- MODULE HarmonicCharges ---------------------------
(***************************************************************************)
(* The Coinalyze budget of acquisition/binance_usdm_harmonic_acquisition.py: *)
(* workers that fetch, charge, publish and complete a planned request      *)
(* (acquire_coinalyze_liquidation), the coordinator that applies their     *)
(* calls to the SQLite state (Coordinator, AcquisitionState), and the      *)
(* reconciliation of charges an interrupted run left (reconcile_open_charges). *)
(*                                                                         *)
(* One process holds the flock on the state, so runs follow each other.  A *)
(* charge here is the newest generation of its request: reserve_charge     *)
(* opens a new generation only after the last one was released.            *)
(***************************************************************************)
EXTENDS Integers, Sequences, FiniteSets, FiniteSetsExt

CONSTANTS
  Worker, Identity, Content, Size, Ceiling, None,  \* see ChargeLedger
  MaxRuns  \* bound: runs started

ASSUME ChargeAssumption ==
  /\ Size \in [Content -> Nat]
  /\ Ceiling \in Nat /\ MaxRuns \in Nat
  /\ None \notin Worker \cup Identity \cup Content
  /\ \A i \in Identity, op \in {"mark", "complete", "release"} : None # [identity |-> i, op |-> op]

Charge == [content : Content, status : {"RESERVED", "PUBLISHED", "SETTLED", "RELEASED"}]
NoCharge == [content |-> None, status |-> "NONE"]

VARIABLES
  charge,     \* newest charge generation of each request and its latest transition
  ledger,     \* coinalyze_ledger.charged
  completion, \* content of each completion row, or None
  store,      \* content addresses: absent, or present in the content store
  phase,      \* of the run: down, reconcile, work, closing (stop requested), closed
  handed,     \* requests the run has handed to a worker
  rec,        \* charge the reconciliation is at, with its next call
  passed,     \* requests behind the reconciliation's cursor
  step,       \* next call or file operation of a worker
  call,       \* its call: none, open (about to be queued), queued, ok or failed
  row,        \* its request
  body,       \* the validated response, in a private file
  allowance,  \* remaining bytes it was told
  queue,      \* the coordinator's queue
  runs

stateVars == <<charge, ledger, completion>>
runVars == <<phase, handed, rec, passed, runs>>
workerVars == <<step, call, row, body, allowance>>
vars == <<stateVars, store, runVars, workerVars, queue>>

(* The content each request is charged for (the ledger of Attributed).     *)
Paid == [i \in Identity |-> IF charge[i].status \in {"RESERVED", "PUBLISHED", "SETTLED"}
                            THEN charge[i].content ELSE None]

Budget == INSTANCE ChargeLedger WITH spent <- ledger, paid <- Paid, completed <- completion

Calls == {"remaining", "reserve", "mark", "complete", "release"}
Request == [from : Worker \cup {None}, op : Calls, identity : Identity,
            content : Content \cup {None}]
Stop == [from |-> None, op |-> "stop", identity |-> None, content |-> None]

Open(i) == charge[i].status \in {"RESERVED", "PUBLISHED"}
Counted == {i \in Identity : charge[i].status \notin {"NONE", "RELEASED"}}

(* SUM(charged_bytes) over the charges whose latest status is not RELEASED. *)
Attributed == MapThenSumSet(LAMBDA i : Size[charge[i].content], Counted)

Init ==
  /\ charge = [i \in Identity |-> NoCharge]
  /\ ledger = 0
  /\ completion = [i \in Identity |-> None]
  /\ store = {}
  /\ phase = "down"
  /\ handed = {}
  /\ rec = None
  /\ passed = {}
  /\ step = [w \in Worker |-> "idle"]
  /\ call = [w \in Worker |-> "none"]
  /\ row = [w \in Worker |-> None]
  /\ body = [w \in Worker |-> None]
  /\ allowance = [w \in Worker |-> 0]
  /\ queue = <<>>
  /\ runs = 0
-----------------------------------------------------------------------------
(* Transactions of AcquisitionState.                                       *)

SetStatus(i, s) == charge' = [charge EXCEPT ![i] = [content |-> charge[i].content, status |-> s]]

(* Mutation: the projected total is not compared with the ceiling.         *)
ReserveCharge_OverCeiling(i, c) ==
  /\ ledger = Attributed
  /\ charge[i].status \in {"NONE", "RELEASED"}
  /\ charge' = [charge EXCEPT ![i] = [content |-> c, status |-> "RESERVED"]]
  /\ ledger' = ledger + Size[c]
  /\ UNCHANGED completion

(* reserve_charge.  A charge that is still open would have to be the same  *)
(* descriptor, retrieval time included: only the call itself could match.  *)
ReserveCharge(i, c) ==
  /\ ledger = Attributed
  /\ charge[i].status \in {"NONE", "RELEASED"}
  /\ ledger + Size[c] <= Ceiling
  /\ charge' = [charge EXCEPT ![i] = [content |-> c, status |-> "RESERVED"]]
  /\ ledger' = ledger + Size[c]
  /\ UNCHANGED completion

MarkPublished(i) ==
  \/ charge[i].status = "RESERVED" /\ SetStatus(i, "PUBLISHED") /\ UNCHANGED <<ledger, completion>>
  \/ charge[i].status = "PUBLISHED" /\ UNCHANGED stateVars

(* Mutation: completion and settlement are not one transaction.            *)
CompleteAndSettle_Unsettled(i, c) ==
  /\ completion[i] = None
  /\ charge[i] = [content |-> c, status |-> "PUBLISHED"]
  /\ completion' = [completion EXCEPT ![i] = c]
  /\ UNCHANGED <<charge, ledger>>

(* complete with settle_charge.  Nobody completes a request twice, so the   *)
(* comparison with an existing completion is left out.                     *)
CompleteAndSettle(i, c) ==
  /\ completion[i] = None
  /\ charge[i] = [content |-> c, status |-> "PUBLISHED"]
  /\ SetStatus(i, "SETTLED")
  /\ completion' = [completion EXCEPT ![i] = c]
  /\ UNCHANGED ledger

(* release_charge: a published or settled charge is refused.               *)
ReleaseCharge(i) ==
  \/ /\ charge[i].status = "RESERVED"
     /\ ledger' = ledger - Size[charge[i].content]
     /\ SetStatus(i, "RELEASED")
     /\ UNCHANGED completion
  \/ charge[i].status \in {"NONE", "RELEASED"} /\ UNCHANGED stateVars

Apply(op, i, c) ==
  \/ op = "remaining" /\ ledger = Attributed /\ ledger <= Ceiling /\ UNCHANGED stateVars
  \/ op = "reserve" /\ ReserveCharge(i, c)
  \/ op = "mark" /\ MarkPublished(i)
  \/ op = "complete" /\ CompleteAndSettle(i, c)
  \/ op = "release" /\ ReleaseCharge(i)
-----------------------------------------------------------------------------
(* The run.                                                                *)

StartRun ==
  /\ phase = "down" /\ runs < MaxRuns
  /\ phase' = "reconcile"
  /\ runs' = runs + 1
  /\ UNCHANGED <<stateVars, store, handed, rec, passed, workerVars, queue>>

(* Mutation: a charge whose body is not in the store is completed.         *)
Recover_SkipsProbe(i) ==
  /\ phase = "reconcile" /\ rec = None
  /\ Open(i) /\ i \notin passed
  /\ passed' = passed \cup {i}
  /\ rec' = [identity |-> i,
             op |-> IF charge[i].status = "RESERVED" THEN "mark" ELSE "complete"]
  /\ UNCHANGED <<stateVars, store, phase, handed, runs, workerVars, queue>>

(* The next open charge of open_charge_batch, with the probe of its content *)
(* address: absent content is refunded, present content is completed.      *)
Recover(i) ==
  /\ phase = "reconcile" /\ rec = None
  /\ Open(i) /\ i \notin passed
  /\ passed' = passed \cup {i}
  /\ rec' = [identity |-> i,
             op |-> IF charge[i].content \notin store THEN "release"
                    ELSE IF charge[i].status = "RESERVED" THEN "mark" ELSE "complete"]
  /\ UNCHANGED <<stateVars, store, phase, handed, runs, workerVars, queue>>

(* The reconciliation's calls.  Nobody else calls the coordinator yet.  The *)
(* branch for a charge that has a completion already is left out: it is    *)
(* never taken (SettledIsCompleted).                                       *)
RecoverCall ==
  /\ rec # None
  /\ Apply(rec.op, rec.identity, charge[rec.identity].content)
  /\ rec' = IF rec.op = "mark" THEN [identity |-> rec.identity, op |-> "complete"] ELSE None
  /\ UNCHANGED <<store, phase, handed, passed, runs, workerVars, queue>>

(* Mutation: the run starts before every open charge was visited.          *)
BeginWork_Early ==
  /\ phase = "reconcile" /\ rec = None
  /\ ledger = Attributed
  /\ phase' = "work"
  /\ UNCHANGED <<stateVars, store, handed, rec, passed, runs, workerVars, queue>>

(* The batch after the cursor is empty and the ledger balances.            *)
BeginWork ==
  /\ phase = "reconcile" /\ rec = None
  /\ \A i \in Identity \ passed : ~Open(i)
  /\ ledger = Attributed
  /\ phase' = "work"
  /\ UNCHANGED <<stateVars, store, handed, rec, passed, runs, workerVars, queue>>

(* All rows are fed, or a signal or a bound requests the stop.             *)
RequestStop ==
  /\ phase = "work"
  /\ phase' = "closing"
  /\ UNCHANGED <<stateVars, store, handed, rec, passed, runs, workerVars, queue>>

(* Coordinator.stop, after workers have ended or 120 s of waiting for each: *)
(* from here on calls run in their caller, but for those that saw the      *)
(* coordinator open just before.                                           *)
StopCoordinator ==
  /\ phase = "closing"
  /\ phase' = "closed"
  /\ queue' = Append(queue, Stop)
  /\ UNCHANGED <<stateVars, store, handed, rec, passed, runs, workerVars>>

(* What the end of the process leaves.                                     *)
ProcessEnds ==
  /\ phase' = "down"
  /\ rec' = None
  /\ step' = [w \in Worker |-> "idle"]
  /\ call' = [w \in Worker |-> "none"]
  /\ row' = [w \in Worker |-> None]
  /\ body' = [w \in Worker |-> None]
  /\ allowance' = [w \in Worker |-> 0]
  /\ queue' = <<>>
  /\ handed' = {} /\ passed' = {}
  /\ UNCHANGED <<stateVars, store, runs>>

(* The coordinator has reached its sentinel; the run is sealed and the     *)
(* process exits, with workers that have not settled.                      *)
EndRun == phase = "closed" /\ Head(queue) = Stop /\ ProcessEnds

(* The process is killed, or an exception leaves run_acquire early.        *)
Crash == phase # "down" /\ ProcessEnds
-----------------------------------------------------------------------------
(* Workers.                                                                *)

(* A row without completion, each handed out once per run.                 *)
Take(w, i) ==
  /\ phase = "work" /\ step[w] = "idle"
  /\ completion[i] = None /\ i \notin handed
  /\ handed' = handed \cup {i}
  /\ row' = [row EXCEPT ![w] = i]
  /\ step' = [step EXCEPT ![w] = "remaining"]
  /\ UNCHANGED <<stateVars, store, phase, rec, passed, runs, call, body, allowance, queue>>

(* Coordinator.call: the caller looks at _closed, then puts its request.   *)
LookClosed(w) ==
  /\ step[w] \in Calls /\ call[w] = "none" /\ phase # "closed"
  /\ call' = [call EXCEPT ![w] = "open"]
  /\ UNCHANGED <<stateVars, store, runVars, step, row, body, allowance, queue>>

PutRequest(w) ==
  /\ call[w] = "open"
  /\ queue' = Append(queue, [from |-> w, op |-> step[w], identity |-> row[w], content |-> body[w]])
  /\ call' = [call EXCEPT ![w] = "queued"]
  /\ UNCHANGED <<stateVars, store, runVars, step, row, body, allowance>>

Told(w, op) ==
  allowance' = IF op = "remaining" /\ w # None
               THEN [allowance EXCEPT ![w] = Ceiling - ledger] ELSE allowance

Answer(w, result) == call' = IF w = None THEN call ELSE [call EXCEPT ![w] = result]

(* The coordinator applies its oldest request and answers.                 *)
Serve ==
  LET r == Head(queue) IN
  /\ queue # <<>> /\ r # Stop
  /\ queue' = Tail(queue)
  /\ Apply(r.op, r.identity, r.content)
  /\ Answer(r.from, "ok") /\ Told(r.from, r.op)
  /\ UNCHANGED <<store, runVars, step, row, body>>

(* It refuses, or SQLite fails and the transaction is rolled back.         *)
ServeFails ==
  LET r == Head(queue) IN
  /\ queue # <<>> /\ r # Stop
  /\ queue' = Tail(queue)
  /\ Answer(r.from, "failed")
  /\ UNCHANGED <<stateVars, store, runVars, step, row, body, allowance>>

(* After stop the caller applies its call itself.                          *)
CallDirectly(w) ==
  /\ step[w] \in Calls /\ call[w] = "none" /\ phase = "closed"
  /\ Apply(step[w], row[w], body[w])
  /\ Answer(w, "ok") /\ Told(w, step[w])
  /\ UNCHANGED <<store, runVars, step, row, body, queue>>

DirectCallFails(w) ==
  /\ step[w] \in Calls /\ call[w] = "none" /\ phase = "closed"
  /\ Answer(w, "failed")
  /\ UNCHANGED <<stateVars, store, runVars, step, row, body, allowance, queue>>

(* 300 s without an answer: the caller raises, its request stays queued.   *)
CallTimesOut(w) ==
  /\ call[w] = "queued"
  /\ call' = [call EXCEPT ![w] = "failed"]
  /\ queue' = [k \in DOMAIN queue |->
                 IF queue[k].from = w THEN [queue[k] EXCEPT !.from = None] ELSE queue[k]]
  /\ UNCHANGED <<stateVars, store, runVars, step, row, body, allowance>>

Goto(w, next) ==
  /\ step' = [step EXCEPT ![w] = next]
  /\ call' = [call EXCEPT ![w] = "none"]

Idle(w) ==
  /\ Goto(w, "idle")
  /\ row' = [row EXCEPT ![w] = None]
  /\ body' = [body EXCEPT ![w] = None]
  /\ allowance' = [allowance EXCEPT ![w] = 0]

(* A positive allowance funds a request; a reservation allows publication, *)
(* a publication its mark, a mark the completion, and that is all.         *)
Continue(w) ==
  /\ call[w] = "ok"
  /\ \/ step[w] = "remaining" /\ allowance[w] > 0 /\ Goto(w, "fetch") /\ UNCHANGED <<row, body, allowance>>
     \/ step[w] = "reserve" /\ Goto(w, "publish") /\ UNCHANGED <<row, body, allowance>>
     \/ step[w] = "mark" /\ Goto(w, "complete") /\ UNCHANGED <<row, body, allowance>>
     \/ step[w] = "complete" /\ Idle(w)
  /\ UNCHANGED <<stateVars, store, runVars, queue>>

(* The streamed body is validated in private, at most `allowance` bytes.   *)
Fetch(w) ==
  /\ step[w] = "fetch"
  /\ \E c \in Content : Size[c] <= allowance[w] /\ body' = [body EXCEPT ![w] = c]
  /\ Goto(w, "reserve")
  /\ UNCHANGED <<stateVars, store, runVars, row, allowance, queue>>

(* publish_private_file: reuse what is there, else rename and then fsync   *)
(* the directory.                                                          *)
Publish(w) ==
  /\ step[w] = "publish"
  /\ store' = store \cup {body[w]}
  /\ Goto(w, IF body[w] \in store THEN "mark" ELSE "sync")
  /\ UNCHANGED <<stateVars, runVars, row, body, allowance, queue>>

SyncDirectory(w) ==
  /\ step[w] = "sync"
  /\ Goto(w, "mark")
  /\ UNCHANGED <<stateVars, store, runVars, row, body, allowance, queue>>

(* An exception before `published = True` (the reservation was refused, a  *)
(* check or the rename failed, the fsync after the rename failed): the     *)
(* handler releases the charge.                                            *)
FailUnpublished(w) ==
  /\ \/ step[w] = "reserve" /\ call[w] = "failed"
     \/ step[w] \in {"publish", "sync"}
  /\ Goto(w, "release")
  /\ UNCHANGED <<stateVars, store, runVars, row, body, allowance, queue>>

(* The exception leaves the handler; a fatal one requests the stop, a plain *)
(* AcquisitionError (a refused body, an exceeded ceiling) does not.        *)
GiveUp(w) ==
  /\ \/ step[w] = "remaining" /\ call[w] = "ok" /\ allowance[w] = 0
     \/ step[w] \in {"remaining", "mark", "complete"} /\ call[w] = "failed"
     \/ step[w] = "release" /\ call[w] \in {"ok", "failed"}
     \/ step[w] = "fetch"
  /\ phase' = IF phase = "work" /\ step[w] \in {"remaining", "mark", "complete"}
              THEN "closing" ELSE phase
  /\ Idle(w)
  /\ UNCHANGED <<stateVars, store, handed, rec, passed, runs, queue>>
-----------------------------------------------------------------------------
Work(w) ==
  \/ \E i \in Identity : Take(w, i)
  \/ LookClosed(w) \/ PutRequest(w) \/ CallDirectly(w) \/ DirectCallFails(w) \/ CallTimesOut(w)
  \/ Continue(w) \/ Fetch(w) \/ Publish(w) \/ SyncDirectory(w)
  \/ FailUnpublished(w) \/ GiveUp(w)

Next ==
  \/ StartRun \/ RecoverCall \/ BeginWork \/ RequestStop \/ StopCoordinator \/ EndRun \/ Crash
  \/ \E i \in Identity : Recover(i)
  \/ Serve \/ ServeFails
  \/ \E w \in Worker : Work(w)

Spec == Init /\ [][Next]_vars
-----------------------------------------------------------------------------
TypeOK ==
  /\ charge \in [Identity -> [content : Content,
                              status : {"RESERVED", "PUBLISHED", "SETTLED", "RELEASED"}]
                             \cup {NoCharge}]
  /\ ledger \in Int
  /\ completion \in [Identity -> Content \cup {None}]
  /\ store \in SUBSET Content
  /\ phase \in {"down", "reconcile", "work", "closing", "closed"}
  /\ handed \in SUBSET Identity /\ passed \in SUBSET Identity
  /\ rec \in [identity : Identity, op : Calls] \cup {None}
  /\ step \in [Worker -> Calls \cup {"idle", "fetch", "publish", "sync"}]
  /\ call \in [Worker -> {"none", "open", "queued", "ok", "failed"}]
  /\ row \in [Worker -> Identity \cup {None}]
  /\ body \in [Worker -> Content \cup {None}]
  /\ allowance \in [Worker -> Nat]
  /\ queue \in Seq(Request \cup {Stop})
  /\ runs \in Nat

(* No interleaving of reads and charges takes the ledger over the accepted *)
(* allocation, whatever workers read before they charged (reserve_charge,  *)
(* coinalyze_remaining).                                                   *)
BelowCeiling == ledger <= Ceiling

(* A charge is settled exactly when its request has a completion for the   *)
(* charged content: no recovery finds one without the other (complete,     *)
(* settle_existing_charge).                                                *)
SettledIsCompleted ==
  \A i \in Identity :
    completion[i] = IF charge[i].status = "SETTLED" THEN charge[i].content ELSE None

(* A marked charge and a completion also name content that is in the       *)
(* store, after a recovery that saw content published by another request   *)
(* as well (mark_charge_published, reconcile_open_charges).                *)
ChargesAreBacked ==
  /\ SettledIsCompleted
  /\ \A i \in Identity : charge[i].status \in {"PUBLISHED", "SETTLED"} => charge[i].content \in store

(* When workers start, the allocation pays for completions only: "never a  *)
(* silently consumed allocation" (acquire_coinalyze_liquidation).          *)
RecoveryLeavesNoDebt ==
  [][phase = "reconcile" /\ phase' = "work" => \A i \in Identity : ~Open(i)]_vars

(* The charges implement the budget: what is counted as spent is at every  *)
(* moment the sum of the charges that are not released, below the ceiling  *)
(* (authenticate_singletons), and a completed request is paid exactly once. *)
ImplementsBudget == Budget!Spec
=============================================================================
