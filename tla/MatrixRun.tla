------------------------------ MODULE MatrixRun ------------------------------
(***************************************************************************)
(* One live run of the provider-capacity matrix: the harness's main thread *)
(* (PairEventV2MatrixHarness.run), its pool of workers (_execute_one), the *)
(* budgets and gates they share, and the exclusive run directory           *)
(* (class MatrixRun) that ends in one terminal manifest.                   *)
(*                                                                         *)
(* A worker is the call it executes.  A run is never resumed: a process    *)
(* that dies leaves its directory as it is.                                *)
(***************************************************************************)
EXTENDS MatrixEvidence, FiniteSetsExt

CONSTANTS
  InFlight,     \* max_in_flight of a provider's gate
  MaxAttempts,  \* max_attempts_per_logical_call
  MaxProvider,  \* max_provider_attempts
  Budgets,      \* values of max_retained_response_bytes
  Caps,         \* largest batch each provider answers
  MaxFaults     \* bound: answers and outcomes nobody wants

ASSUME RunAssumption ==
  /\ InFlight \in Nat \ {0} /\ MaxAttempts \in Nat \ {0} /\ MaxProvider \in Nat
  /\ Caps \subseteq [Members(Orgs) -> Members(Sizes)]
  /\ Budgets \subseteq Nat /\ MaxFaults \in Nat

VARIABLES
  rows,      \* receipts: the attempts of each call
  raw,       \* retained bodies: <<call, attempt>>
  phase,     \* where the worker of a call is
  reserved, retained, attempts,  \* BudgetTracker
  budget,    \* max_retained_response_bytes of this run
  cap,       \* largest batch each provider answers
  late,      \* the wall-time budget is spent
  stop,      \* the stop event
  mode,      \* where the main thread is
  next,      \* the next call of the schedule
  report,    \* what was evaluated for the terminal manifest
  terminal,  \* "none", "torn", "COMPLETE" or "FAILED"
  listed,    \* the files the manifest names
  faults

dirVars == <<rows, raw>>
budgetVars == <<reserved, retained, attempts>>
inputVars == <<budget, cap>>
mainVars == <<mode, next, report, terminal, listed>>
vars == <<dirVars, phase, budgetVars, inputVars, late, stop, mainVars, faults>>

Pool == InFlight * Len(Orgs)
Active == {c \in Call : phase[c] \in {"start", "gate", "wait"}}
Raised == {c \in Call : phase[c] = "raised"}
(* Mutation: an attempt that was retained keeps its slot.                  *)
InGate_Leaks(p) == {c \in Call : c.org = p /\ (phase[c] = "wait" \/ rows[c] # <<>>)}
InGate(p) == {c \in Call : c.org = p /\ phase[c] = "wait"}
Move(c, to) == phase' = [phase EXCEPT ![c] = to]
Fault(n) == faults + n <= MaxFaults /\ faults' = faults + n

RunInit ==
  /\ rows = [c \in Call |-> <<>>] /\ raw = {}
  /\ phase = [c \in Call |-> "idle"]
  /\ reserved = 0 /\ retained = 0 /\ attempts = 0
  /\ budget \in Budgets /\ cap \in Caps
  /\ late = FALSE /\ stop = FALSE /\ mode = "chain" /\ next = 1
  /\ report = None /\ terminal = "none" /\ listed = None /\ faults = 0

WallPasses ==
  /\ ~late /\ mode \in {"chain", "pool"} /\ Fault(1) /\ late' = TRUE
  /\ UNCHANGED <<dirVars, phase, budgetVars, inputVars, stop, mainVars>>

-----------------------------------------------------------------------------
(* A worker *)

(* Mutation: what others have reserved is not counted.                     *)
Fits_Retained == retained + MaxBody <= budget

(* reserve: everyone in flight may still return a full body.               *)
Fits == retained + reserved + MaxBody <= budget

(* register_attempt and reserve, at the top of an attempt.                 *)
StartAttempt(c) ==
  /\ phase[c] = "start" /\ ~stop /\ ~late
  /\ attempts < MaxProvider /\ Fits
  /\ attempts' = attempts + 1 /\ reserved' = reserved + MaxBody
  /\ Move(c, "gate")
  /\ UNCHANGED <<dirVars, retained, inputVars, late, stop, mainVars, faults>>

(* Stopped, out of time or out of budget: raised before the try block.  A  *)
(* future that has not begun is cancelled instead.                         *)
StartRefused(c) ==
  /\ phase[c] = "start" /\ (stop \/ late \/ attempts >= MaxProvider \/ ~Fits)
  /\ Move(c, "raised")
  /\ UNCHANGED <<dirVars, budgetVars, inputVars, late, stop, mainVars, faults>>

EnterGate(c) ==
  /\ phase[c] = "gate" /\ ~stop /\ ~late
  /\ Cardinality(InGate(c.org)) < InFlight
  /\ Move(c, "wait")
  /\ UNCHANGED <<dirVars, budgetVars, inputVars, late, stop, mainVars, faults>>

(* gate.acquire raises outside the try block: the reservation stays.       *)
GateRefused(c) ==
  /\ phase[c] = "gate" /\ (stop \/ late)
  /\ Move(c, "raised")
  /\ UNCHANGED <<dirVars, budgetVars, inputVars, late, stop, mainVars, faults>>

(* Inside the try block: the reservation is released, and a safety stop is *)
(* signalled; another exception (halt FALSE) is left to the main thread.   *)
Abort(c, halt) ==
  /\ Move(c, "raised")
  /\ reserved' = reserved - MaxBody /\ stop' = (stop \/ halt)
  /\ UNCHANGED <<rows, retained, attempts, inputVars, late, mainVars>>

(* In the gate at last, but stopped or late.                               *)
SendRefused(c) ==
  /\ phase[c] = "gate" /\ (stop \/ late) /\ Cardinality(InGate(c.org)) < InFlight
  /\ Abort(c, TRUE) /\ UNCHANGED <<raw, faults>>

(* The wall cuts the stream: its reader is joined before the worker goes   *)
(* on, and the spool is removed.  An HTTP timeout, a body that is no       *)
(* JSON-RPC or a failing disk ends it as well.                             *)
StreamAborted(c) ==
  /\ phase[c] = "wait"
  /\ \/ late /\ UNCHANGED faults /\ Abort(c, TRUE)
     \/ Fault(1) /\ \E halt \in BOOLEAN : Abort(c, halt)
  /\ UNCHANGED raw

(* What a provider answers when nothing is wrong.                          *)
Expected(c) == IF c.kind = "batch" /\ c.n > cap[c.org] THEN "limit" ELSE "same"

(* stream_to_receipt: the raw body, then its receipt; then the commit of   *)
(* the reservation and the end of the attempt.                             *)
Retain(c, b) ==
  LET s == Append(rows[c], b)
      over == b \in Success \/ Len(s) = MaxAttempts
  IN  /\ phase[c] = "wait" /\ Fault(IF b = Expected(c) THEN 0 ELSE 1)
      /\ raw' = IF Kept(b) THEN raw \cup {<<c, Len(s)>>} ELSE raw
      /\ rows' = [rows EXCEPT ![c] = s]
      /\ reserved' = reserved - MaxBody /\ retained' = retained + Bytes(b)
      /\ Move(c, IF over THEN "done" ELSE "start")
      /\ UNCHANGED <<attempts, inputVars, late, stop, mainVars>>

(* The receipt cannot be written: its body stays behind.                   *)
ReceiptFails(c) ==
  /\ phase[c] = "wait" /\ Fault(1) /\ raw' = raw \cup {<<c, Len(rows[c]) + 1>>}
  /\ Abort(c, TRUE)

Work(c) ==
  \/ StartAttempt(c) \/ StartRefused(c) \/ EnterGate(c) \/ GateRefused(c)
  \/ SendRefused(c) \/ StreamAborted(c) \/ ReceiptFails(c) \/ \E b \in Body : Retain(c, b)

-----------------------------------------------------------------------------
(* The main thread *)

(* Chain calls one by one, by the main thread itself; then a window.       *)
Submit ==
  LET c == Schedule[next]
  IN  /\ mode \in {"chain", "pool"} /\ next <= Len(Schedule) /\ ~stop
      /\ IF mode = "chain" THEN c.kind = "chain" /\ Active \cup Raised = {}
         ELSE Cardinality(Active) < Pool
      /\ Move(c, "start") /\ next' = next + 1
      /\ UNCHANGED <<dirVars, budgetVars, inputVars, late, stop, mode, report,
                     terminal, listed, faults>>

(* The failure of a future is signalled; a chain call's ends the phase.    *)
Notice ==
  /\ mode \in {"chain", "pool"} /\ Raised # {} /\ ~stop /\ stop' = TRUE
  /\ UNCHANGED <<dirVars, phase, budgetVars, inputVars, late, mainVars, faults>>

Goto(to) ==
  /\ mode' = to
  /\ UNCHANGED <<dirVars, phase, budgetVars, inputVars, late, next, report,
                 terminal, listed, faults>>

EndChain ==
  /\ mode = "chain" /\ next > Len(Orgs) /\ Active \cup Raised = {}
  /\ IF ChainProven(rows) THEN Goto("pool") /\ UNCHANGED stop
     ELSE Goto("failed") /\ stop' = TRUE

(* Mutation: after a stop the running futures are not waited for.          *)
Drained_Cancelled == stop \/ Active = {}

(* wait(pending) and executor.shutdown(wait=True).                         *)
Drained == Active = {}

Stopped ==
  /\ mode \in {"chain", "pool"} /\ stop /\ Drained
  /\ Goto("failed") /\ UNCHANGED stop

(* Every future returned: the inventory and the cells, from the disk.      *)
Evaluate ==
  /\ mode = "pool" /\ ~stop /\ Active \cup Raised = {} /\ next > Len(Schedule)
  /\ IF InventoryHolds(rows, raw)
     THEN /\ mode' = "seal" /\ report' = Report(rows) /\ UNCHANGED stop
     ELSE /\ mode' = "failed" /\ stop' = TRUE /\ UNCHANGED report
  /\ UNCHANGED <<dirVars, phase, budgetVars, inputVars, late, next,
                 terminal, listed, faults>>

Seal(kind) ==
  /\ terminal = "none" /\ terminal' = kind /\ listed' = [rows |-> rows, raw |-> raw]
  /\ mode' = "ended"
  /\ UNCHANGED <<dirVars, phase, budgetVars, inputVars, late, stop, next, report,
                 faults>>
SealEvaluated == mode = "seal" /\ Seal(IF report.complete THEN "COMPLETE" ELSE "FAILED")
SealFailed == mode = "failed" /\ Seal("FAILED")

(* The process dies with all it had in memory; a manifest it was writing   *)
(* is cut short.                                                           *)
Crash ==
  /\ mode \notin {"ended", "dead"} /\ Fault(1) /\ mode' = "dead"
  /\ terminal' \in {terminal} \cup (IF mode \in {"seal", "failed"} THEN {"torn"} ELSE {})
  /\ phase' = [c \in Call |-> "lost"]
  /\ reserved' = 0 /\ retained' = 0 /\ attempts' = 0
  /\ late' = FALSE /\ stop' = FALSE /\ next' = 0 /\ report' = None
  /\ UNCHANGED <<dirVars, inputVars, listed>>

Main == Submit \/ Notice \/ EndChain \/ Stopped \/ Evaluate \/ SealEvaluated \/ SealFailed
Progress == Main \/ \E c \in Call : Work(c)
Next == Progress \/ WallPasses \/ Crash

RunSpec == RunInit /\ [][Next]_vars
(* The threads are scheduled, and a provider answers or is cut off.        *)
FairRunSpec == RunSpec /\ WF_vars(Progress)

-----------------------------------------------------------------------------
(* Properties *)

Spent(s) == MapThenSumSet(LAMBDA i : Bytes(s[i]), DOMAIN s)

(* Whatever several workers reserve, retry or leak at once, the receipts   *)
(* on disk never hold more than max_retained_response_bytes.               *)
BudgetHolds == MapThenSumSet(LAMBDA c : Spent(rows[c]), Call) <= budget

(* A manifest names exactly what the directory holds, now and for good: no *)
(* worker writes behind it, even after a stop or past the wall.  What      *)
(* COMPLETE seals authenticates from the disk alone, and a PASS has all    *)
(* that a replay asks of its source.                                       *)
SealsAuthenticate ==
  /\ terminal \in {"COMPLETE", "FAILED"} => listed = [rows |-> rows, raw |-> raw]
  /\ terminal = "COMPLETE" => Authenticates(listed, report, rows, raw)
  /\ terminal = "COMPLETE" /\ report.pass => Replayable(report, rows)

(* The selected size rests on the attempts themselves: every scalar        *)
(* reference succeeded and the providers agree on it, every batch up to    *)
(* the size equals their union, what fails beyond it failed for capacity   *)
(* only, and no quota, refusal or credential was seen at any attempt.      *)
SelectionIsJustified ==
  terminal = "COMPLETE" /\ report.pass =>
    \A r \in Members(Ranges), p \in Members(Orgs) :
      /\ \A c \in Call : c.kind # "chain" => ~Shows(rows[c], HardBody)
      /\ \A a \in Address, q \in Members(Orgs) :
           /\ Shows(rows[Scalar(p, r, a)], Success)
           /\ Best(rows[Scalar(p, r, a)]) = Best(rows[Scalar(q, r, a)])
      /\ \A s \in Members(Sizes) :
           s <= report.selected =>
             /\ Shows(rows[Batch(p, r, s)], Success)
             /\ \A a \in 1..s : Best(rows[Batch(p, r, s)]) = Best(rows[Scalar(p, r, a)])
      /\ \A s \in Members(Sizes) :
           s > report.selected =>
             \E q \in Members(Orgs), t \in Members(Ranges) :
               ~Shows(rows[Batch(q, t, s)], Success)

(* A full gate, failed workers, the stop event or a spent budget: the run  *)
(* comes to its manifest unless its process dies, and does not need the    *)
(* wall for it.                                                            *)
RunEnds == <>(terminal \in {"COMPLETE", "FAILED"} \/ mode = "dead")
=============================================================================
