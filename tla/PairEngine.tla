----------------------------- MODULE PairEngine -----------------------------
(***************************************************************************)
(* The Uniswap V2 pair-event engine (uniswap_v2_pair_events_v2_engine.py): *)
(* PairEventV2Engine and the SQLite operations of its                      *)
(* PersistenceCoordinator, for one acquisition plan.                       *)
(*                                                                         *)
(* Any number of processes run the engine against one database.  A worker  *)
(* is one node slot of a process (process_one), a steward the main thread  *)
(* of run_until_idle (resume authentication, headers, finalization).  An   *)
(* action is one committed transaction or one read outside a transaction;  *)
(* the network stands between them.                                        *)
(***************************************************************************)
EXTENDS PairPlan

CONSTANTS
  Worker, Steward,
  Domains,      \* the domains of the plan: a superset of Reachable
  Policies,     \* claim orders: "logs_first" (domain_hash_v1), "inline"
  MaxAttempts,  \* config.max_attempts
  MaxGen,       \* bound: attach_existing_plan calls
  MaxFaults,    \* bound: crashes, evidence lost on disk, forked logs
  None

Actor == Worker \cup Steward

ASSUME EngineAssumption ==
  /\ Worker \cap Steward = {} /\ None \notin Actor \cup Domains
  /\ RootFilters \subseteq Domains /\ Domains \subseteq Domain
  /\ \A d \in Domains, r \in Reason : Children(d, r) \subseteq Domains
  /\ MaxAttempts \in Nat \ {0} /\ MaxGen \in Nat /\ MaxFaults \in Nat

VARIABLES
  policy,    \* the plan's immutable execution policy
  ready,     \* root manifest: "INITIALIZING" or "READY"
  status, attempt, reason,  \* query_node rows; status "ABSENT" without a row
  lease,     \* the node's lease, or None
  cand,      \* its log candidate, or None
  leaf,      \* header dependencies of its leaf receipt, or None
  terminal,  \* terminal_mode of its terminal receipt, or None
  header,    \* blocks with a canonical header
  backlog, missing,  \* header_backlog rows and the counter kept beside them
  gen,       \* active_generation of the plan
  pc,        \* where an actor is
  at,        \* the node a worker claimed, or the one an actor examines
  try,       \* claim.attempt
  plea,      \* what a worker decided about its node
  seen,      \* generation a resume page was opened for
  page,      \* nodes, or blocks, the actor has listed and not handled
  faults

nodeVars == <<status, attempt, reason, lease, terminal>>
evidenceVars == <<cand, leaf, header, backlog, missing>>
planVars == <<policy, ready, gen>>
actorVars == <<pc, at, try, plea, seen, page>>
vars == <<nodeVars, evidenceVars, planVars, actorVars, faults>>

(* A lease token is its worker: a worker holds one claim at a time.        *)
Lease == [by : Worker, live : BOOLEAN]
Candidate == [gen : 1..(MaxGen + 1), ev : {"good", "forked", "lost"}]
Mode == {"transport", "explicit_range_limit", "internal", "lease_expired", "unsplittable"}

ASSUME NoneAssumption ==
  /\ None \notin Lease \cup Candidate \cup Mode \cup Reason
  /\ \A B \in SUBSET Block : None # B

Lowest(B) == CHOOSE b \in B : \A c \in B : b <= c
Present(d) == status[d] # "ABSENT"
Kids(d) == Children(d, reason[d])
Goto(a, label) == pc' = [pc EXCEPT ![a] = label]
Owns(w) == lease[at[w]] # None /\ lease[at[w]].by = w
(* Mutation: the state of the node is checked, not whose lease it is.      *)
Holds_InFlight(w) == status[at[w]] = "IN_FLIGHT"

(* _require_lease                                                          *)
Holds(w) == lease[at[w]] = [by |-> w, live |-> TRUE]

(* The call returns or dies: what it had read is gone.                     *)
Return(a, label) ==
  /\ Goto(a, label)
  /\ at' = [at EXCEPT ![a] = None] /\ seen' = [seen EXCEPT ![a] = 0]
  /\ page' = [page EXCEPT ![a] = {}]
  /\ try' = [w \in Worker |-> IF w = a THEN 0 ELSE try[w]]
  /\ plea' = [w \in Worker |-> IF w = a THEN None ELSE plea[w]]

EngineInit ==
  /\ policy \in Policies /\ ready = "INITIALIZING" /\ gen = 1 /\ faults = 0
  /\ status = [d \in Domains |-> "ABSENT"]
  /\ attempt = [d \in Domains |-> 0] /\ reason = [d \in Domains |-> None]
  /\ lease = [d \in Domains |-> None] /\ cand = [d \in Domains |-> None]
  /\ leaf = [d \in Domains |-> None] /\ terminal = [d \in Domains |-> None]
  /\ header = {} /\ backlog = {} /\ missing = 0
  /\ pc = [a \in Actor |-> "idle"] /\ at = [a \in Actor |-> None]
  /\ try = [w \in Worker |-> 0] /\ plea = [w \in Worker |-> None]
  /\ seen = [a \in Actor |-> 0] /\ page = [a \in Actor |-> {}]

-----------------------------------------------------------------------------
(* Plan birth *)

(* initialize_production_roots_batch: any batch, resumed after a crash;    *)
(* a root that is there must match and stays as it is.                     *)
InsertRoots ==
  \E S \in (SUBSET RootFilters) \ {{}} :
    /\ ready = "INITIALIZING"
    /\ status' = [d \in Domains |-> IF d \in S /\ ~Present(d) THEN "PENDING"
                                    ELSE status[d]]
    /\ UNCHANGED <<attempt, reason, lease, terminal, evidenceVars, planVars,
                   actorVars, faults>>

(* finalize: count and domain-set digest of the roots are the pinned ones. *)
MarkReady ==
  /\ ready = "INITIALIZING" /\ {d \in Domains : Present(d)} = RootFilters
  /\ ready' = "READY"
  /\ UNCHANGED <<policy, gen, nodeVars, evidenceVars, actorVars, faults>>

(* attach_existing_plan: a new process invalidates every session mark.     *)
Attach ==
  /\ ready = "READY" /\ gen <= MaxGen
  /\ gen' = gen + 1
  /\ UNCHANGED <<policy, ready, nodeVars, evidenceVars, actorVars, faults>>

-----------------------------------------------------------------------------
(* Resume authentication, one page *)

Unstamped == {d \in Domains : cand[d] # None /\ cand[d].gen # gen}

(* Work starts only on a READY plan with an authenticated chain; headers   *)
(* and finalization are a turn of the logs-first policy.                   *)
Works(a) == ready = "READY" /\ (a \in Steward => policy = "logs_first")

OpenPage(a) ==
  /\ pc[a] = "idle" /\ Works(a) /\ Unstamped # {}
  /\ seen' = [seen EXCEPT ![a] = gen]
  /\ page' = [page EXCEPT ![a] = Unstamped]
  /\ Goto(a, "page")
  /\ UNCHANGED <<nodeVars, evidenceVars, planVars, at, try, plea, faults>>

(* The pages are done: an empty one changes nothing and is not a step.     *)
Paged(a) == \/ pc[a] = "page" /\ page[a] = {}
            \/ pc[a] = "idle" /\ Works(a) /\ Unstamped = {}

(* Replays the raw bodies of one candidate, outside any transaction, and   *)
(* stamps it with the generation; a stamp commutes with all that can       *)
(* happen in between.  Once the generation has moved on the page is given  *)
(* up.  A candidate that does not replay is dropped, a step later.         *)
Authenticate(a) ==
  /\ pc[a] = "page"
  /\ \E d \in page[a] :
       LET bad  == cand[d] = None \/ cand[d].ev = "lost"
           rest == IF gen = seen[a] THEN page[a] \ {d} ELSE {}
       IN  /\ page' = [page EXCEPT ![a] = rest]
           /\ cand' = [cand EXCEPT ![d] = IF bad \/ gen # seen[a] THEN @
                                          ELSE [gen |-> gen, ev |-> @.ev]]
           /\ IF bad /\ gen = seen[a]
              THEN at' = [at EXCEPT ![a] = d] /\ Goto(a, "drop")
              ELSE UNCHANGED <<at, pc>>
  /\ UNCHANGED <<nodeVars, leaf, header, backlog, missing, planVars, try,
                 plea, seen, faults>>

Needed(c) == UNION {RequiredBlocks(d) : d \in {e \in Domains : c[e] # None}}

(* Mutation: every block of a dropped candidate leaves the backlog.        *)
Unneeded_Greedy(d, c) == backlog \cap RequiredBlocks(d)

(* Backlog rows of d that no candidate left in c needs.                    *)
Unneeded(d, c) == (backlog \cap RequiredBlocks(d)) \ Needed(c)

(* _drop_bad_candidate, by domain: blocks no other candidate needs leave   *)
(* the backlog with it.                                                    *)
Drop(a) ==
  /\ pc[a] = "drop"
  /\ cand' = [cand EXCEPT ![at[a]] = None]
  /\ LET gone == IF cand[at[a]] = None THEN {}
                 ELSE Unneeded(at[a], cand')
     IN  backlog' = backlog \ gone /\ missing' = missing - Cardinality(gone)
  /\ at' = [at EXCEPT ![a] = None] /\ Goto(a, "page")
  /\ UNCHANGED <<nodeVars, leaf, header, planVars, try, plea, seen,
                 page, faults>>

-----------------------------------------------------------------------------
(* Claims and leases *)

Lapsed == {d \in Domains : lease[d] # None /\ ~lease[d].live}

(* Mutation: an expired lease costs no attempt.                            *)
Swept_Free == attempt

(* _expire_leases: the node goes back to pending, one attempt the poorer.  *)
Swept == [d \in Domains |-> IF d \in Lapsed THEN attempt[d] + 1 ELSE attempt[d]]

(* Mutation: a lapsed lease is swept without a terminal receipt.           *)
SweptTerminal_None == terminal

SweptTerminal == [d \in Domains |-> IF d \in Lapsed /\ Swept[d] >= MaxAttempts
                                    THEN "lease_expired" ELSE terminal[d]]

(* Mutation: a candidate not stamped in this generation is claimed again.  *)
Free_Restamped == {d \in Domains : /\ status[d] = "PENDING" \/ d \in Lapsed
                                   /\ Swept[d] < MaxAttempts
                                   /\ cand[d] = None \/ cand[d].gen # gen}

Free == {d \in Domains : /\ status[d] = "PENDING" \/ d \in Lapsed
                         /\ Swept[d] < MaxAttempts /\ cand[d] = None}

(* claim_pending: sweep the lapsed leases, then take a pending node that   *)
(* has attempts left and no candidate of any generation.                   *)
Take(w) ==
  LET left == [d \in Domains |-> IF d \in Lapsed THEN "PENDING" ELSE status[d]]
      kept == [d \in Domains |-> IF d \in Lapsed THEN None ELSE lease[d]]
  IN  /\ Paged(w)
      /\ attempt' = Swept /\ terminal' = SweptTerminal
      /\ \/ /\ Free = {} /\ status' = left /\ lease' = kept
            /\ Return(w, "idle")
         \/ \E d \in Free :
              /\ status' = [left EXCEPT ![d] = "IN_FLIGHT"]
              /\ lease' = [kept EXCEPT ![d] = [by |-> w, live |-> TRUE]]
              /\ at' = [at EXCEPT ![w] = d] /\ try' = [try EXCEPT ![w] = Swept[d]]
              /\ plea' = [plea EXCEPT ![w] = None]
              /\ seen' = [seen EXCEPT ![w] = 0] /\ UNCHANGED page
              /\ Goto(w, "logs")
      /\ UNCHANGED <<reason, evidenceVars, planVars, faults>>

(* The clock passes expires_at of a lease nobody renewed in time.          *)
Lapse(d) ==
  /\ lease[d] # None /\ lease[d].live
  /\ lease' = [lease EXCEPT ![d] = [by |-> lease[d].by, live |-> FALSE]]
  /\ UNCHANGED <<status, attempt, reason, terminal, evidenceVars, planVars,
                 actorVars, faults>>

-----------------------------------------------------------------------------
(* One claimed node *)

(* plea: [kind, by], the commit a worker will ask for and, for a split,    *)
(* its reason or, for a terminal, its mode.  first: no plea of this claim  *)
(* has been refused yet.                                                   *)
Plea(kind, by) == [kind |-> kind, by |-> by, first |-> TRUE]
Exhausted(w) == try[w] + 1 >= MaxAttempts

Settle(w, p) == plea' = [plea EXCEPT ![w] = p] /\ Goto(w, "settle")

(* _retry: one more attempt, or the terminal mode of the failure.          *)
Retry(w, mode) == IF Exhausted(w) THEN Plea("terminal", mode) ELSE Plea("retry", None)

(* _split_or_terminal                                                      *)
SplitOrTerminal(w, r) ==
  IF Children(at[w], r) = {} THEN Plea("terminal", "unsplittable") ELSE Plea("split", r)

(* FAILURE_ROUTE_PRECEDENCE over the classes a request can fail with; one  *)
(* stands for all that only the route tells apart from transport.          *)
Precedence == <<"transport", "provider_disagreement", "explicit_range_limit",
                "body_size_pressure">>
Route(F) == Precedence[Lowest({i \in 1..4 : Precedence[i] \in F})]

(* _inspect_pair: one fact for each response with faults, the first of its *)
(* own; the two providers' facts together are the failure.                 *)
Fault == {"transport", "explicit_range_limit", "body_size_pressure"}
Failures == {{Route(f) : f \in {p, s} \ {{}}} : p, s \in SUBSET Fault} \ {{}}

(* Mutation: any size fact among the two splits.                           *)
SplitReason_Mixed(F, last) ==
  IF "explicit_range_limit" \in F THEN "block_range_limit"
  ELSE IF "body_size_pressure" \in F THEN "oversized_result"
  ELSE IF F = {"provider_disagreement"} /\ last THEN "provider_disagreement" ELSE None

(* The split a failure calls for: range limits alone, size pressure alone, *)
(* or a disagreement of the providers on the last attempt.                 *)
SplitReason(F, last) ==
  IF F = {"explicit_range_limit"} THEN "block_range_limit"
  ELSE IF F = {"body_size_pressure"} THEN "oversized_result"
  ELSE IF F = {"provider_disagreement"} /\ last THEN "provider_disagreement" ELSE None

(* _route_failure                                                          *)
Fail(w) ==
  /\ pc[w] \in {"logs", "headers"}
  /\ \E F \in {{"provider_disagreement"}, {"transport"}}
              \cup (IF pc[w] = "logs" THEN Failures ELSE {}) :
       LET r == SplitReason(F, Exhausted(w))
       IN  Settle(w, IF r # None THEN SplitOrTerminal(w, r) ELSE Retry(w, Route(F)))
  /\ UNCHANGED <<nodeVars, evidenceVars, planVars, at, try, seen, page, faults>>

(* Both providers returned the same logs.                                  *)
Agree(w) ==
  /\ pc[w] = "logs"
  /\ IF policy = "logs_first"
     THEN Settle(w, Plea("candidate", None)) /\ UNCHANGED page
     ELSE /\ page' = [page EXCEPT ![w] = RequiredBlocks(at[w])]
          /\ Goto(w, "headers") /\ UNCHANGED plea
  /\ UNCHANGED <<nodeVars, evidenceVars, planVars, at, try, seen, faults>>

(* store_header: the first canonical header of a block wins; either way    *)
(* the block leaves the backlog, and the counter follows the row.          *)
Stored(b) ==
  /\ header' = header \cup {b} /\ backlog' = backlog \ {b}
  /\ missing' = IF b \in backlog /\ missing > 0 THEN missing - 1 ELSE missing

(* _get_header of the inline policy, one required block at a time.         *)
GetHeader(w) ==
  /\ pc[w] = "headers"
  /\ \/ /\ page[w] # {}
        /\ LET b == Lowest(page[w])
           IN  page' = [page EXCEPT ![w] = @ \ {b}] /\ Stored(b)
          /\ UNCHANGED <<pc, plea>>
     \/ /\ page[w] = {} /\ Settle(w, Plea("agreed", None))
        /\ UNCHANGED <<page, header, backlog, missing>>
  /\ UNCHANGED <<nodeVars, cand, leaf, planVars, at, try, seen, faults>>

(* The commit of a candidate: back to pending at the same attempt, blocks  *)
(* without a header join the backlog.                                      *)
CommitCandidate(w) ==
  /\ Owns(w) /\ status[at[w]] = "IN_FLIGHT"
  /\ LET d == at[w]
         new == RequiredBlocks(d) \ (header \cup backlog)
     IN  /\ \E e \in {"good"} \cup (IF faults < MaxFaults THEN {"forked"} ELSE {}) :
              /\ cand' = [cand EXCEPT ![d] = [gen |-> gen, ev |-> e]]
              /\ faults' = IF e = "forked" THEN faults + 1 ELSE faults
         /\ backlog' = backlog \cup new
         /\ missing' = missing + Cardinality(new)
         /\ status' = [status EXCEPT ![d] = "PENDING"]
         /\ lease' = [lease EXCEPT ![d] = None]
  /\ UNCHANGED <<attempt, reason, terminal, leaf, header>>

(* commit_agreed, inline policy                                            *)
CommitAgreed(w) ==
  /\ Holds(w)
  /\ leaf' = [leaf EXCEPT ![at[w]] = RequiredBlocks(at[w])]
  /\ status' = [status EXCEPT ![at[w]] = "AGREED"]
  /\ lease' = [lease EXCEPT ![at[w]] = None]
  /\ UNCHANGED <<attempt, reason, terminal, cand, header, backlog, missing, faults>>

CommitRetry(w) ==
  /\ Holds(w)
  /\ status' = [status EXCEPT ![at[w]] = "PENDING"]
  /\ attempt' = [attempt EXCEPT ![at[w]] = @ + 1]
  /\ lease' = [lease EXCEPT ![at[w]] = None]
  /\ UNCHANGED <<reason, terminal, evidenceVars, faults>>

(* terminalize: the attempt is forced to the limit and the mode recorded.  *)
CommitTerminal(w) ==
  /\ Holds(w)
  /\ status' = [status EXCEPT ![at[w]] = "PENDING"]
  /\ attempt' = [attempt EXCEPT ![at[w]] = MaxAttempts]
  /\ terminal' = [terminal EXCEPT ![at[w]] = plea[w].by]
  /\ lease' = [lease EXCEPT ![at[w]] = None]
  /\ UNCHANGED <<reason, evidenceVars, faults>>

CommitSplit(w) ==
  /\ Holds(w)
  /\ LET kids == Children(at[w], plea[w].by)
     IN  status' = [d \in Domains |-> IF d = at[w] THEN "SPLIT"
                                     ELSE IF d \in kids THEN "PENDING" ELSE status[d]]
  /\ reason' = [reason EXCEPT ![at[w]] = plea[w].by]
  /\ lease' = [lease EXCEPT ![at[w]] = None]
  /\ UNCHANGED <<attempt, terminal, evidenceVars, faults>>

Commit(w) ==
  \/ plea[w].kind = "candidate" /\ CommitCandidate(w)
  \/ plea[w].kind = "agreed" /\ CommitAgreed(w)
  \/ plea[w].kind = "retry" /\ CommitRetry(w)
  \/ plea[w].kind = "terminal" /\ CommitTerminal(w)
  \/ plea[w].kind = "split" /\ CommitSplit(w)

Settled(w) ==
  /\ pc[w] = "settle"
  /\ Commit(w)
  /\ Return(w, "idle")
  /\ UNCHANGED planVars

(* A commit that raised for another reason is routed as INTERNAL.          *)
CommitRaises(w) ==
  /\ pc[w] = "settle" /\ plea[w].kind \in {"candidate", "agreed"}
  /\ plea[w].first
  /\ plea' = [plea EXCEPT ![w] = [Retry(w, "internal") EXCEPT !.first = FALSE]]
  /\ UNCHANGED <<nodeVars, evidenceVars, planVars, pc, at, try, seen,
                 page, faults>>

(* resolve_winner: the outcomes that authenticate what the winner did.     *)
Reconciled(w) ==
  LET d == at[w]
  IN  \/ status[d] = "IN_FLIGHT"
      \/ status[d] = "AGREED" /\ plea[w].kind = "agreed"
      \/ status[d] = "SPLIT" /\ plea[w].kind = "split" /\ plea[w].by = reason[d]
      \/ status[d] = "PENDING" /\ attempt[d] < MaxAttempts /\ terminal[d] = None
      \/ /\ status[d] = "PENDING" /\ attempt[d] = MaxAttempts
         /\ plea[w].kind = "terminal" /\ plea[w].by = terminal[d]

(* The commit is refused for the lease, or a heartbeat of _heartbeat_loop  *)
(* failed: look at who won instead.  An outcome that does not authenticate *)
(* is an error: routed as INTERNAL once, and the second time it ends the   *)
(* run.                                                                    *)
Resolve(w) ==
  /\ pc[w] = "settle"
  /\ IF Reconciled(w) THEN Return(w, "idle")
     ELSE IF ~plea[w].first THEN Return(w, "failed")
     ELSE /\ Settle(w, [Retry(w, "internal") EXCEPT !.first = FALSE])
          /\ UNCHANGED <<at, try, seen, page>>
  /\ UNCHANGED <<nodeVars, evidenceVars, planVars, faults>>

-----------------------------------------------------------------------------
(* Headers and finalization (_run_production_header_finalization_once) *)

MissingBlocks == Needed(cand) \ header

ListMissing(s) ==
  /\ Paged(s)
  /\ page' = [page EXCEPT ![s] = MissingBlocks]
  /\ seen' = [seen EXCEPT ![s] = 0]
  /\ Goto(s, "batch")
  /\ UNCHANGED <<nodeVars, evidenceVars, planVars, at, try, plea, faults>>

(* acquire_header_batch: one dual request, stored block by block; a batch  *)
(* the providers do not agree on ends the run.                             *)
StoreHeader(s) ==
  /\ pc[s] = "batch"
  /\ page[s] # {} /\ LET b == Lowest(page[s]) IN page' = [page EXCEPT ![s] = @ \ {b}] /\ Stored(b)
  /\ UNCHANGED <<nodeVars, cand, leaf, planVars, pc, at, try, plea, seen, faults>>

BatchFails(s) ==
  /\ pc[s] = "batch" /\ page[s] # {} /\ faults < MaxFaults
  /\ faults' = faults + 1
  /\ Return(s, "failed")
  /\ UNCHANGED <<nodeVars, evidenceVars, planVars>>

(* list_finalizable_candidates                                             *)
ListFinalizable(s) ==
  /\ pc[s] = "batch" /\ page[s] = {}
  /\ page' = [page EXCEPT ![s] =
       {d \in Domains : /\ cand[d] # None /\ status[d] = "PENDING"
                        /\ RequiredBlocks(d) \subseteq header}]
  /\ Goto(s, "final")
  /\ UNCHANGED <<nodeVars, evidenceVars, planVars, at, try, plea, seen, faults>>

(* Mutation: an exhausted node can be agreed.                              *)
Finalizable_Any(d) == cand[d] = None \/ RequiredBlocks(d) \subseteq header

(* Everything is replayed again inside the transaction.                    *)
Finalizable(d) ==
  /\ cand[d] # None /\ cand[d].ev = "good"
  /\ RequiredBlocks(d) \subseteq header

(* finalize_candidate of one listed node: an agreed one returns its leaf,  *)
(* any other disagreement raises and ends the run.                         *)
Finalize(s) ==
  /\ pc[s] = "final"
  /\ \E d \in page[s] :
       IF cand[d] # None /\ status[d] = "AGREED"
       THEN /\ page' = [page EXCEPT ![s] = @ \ {d}]
            /\ UNCHANGED <<pc, at, try, plea, seen, status, leaf>>
       ELSE IF status[d] = "PENDING" /\ Finalizable(d)
       THEN /\ page' = [page EXCEPT ![s] = @ \ {d}]
            /\ leaf' = [leaf EXCEPT ![d] = RequiredBlocks(d)]
            /\ status' = [status EXCEPT ![d] = "AGREED"]
            /\ UNCHANGED <<pc, at, try, plea, seen>>
       ELSE Return(s, "failed") /\ UNCHANGED <<status, leaf>>
  /\ UNCHANGED <<attempt, reason, lease, terminal, cand, header, backlog, missing,
                 planVars, faults>>

EndTurn(s) ==
  /\ pc[s] = "final" /\ page[s] = {}
  /\ Return(s, "idle")
  /\ UNCHANGED <<nodeVars, evidenceVars, planVars, faults>>

-----------------------------------------------------------------------------
(* Faults *)

(* The process dies, or a run that failed is started again.                *)
Crash(a) ==
  /\ pc[a] \notin {"idle", "failed"} /\ faults < MaxFaults
  /\ faults' = faults + 1
  /\ Return(a, "idle")
  /\ UNCHANGED <<nodeVars, evidenceVars, planVars>>

Restart(a) ==
  /\ pc[a] = "failed"
  /\ Goto(a, "idle")
  /\ UNCHANGED <<nodeVars, evidenceVars, planVars, at, try, plea, seen, page, faults>>

(* The raw bodies of a candidate are damaged or missing on disk.           *)
Rot(d) ==
  /\ cand[d] # None /\ cand[d].ev # "lost" /\ faults < MaxFaults
  /\ faults' = faults + 1
  /\ cand' = [cand EXCEPT ![d] = [gen |-> @.gen, ev |-> "lost"]]
  /\ UNCHANGED <<nodeVars, leaf, header, backlog, missing, planVars, actorVars>>

-----------------------------------------------------------------------------
WorkerStep(w) ==
  \/ Take(w) \/ Fail(w) \/ Agree(w) \/ GetHeader(w) \/ Settled(w)
  \/ CommitRaises(w) \/ Resolve(w)
StewardStep(s) ==
  \/ ListMissing(s) \/ StoreHeader(s) \/ BatchFails(s) \/ ListFinalizable(s)
  \/ Finalize(s) \/ EndTurn(s)
ActorStep(a) == OpenPage(a) \/ Authenticate(a) \/ Drop(a)

EngineNext ==
  \/ InsertRoots \/ MarkReady \/ Attach
  \/ \E a \in Actor : ActorStep(a) \/ Crash(a) \/ Restart(a)
  \/ \E w \in Worker : WorkerStep(w)
  \/ \E s \in Steward : StewardStep(s)
  \/ \E d \in Domains : Lapse(d) \/ Rot(d)

(* A process that is up keeps taking its next step, and time passes.       *)
EngineFairness ==
  /\ WF_vars(InsertRoots) /\ WF_vars(MarkReady)
  /\ \A a \in Actor : WF_vars(ActorStep(a))
  /\ \A w \in Worker : WF_vars(WorkerStep(w))
  /\ \A s \in Steward : WF_vars(StewardStep(s))
  /\ \A d \in Domains : WF_vars(Lapse(d))

EngineSpec == EngineInit /\ [][EngineNext]_vars /\ EngineFairness

-----------------------------------------------------------------------------
(* Properties *)

EngineTypeOK ==
  /\ policy \in Policies /\ ready \in {"INITIALIZING", "READY"}
  /\ gen \in 1..(MaxGen + 1) /\ faults \in 0..MaxFaults
  /\ status \in [Domains -> {"ABSENT", "PENDING", "IN_FLIGHT", "AGREED", "SPLIT"}]
  /\ attempt \in [Domains -> 0..MaxAttempts]
  /\ reason \in [Domains -> Reason \cup {None}]
  /\ lease \in [Domains -> Lease \cup {None}]
  /\ cand \in [Domains -> Candidate \cup {None}]
  /\ leaf \in [Domains -> (SUBSET Block) \cup {None}]
  /\ terminal \in [Domains -> Mode \cup {None}]
  /\ header \subseteq Block /\ backlog \subseteq Block /\ missing \in Nat
  /\ at \in [Actor -> Domains \cup {None}]

Frontier == {d \in Domains : status[d] \notin {"ABSENT", "SPLIT"}}

(* The domains in force are disjoint and together the planned area.        *)
DomainsTile ==
  /\ UNION {Cells(d) : d \in Frontier} = UNION {Cells(d) : d \in RootFilters}
  /\ \A d, e \in Frontier : d # e => Cells(d) \cap Cells(e) = {}

(* A node is in flight exactly while somebody has a lease on it, and then  *)
(* it has attempts left and no candidate: nothing acquired is asked again. *)
LeasesAreExclusive ==
  \A d \in Domains :
    /\ status[d] = "IN_FLIGHT" <=> lease[d] # None
    /\ lease[d] # None => attempt[d] < MaxAttempts /\ cand[d] = None

(* A node is agreed exactly when it has a leaf receipt, and the receipt    *)
(* depends on a stored canonical header for each block it needs.           *)
AgreedIsEvidenced ==
  \A d \in Domains :
    /\ status[d] = "AGREED" <=> leaf[d] # None
    /\ leaf[d] # None => leaf[d] = RequiredBlocks(d) /\ leaf[d] \subseteq header

(* A terminal receipt stands exactly on the nodes out of attempts, which   *)
(* stay pending without a lease or a candidate.                            *)
TerminalIsExhausted ==
  \A d \in Domains :
    /\ terminal[d] # None <=> attempt[d] = MaxAttempts
    /\ terminal[d] # None => status[d] = "PENDING" /\ cand[d] = None

(* The durable backlog is the set of blocks some candidate needs and no    *)
(* header covers, and its counter, kept row by row, is its size.           *)
BacklogIsExact ==
  backlog = MissingBlocks /\ missing = Cardinality(backlog)

(* Claims, attempts and terminal receipts agree at every commit, whatever *)
(* workers race for a node and however often its lease lapses.             *)
ClaimsAgree == EngineTypeOK /\ LeasesAreExclusive /\ TerminalIsExhausted

(* Receipts, headers and their backlog agree at every commit, whatever     *)
(* candidates a resume, a drop or a finalization touches meanwhile.        *)
HeadersAgree == EngineTypeOK /\ AgreedIsEvidenced /\ BacklogIsExact

(* The domains in force cut the planned address-block area into disjoint   *)
(* pieces, through every split, retry and restart; so once all of them are *)
(* agreed the streaming proof of prove_full_registry_coverage finds each   *)
(* pool covered from birth to cutoff, without gap or overlap.              *)
CoverageIsExact ==
  /\ ready = "READY" => DomainsTile
  /\ ready = "READY" /\ (\A d \in Frontier : status[d] = "AGREED") =>
       \A a \in Pool : Complete(a, Frontier)

(* While a lease is live only its worker, at its commit, moves the node:   *)
(* a worker that lost its lease to the clock or to a successor cannot.     *)
OnlyHolderMoves ==
  [][\A d \in Domains :
       lease[d] # None /\ lease[d].live
         /\ <<status[d], attempt[d], reason[d]>>' # <<status[d], attempt[d], reason[d]>>
       => \E w \in Worker : /\ lease[d].by = w /\ at[w] = d
                            /\ pc[w] = "settle" /\ pc'[w] = "idle"]_vars

Verdicts ==
  [d \in Frontier |-> IF status[d] = "AGREED" THEN "agreed"
                      ELSE IF attempt[d] = MaxAttempts THEN "blocked" ELSE "open"]

Ledger == INSTANCE PairLedger WITH
            Roots <- RootFilters, Area <- Cells, frontier <- Verdicts

(* The database implements the ledger of the plan: domains are replaced    *)
(* only by partitions of themselves and a verdict, once given, stands.     *)
ImplementsPairLedger == Ledger!Spec

(* Every domain in force ends agreed or blocked unless a run keeps failing *)
(* and is not started again: no lease, stale candidate or header keeps the *)
(* plan from settling.                                                     *)
NodesSettle ==
  <>(\/ \A d \in RootFilters : status[d] # "ABSENT" /\ \A e \in Frontier : Verdicts[e] # "open"
     \/ \E a \in Actor : pc[a] = "failed")

(* claim_pending on the page it runs first: "never deletes valid           *)
(* candidates".                                                            *)
NeverDropsValid ==
  [][\A d \in Domains :
       cand[d] # None /\ cand'[d] = None => cand[d].ev = "lost"]_vars
=============================================================================
