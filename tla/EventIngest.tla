----------------------------- MODULE EventIngest -----------------------------
(***************************************************************************)
(* Acquisition of pair events from two JSON-RPC sources: the runs of the   *)
(* orchestrator (uniswap_v2_pair_event_orchestrator.py), the chunks of its *)
(* jobs as UniswapV2PairEventIngestor.fetch works them off, the receipts   *)
(* it commits, and the offline replay of a range (replay_receipts).        *)
(*                                                                         *)
(* One pool, born at block 1.  The chain may replace its last blocks once, *)
(* and each source comes to know it at a time of its own; a block and its  *)
(* hash are the number and the side of that split.                         *)
(***************************************************************************)
EXTENDS Integers, Sequences, FiniteSets, Functions

CONSTANTS
  Cutoff,     \* finality_cutoff_block
  Splits,     \* first block the chain may replace (Cutoff + 1: none)
  Kinds,      \* event_kinds, in order
  Logged,     \* <<kind, block, side>> with a log of the pool
  Source,     \* the two providers
  Orchestrator, \* processes that run the orchestrator
  Plans,      \* [size, chunks, bound]: chunk_size, max_chunks_per_pool, max_end_block
  Production, \* the plan without pilot bounds
  MaxTroubles \* bound: omitted logs, failing calls and processes that die

ASSUME IngestAssumption ==
  /\ Kinds \in Seq(STRING) /\ Cutoff \in Nat \ {0} /\ Splits \subseteq 2..Cutoff + 1
  /\ \A t \in Plans : {t.size, t.chunks, t.bound} \subseteq Nat \ {0}
  /\ Production \in Plans /\ Cardinality(Source) = 2 /\ MaxTroubles \in Nat

VARIABLES
  split,    \* first block that is replaced
  moved,    \* sources that follow the new side
  lax,      \* the one source that may omit logs
  stored,   \* uniswap_v2_pair_event_receipts, by its primary key
  work,     \* what each orchestrator is doing
  reported, \* jobs some run gave as completed or complete: [kind, end]
  troubles

ingestVars == <<split, moved, lax, stored, work, reported, troubles>>

-----------------------------------------------------------------------------
(* The plan *)

Least(m, n) == IF m <= n THEN m ELSE n
ChunkEnd(lo, size, end) == Least(lo + size - 1, end)

(* iter_chunk_ranges: the tiling fetch will walk.                          *)
Tiling(end, size) ==
  {<<lo, ChunkEnd(lo, size, end)>> : lo \in {b \in 1..end : (b - 1) % size = 0}}

(* Mutation: a chunk past max_end_block is shortened instead of dropped.   *)
AlignedEnd_Shortened(t) == Least(Least(t.bound, t.chunks * t.size), Cutoff)

(* production_aligned_end_block: the end of the last whole chunk that the  *)
(* pilot bounds leave, 0 if there is none.                                 *)
AlignedEnd(t) ==
  LET kept == {c \in Tiling(Cutoff, t.size) : c[2] <= t.bound /\ c[1] <= t.chunks * t.size}
  IN  IF kept = {} THEN 0 ELSE CHOOSE e \in {c[2] : c \in kept} : \A c \in kept : c[2] <= e

(* The range of each plan's jobs and its tiling, computed once.            *)
JobEnd == [t \in Plans |-> AlignedEnd(t)]
JobTiling == [t \in Plans |-> Tiling(JobEnd[t], t.size)]

StoredRanges(kind) == {<<r.lo, r.hi>> : r \in {s \in stored : s.kind = kind}}

(* job_coverage refuses receipts inside the window that are no chunk of it. *)
CoverageHolds(kind, t) ==
  \A c \in StoredRanges(kind) : c[2] > JobEnd[t] \/ c \in JobTiling[t]
Complete(kind, t) == JobTiling[t] \subseteq StoredRanges(kind)

-----------------------------------------------------------------------------
(* The sources *)

Primary == CHOOSE s \in Source : TRUE
Side(s, b) == IF s \in moved /\ b >= split THEN 1 ELSE 0
LogsOf(s, kind, lo, hi) ==
  {x \in {<<b, Side(s, b)>> : b \in lo..hi} : <<kind, x[1], x[2]>> \in Logged}

(* Mutation: the sources' logs are not compared.                           *)
Reconciled_Unchecked(a, b) == TRUE

(* reconcile_log_sets: the same identities from both.                      *)
Reconciled(a, b) == a = b

(* The chain replaces its last blocks, or the other source follows.        *)
Reorganise(s) ==
  /\ split <= Cutoff /\ s \notin moved /\ moved' = moved \cup {s}
  /\ UNCHANGED <<split, lax, stored, work, reported, troubles>>

Follow(s) == moved # {} /\ Reorganise(s)

-----------------------------------------------------------------------------
(* Offline *)

Blocks(logs) == {x[1] : x \in logs}

(* _verify_receipt_dependencies: a header for each block with logs.        *)
Verified(r) == {h[1] : h \in r.headers} = Blocks(r.logs)
(* decode_pair_event_logs: each log under the header of its own hash.      *)
Decodes(r) == r.logs \subseteq r.headers

Within(kind, end) == {r \in stored : r.kind = kind /\ r.hi <= end}
(* replay_receipts: every receipt of the range, in order and without gaps. *)
Replays(kind, end) ==
  LET R == Within(kind, end)
  IN  /\ \A r \in R : Verified(r) /\ Decodes(r)
      /\ \A r \in R : r.lo = 1 \/ \E q \in R : q.hi = r.lo - 1
      /\ \A r, q \in R : r # q => r.hi < q.lo \/ q.hi < r.lo
      /\ \E r \in R : r.hi = end
Rows(kind, end) == UNION {r.logs : r \in Within(kind, end)}

-----------------------------------------------------------------------------
(* An orchestrator *)

(* The jobs of a run are positions in event_kinds, worked off in order.    *)
Off == [pc |-> "off", plan |-> Production, jobs |-> {}, lo |-> 0, logs |-> {}, last |-> 0,
        headers |-> {}, cache |-> {}]
Pc(p) == work[p].pc
First(jobs) == CHOOSE i \in jobs : \A j \in jobs : i <= j
Job(p) == Kinds[First(work[p].jobs)]
Hi(p) == ChunkEnd(work[p].lo, work[p].plan.size, JobEnd[work[p].plan])
Becomes(p, w) == work' = [work EXCEPT ![p] = w]
Quits(p) == Becomes(p, Off)

(* The next chunk; behind the last one the job is completed and the next   *)
(* job begins.  Headers stay cached for the process.                       *)
Onward(p) ==
  LET w == work[p]
      end == JobEnd[w.plan]
      rest == w.jobs \ {First(w.jobs)}
      next == [w EXCEPT !.pc = "chunk", !.logs = {}, !.last = 0, !.headers = {}]
  IN  IF Hi(p) < end
      THEN Becomes(p, [next EXCEPT !.lo = Hi(p) + 1]) /\ UNCHANGED reported
      ELSE /\ reported' = reported \cup {[kind |-> Job(p), end |-> end]}
           /\ IF rest = {} THEN Quits(p)
              ELSE Becomes(p, [next EXCEPT !.jobs = rest, !.lo = 1])

(* run: the coverage of every job, which may refuse the run; jobs that are *)
(* complete are reported without looking at their evidence.                *)
Launch(p, t) ==
  /\ Pc(p) = "off" /\ JobEnd[t] > 0
  /\ \A k \in Range(Kinds) : CoverageHolds(k, t)
  /\ LET jobs == {i \in DOMAIN Kinds : ~Complete(Kinds[i], t)}
     IN  /\ reported' = reported \cup {[kind |-> Kinds[i], end |-> JobEnd[t]] :
                                         i \in DOMAIN Kinds \ jobs}
         /\ IF jobs = {} THEN UNCHANGED work
            ELSE Becomes(p, [Off EXCEPT !.pc = "chunk", !.plan = t, !.jobs = jobs, !.lo = 1])
  /\ UNCHANGED <<split, moved, lax, stored, troubles>>

Prior(p) == {r \in stored : r.kind = Job(p) /\ r.lo = work[p].lo /\ r.hi = Hi(p)}

(* A chunk with a receipt: its evidence, then the live hash of its end     *)
(* block on both sources.  What does not hold fails the job and the run.   *)
Resume(p) ==
  /\ Pc(p) = "chunk" /\ Prior(p) # {}
  /\ IF \A r \in Prior(p) : Verified(r) /\ \A s \in Source : Side(s, Hi(p)) = r.last
     THEN Onward(p)
     ELSE Quits(p) /\ UNCHANGED reported
  /\ UNCHANGED <<split, moved, lax, stored, troubles>>

(* eth_getLogs of both sources, one of which may omit some.                *)
FetchLogs(p) ==
  /\ Pc(p) = "chunk" /\ Prior(p) = {}
  /\ LET full == [s \in Source |-> LogsOf(s, Job(p), work[p].lo, Hi(p))]
     IN  \E part \in SUBSET full[lax] :
           LET got == [full EXCEPT ![lax] = part]
           IN  /\ troubles + (IF part = full[lax] THEN 0 ELSE 1) <= MaxTroubles
               /\ troubles' = troubles + (IF part = full[lax] THEN 0 ELSE 1)
               /\ IF \A a, b \in Source : Reconciled(got[a], got[b])
                  THEN Becomes(p, [work[p] EXCEPT !.pc = "end", !.logs = got[Primary]])
                  ELSE Quits(p)
  /\ UNCHANGED <<split, moved, lax, stored, reported>>

(* The header of the end block, equal on both sources.                     *)
FetchEnd(p) ==
  /\ Pc(p) = "end"
  /\ IF \A s \in Source : Side(s, Hi(p)) = 1
     THEN Becomes(p, [work[p] EXCEPT !.pc = "headers", !.last = 1])
     ELSE IF \A s \in Source : Side(s, Hi(p)) = 0
     THEN Becomes(p, [work[p] EXCEPT !.pc = "headers", !.last = 0])
     ELSE Quits(p)
  /\ UNCHANGED <<split, moved, lax, stored, reported, troubles>>

Cached(p, s, b) == {x \in work[p].cache : x[1] = s /\ x[2] = b}
(* What one source says of an event block: the end header just fetched,    *)
(* the cache, or a call.                                                   *)
HeaderSide(p, s, b) ==
  IF b = Hi(p) THEN work[p].last
  ELSE IF Cached(p, s, b) # {} THEN (CHOOSE x \in Cached(p, s, b) : TRUE)[3]
  ELSE Side(s, b)

(* Both sources' header of each event block has the hash of its logs.      *)
HeadersAgree(p) == \A x \in work[p].logs, s \in Source : HeaderSide(p, s, x[1]) = x[2]

(* The event-block headers; only blocks below the cutoff are cached.       *)
FetchHeaders(p) ==
  LET w == work[p]
      seen == {<<s, b, HeaderSide(p, s, b)>> : s \in Source, b \in Blocks(w.logs) \cup {Hi(p)}}
  IN  /\ Pc(p) = "headers"
      /\ IF HeadersAgree(p)
         THEN Becomes(p, [w EXCEPT !.pc = "insert",
                !.headers = {<<b, HeaderSide(p, Primary, b)>> : b \in Blocks(w.logs)},
                !.cache = @ \cup {x \in seen : x[2] < Cutoff}])
         ELSE Quits(p)
      /\ UNCHANGED <<split, moved, lax, stored, reported, troubles>>

(* The receipt, in one transaction.  A receipt that another orchestrator   *)
(* wrote meanwhile is an IntegrityError that nobody catches.               *)
Insert(p) ==
  LET w == work[p]
  IN  /\ Pc(p) = "insert"
      /\ IF Prior(p) = {}
         THEN /\ stored' = stored \cup {[kind |-> Job(p), lo |-> w.lo, hi |-> Hi(p),
                                         logs |-> w.logs, last |-> w.last,
                                         headers |-> w.headers]}
              /\ Onward(p)
         ELSE Quits(p) /\ UNCHANGED <<stored, reported>>
      /\ UNCHANGED <<split, moved, lax, troubles>>

(* A call fails, which fails the job and stops the run, or the process     *)
(* dies.                                                                   *)
Falter(p) ==
  /\ Pc(p) # "off" /\ troubles < MaxTroubles /\ troubles' = troubles + 1
  /\ Quits(p) /\ UNCHANGED <<split, moved, lax, stored, reported>>

-----------------------------------------------------------------------------
IngestInit ==
  /\ split \in Splits /\ moved = {} /\ lax \in Source
  /\ stored = {} /\ work = [p \in Orchestrator |-> Off]
  /\ reported = {} /\ troubles = 0

Steps(p) == Resume(p) \/ FetchLogs(p) \/ FetchEnd(p) \/ FetchHeaders(p) \/ Insert(p)

IngestNext ==
  \/ \E p \in Orchestrator : Steps(p) \/ Falter(p) \/ \E t \in Plans : Launch(p, t)
  \/ \E s \in Source : Reorganise(s)

IngestSpec == IngestInit /\ [][IngestNext]_ingestVars

(* A run goes on until it ends, somebody starts the production plan again  *)
(* and again, and the second source follows the first.                     *)
IngestFairness ==
  /\ \A p \in Orchestrator : WF_ingestVars(Steps(p)) /\ SF_ingestVars(Launch(p, Production))
  /\ \A s \in Source : WF_ingestVars(Follow(s))
FairIngestSpec == IngestSpec /\ IngestFairness

-----------------------------------------------------------------------------
(* Properties *)

(* Whatever later runs, pilots and races do, a job some run reported as    *)
(* done replays offline, and to exactly the chain's logs as far as its     *)
(* blocks are settled (job_coverage, production_aligned_end_block, the     *)
(* dual-provider checks of fetch).                                         *)
ReportsReplay ==
  \A d \in reported :
    /\ Replays(d.kind, d.end)
    /\ {x \in Rows(d.kind, d.end) : x[1] < split} =
       {<<b, 0>> : b \in {c \in 1..Least(split - 1, d.end) : <<d.kind, c, 0>> \in Logged}}

(* Failing calls, omitted logs, deaths, pilots and lost races never leave  *)
(* receipts that wedge the production plan: it is completed in the end.    *)
IngestCompletes ==
  <>(\A k \in Range(Kinds) : [kind |-> k, end |-> JobEnd[Production]] \in reported)
=============================================================================
