------------------------------ MODULE PairPlan ------------------------------
(***************************************************************************)
(* The pure part of the Uniswap V2 pair-event plan                         *)
(* (uniswap_v2_pair_events_v2.py): the root windows and address cohorts a  *)
(* plan starts from, the versioned split policy, the headers a query needs *)
(* and the streaming coverage proof over leaf receipts.                    *)
(*                                                                         *)
(* Addresses are numbers in their sorted order.  A query domain is a block *)
(* interval lo..hi and the set ads of addresses it asks the logs of.       *)
(***************************************************************************)
EXTENDS Integers, FiniteSets

CONSTANTS
  Birth,       \* creation block of each pool address of the registry
  Deploy,      \* deployment_block: where the root windows start
  Cutoff,      \* cutoff_block: where they end
  WindowSize,  \* root_block_size
  CohortSize,  \* initial_cohort_size
  Events       \* <<address, block>> of every Swap or Sync log on chain

Pool == DOMAIN Birth
Block == Deploy..Cutoff
Domain == {d \in [lo : Block, hi : Block, ads : (SUBSET Pool) \ {{}}] : d.lo <= d.hi}
Cells(d) == (d.lo..d.hi) \X d.ads

ASSUME PlanAssumption ==
  /\ Deploy \in Nat /\ Cutoff \in Nat /\ Deploy <= Cutoff
  /\ WindowSize \in Nat \ {0} /\ CohortSize \in Nat \ {0}
  /\ Pool \subseteq Nat /\ IsFiniteSet(Pool) /\ Pool # {}
  /\ \A a \in Pool : Birth[a] \in Block
  /\ \A e \in Events : e[1] \in Pool /\ e[2] \in Birth[e[1]]..Cutoff

Least(x, y) == IF x < y THEN x ELSE y

(* Position of an address in the sorted address set S.                     *)
Rank(a, S) == Cardinality({b \in S : b < a})

(* Inclusive windows of WindowSize blocks, the last one cut at the cutoff. *)
RootWindows ==
  {<<s, Least(s + WindowSize - 1, Cutoff)>> :
     s \in {b \in Block : (b - Deploy) % WindowSize = 0}}

(* Fixed-size cohorts of a sorted address list; the last may be short.     *)
Cohorts(S) ==
  {{a \in S : Rank(a, S) \div CohortSize = k} :
     k \in {Rank(a, S) \div CohortSize : a \in S}}

(* One root per window and cohort of the pools born by the window's end.   *)
RootFilters ==
  UNION {{[lo |-> w[1], hi |-> w[2], ads |-> c] :
            c \in Cohorts({a \in Pool : Birth[a] <= w[2]})} : w \in RootWindows}

(* Mutation: the two halves of a block split share the middle block.       *)
SplitByBlock_Overlap(d) ==
  LET end == d.lo + (d.hi - d.lo + 1) \div 2 - 1
  IN  IF d.hi <= d.lo THEN {}
      ELSE {[d EXCEPT !.hi = end], [d EXCEPT !.lo = end]}

(* Two contiguous halves of the block interval; {} when there is one block *)
(* and the split raises.                                                   *)
SplitByBlock(d) ==
  LET end == d.lo + (d.hi - d.lo + 1) \div 2 - 1
  IN  IF d.hi <= d.lo THEN {}
      ELSE {[lo |-> d.lo, hi |-> end, ads |-> d.ads],
            [lo |-> end + 1, hi |-> d.hi, ads |-> d.ads]}

(* Two halves of the sorted addresses; only asked of two or more.          *)
SplitByAddress(d) ==
  LET left == {a \in d.ads : Rank(a, d.ads) < Cardinality(d.ads) \div 2}
  IN  {[lo |-> d.lo, hi |-> d.hi, ads |-> left],
       [lo |-> d.lo, hi |-> d.hi, ads |-> d.ads \ left]}

(* choose_split: a range limit splits the blocks; anything else the        *)
(* addresses while there are two.  {} stands for the error of a singleton. *)
Children(d, reason) ==
  IF reason = "block_range_limit" \/ Cardinality(d.ads) < 2
  THEN SplitByBlock(d) ELSE SplitByAddress(d)

Reason == {"oversized_result", "block_range_limit", "provider_disagreement"}

(* The domains a plan can reach by splits from its roots.                  *)
Reachable ==
  LET grow[n \in Nat] ==
        IF n = 0 THEN RootFilters
        ELSE grow[n-1] \cup UNION {Children(d, r) : d \in grow[n-1], r \in Reason}
  IN  grow[Cutoff - Deploy + 1 + Cardinality(Pool)]

(* The end-of-interval boundary and every block with a log of the domain.  *)
RequiredBlocks(d) ==
  {d.hi} \cup {b \in d.lo..d.hi : \E a \in d.ads : <<a, b>> \in Events}

(***************************************************************************)
(* prove_full_registry_coverage: one constant-size cursor per pool, fed    *)
(* the birth-clamped intervals of the leaves that name it, by start block. *)
(***************************************************************************)
Cursor == [end : Int, covered : Nat, gap : BOOLEAN, over : BOOLEAN]
Fresh(a) == [end |-> Birth[a] - 1, covered |-> 0, gap |-> FALSE, over |-> FALSE]

AddSorted(c, lo, hi) ==
  IF lo <= c.end
  THEN [end |-> IF hi > c.end THEN hi ELSE c.end,
        covered |-> c.covered + (IF hi > c.end THEN hi - c.end ELSE 0),
        gap |-> c.gap, over |-> TRUE]
  ELSE [end |-> hi, covered |-> c.covered + hi - lo + 1,
        gap |-> c.gap \/ lo > c.end + 1, over |-> c.over]

(* The leaves of a pool, fed in order of their start, then end block.      *)
Stream(a, leaves) ==
  LET fed[S \in SUBSET leaves] ==
        IF S = {} THEN Fresh(a)
        ELSE LET d  == CHOOSE d \in S : \A e \in S :
                         d.lo > e.lo \/ (d.lo = e.lo /\ d.hi >= e.hi)
                 lo == IF d.lo > Birth[a] THEN d.lo ELSE Birth[a]
                 c  == fed[S \ {d}]
             IN  IF d.hi < lo THEN c ELSE AddSorted(c, lo, d.hi)
  IN  fed[leaves]

(* is_complete: no gap, no overlap and the expected number of blocks.      *)
Complete(a, leaves) ==
  LET c == Stream(a, {d \in leaves : a \in d.ads})
  IN  /\ ~c.gap /\ c.end >= Cutoff
      /\ ~c.over
      /\ c.covered = Cutoff - Birth[a] + 1
=============================================================================
