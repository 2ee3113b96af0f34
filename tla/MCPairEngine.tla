---------------------------- MODULE MCPairEngine ----------------------------
EXTENDS PairEngine, TLC

(* Blocks: one pool born at the first of two blocks, a log in the first.   *)
BlockBirth == [a \in {1} |-> 1]
BlockEvents == {<<1, 1>>}

(* Pools: two pools born at the only block, a log of the first.            *)
PoolBirth == [a \in {1, 2} |-> 1]
PoolEvents == {<<1, 1>>}

(* The root and its two halves, written out: TLC would compute Reachable   *)
(* again at every use.                                                     *)
BlockDomains == {[lo |-> b[1], hi |-> b[2], ads |-> {1}] :
                   b \in {<<1, 2>>, <<1, 1>>, <<2, 2>>}}
PoolDomains == {[lo |-> 1, hi |-> 1, ads |-> S] : S \in {{1, 2}, {1}, {2}}}
ASSUME Reachable \subseteq Domains

(* Workers are interchangeable: they differ in nothing but their name.     *)
MCSymmetry == Permutations(Worker)
=============================================================================
