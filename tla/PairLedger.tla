----------------------------- MODULE PairLedger -----------------------------
(***************************************************************************)
(* What the pair-event engine promises about one acquisition plan: the     *)
(* domains still in force partition the plan at all times, a domain is     *)
(* replaced only by a partition of itself, and the verdict on a domain,    *)
(* agreed by both providers or blocked, is final.                          *)
(***************************************************************************)
EXTENDS FiniteSets

CONSTANTS Domains, Roots, Area(_)

VARIABLE frontier   \* partial function: domain in force -> its verdict

Verdict == {"open", "agreed", "blocked"}

Partition(P, whole) ==
  /\ UNION {Area(d) : d \in P} = whole
  /\ \A d, e \in P : d # e => Area(d) \cap Area(e) = {}

Init == frontier = [d \in {} |-> "open"]

Plan ==
  /\ \E S \in SUBSET (Roots \ DOMAIN frontier) :
       frontier' = [d \in DOMAIN frontier \cup S |->
                      IF d \in S THEN "open" ELSE frontier[d]]

Decide == \E d \in DOMAIN frontier, v \in {"agreed", "blocked"} :
  /\ frontier[d] = "open"
  /\ frontier' = [frontier EXCEPT ![d] = v]

(* Several leases can lapse in one transaction.                            *)
Block ==
  /\ DOMAIN frontier' = DOMAIN frontier
  /\ \A d \in DOMAIN frontier :
       frontier'[d] \in {frontier[d]} \cup (IF frontier[d] = "open" THEN {"blocked"} ELSE {})

Split == \E d \in DOMAIN frontier :
  LET P == DOMAIN frontier' \ DOMAIN frontier
  IN  /\ frontier[d] = "open"
      /\ P \subseteq Domains /\ Partition(P, Area(d))
      /\ frontier' = [e \in (DOMAIN frontier \ {d}) \cup P |->
                        IF e \in P THEN "open" ELSE frontier[e]]

Next == Plan \/ Decide \/ Block \/ Split

Spec == Init /\ [][Next]_frontier
=============================================================================
