----------------------------- MODULE QualLedger -----------------------------
(***************************************************************************)
(* Sample plans and byte ledgers of the Gate 1 qualification               *)
(* (acquisition/binance_usdm_harmonic_qualification.py): what a plan       *)
(* selects, what a ledger reserves and charges, and what an executing      *)
(* version-4 ledger may contain.  Values only; Qualification has the state. *)
(***************************************************************************)
EXTENDS Integers, Sequences, FiniteSets, FiniteSetsExt

CONSTANTS
  Key,      \* planned archive objects
  Listed,   \* size of each in the listing
  Actual,   \* bytes the provider sends, at most the listed size and a slack
  Absent

ASSUME SizeAssumption ==
  /\ IsFiniteSet(Key) /\ Absent \notin Key \cup Nat
  /\ Listed \in [Key -> Nat \ {0}] /\ Actual \in [Key -> Nat \ {0}]

(* max: what the bytes retained before the ledger may have cost.  charge:  *)
(* transferred bytes of each settled object, 0 for "no transfer".          *)
(* receipts: executing sources of an amendment ledger.                     *)
Ledger == [max : Nat, reserved : SUBSET Key, charge : [Key -> Nat \cup {Absent}],
           receipts : Seq(Nat)]
NewLedger(max, receipts) ==
  [max |-> max, reserved |-> {}, charge |-> [k \in Key |-> Absent], receipts |-> receipts]

Bytes(size, S) == MapThenSumSet(LAMBDA k : size[k], S)
Settled(l) == {k \in Key : l.charge[k] # Absent}
Known(l) == l.reserved \cup Settled(l)

(* The planned size of a charge: a floor that a larger transfer raises.    *)
Planned(l, k) == IF k \in Settled(l) /\ l.charge[k] > Listed[k] THEN l.charge[k] ELSE Listed[k]

Charged(l) == Bytes(l.charge, Settled(l)) + Bytes(Listed, l.reserved)
SpentMax(l) == Charged(l) + l.max
Remaining(l, budget) == IF SpentMax(l) < budget THEN budget - SpentMax(l) ELSE 0

Reserve(l, k) ==
  IF k \in Known(l) THEN l ELSE [l EXCEPT !.reserved = @ \cup {k}]

Settle(l, k, transferred) ==
  [l EXCEPT !.charge[k] = transferred, !.reserved = @ \ {k}]

(* Greedy selection: what is retained is reused; what fits the allowance   *)
(* beside the objects chosen before it is downloaded; the rest is blocked. *)
(* The order is the inventory's, which a plan does not otherwise record.   *)
Fits(S, allowance) == Bytes(Listed, S) <= allowance
Downloads(plan) == {k \in Key : plan[k] = "download"}
IsPlan(plan, retained, allowance) ==
  LET new == Downloads(plan) IN
    /\ {k \in Key : plan[k] = "reuse"} = retained
    /\ Fits(new, allowance)
    /\ \A k \in Key : plan[k] = "blocked" => ~Fits(new \cup {k}, allowance)
Sample == [Key -> {"reuse", "download", "blocked"}]
Plans(retained, allowance) == {plan \in Sample : IsPlan(plan, retained, allowance)}

(* An executing amendment ledger names downloads of the locked plan only,  *)
(* at their locked sizes, within the allowance.                            *)
ChargesLockedPlan(l, plan, allowance) ==
  /\ \A k \in Known(l) : plan[k] = "download" /\ Planned(l, k) = Listed[k]
  /\ Bytes(Listed, Known(l)) <= allowance
=============================================================================
