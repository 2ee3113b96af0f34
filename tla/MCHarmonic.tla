------------------------------ MODULE MCHarmonic ------------------------------
(***************************************************************************)
(* The two byte budgets of the harmonic pilot, the Coinalyze allocation    *)
(* and the ledgers of the Gate 1 qualification.  They share no state: a    *)
(* behaviour runs the one "part" names and the other stays as it begins.   *)
(***************************************************************************)
EXTENDS HarmonicCharges, Qualification, TLC

CONSTANTS w1, w2, i1, i2, c1, c2, a, b, c

(* One body fits twice into the ceiling, one body once.                    *)
MCSize == c1 :> 1 @@ c2 :> 2

(* a comes larger than listed and is recoverable; b is planned twice; c    *)
(* has rows that do not validate.                                          *)
Sizes == a :> 2 @@ b :> 2 @@ c :> 2
Bodies == a :> 3 @@ b :> 2 @@ c :> 2

(* The qualification does not name workers or requests.                    *)
MCSymmetry == Permutations({w1, w2}) \cup Permutations({i1, i2})

VARIABLE part

MCInit ==
  /\ part \in {"charges", "qualification"} /\ Init /\ QualInit
  (* One beginning of the part that rests.                                 *)
  /\ part = "charges" => objects = {} /\ lock = Absent

MCNext ==
  /\ UNCHANGED part
  /\ \/ part = "charges" /\ Next /\ UNCHANGED qualVars
     \/ part = "qualification" /\ QualNext /\ UNCHANGED vars

MCSpec == MCInit /\ [][MCNext]_<<part, vars, qualVars>>
=============================================================================
