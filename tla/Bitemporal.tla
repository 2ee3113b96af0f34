---- MODULE Bitemporal ----
(* Rows with two half-open windows: valid time [vf, vt) and knowledge time       *)
(* [kf, kt), an open end being a number above every timestamp                    *)
(* (reference/models.py, reference/store.py, catalog/as_of.py).                  *)
EXTENDS Naturals

CONSTANTS Time,  \* timestamps, a set of numbers
          Open   \* the open end

(* The open end is later than every timestamp.                                   *)
ASSUME TimeAssumption == Time \subseteq Nat /\ Open \in Nat /\ \A t \in Time : t < Open

Window == {w \in [vf : Time, vt : Time \cup {Open}, kf : Time, kt : Time \cup {Open}] :
             w.vf < w.vt /\ w.kf < w.kt}

WindowOf(r) == [vf |-> r.vf, vt |-> r.vt, kf |-> r.kf, kt |-> r.kt]

Active(r, d, k) == r.vf <= d /\ d < r.vt /\ r.kf <= k /\ k < r.kt

(* Mutation: an open end compares with nothing, as a NULL does without COALESCE.  *)
Overlaps_NullEnd(a, b) ==
    /\ Open \notin {a.vt, b.vt, a.kt, b.kt}
    /\ a.vf < b.vt /\ b.vf < a.vt /\ a.kf < b.kt /\ b.kf < a.kt

Overlaps(a, b) == a.vf < b.vt /\ b.vf < a.vt /\ a.kf < b.kt /\ b.kf < a.kt

Closed(r, at) == [r EXCEPT !.kt = at]

(* Mutation: the replacement may become known later than the closure.             *)
Corrects_Gap(w, r, at) == r.kt = Open /\ r.kf < at /\ w.kf >= at

(* A correction closes an open row at an instant after it became known, and its   *)
(* replacement is known from that very instant.                                   *)
Corrects(w, r, at) == r.kt = Open /\ r.kf < at /\ w.kf = at

(* The as-of reader: a row is used once it is available, which for a reference     *)
(* row is its known_from.                                                          *)
ReferenceEligible(r, d, k) == Active(r, d, k) /\ r.kf <= d
====
