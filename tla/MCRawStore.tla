----------------------------- MODULE MCRawStore -----------------------------
(* RawStore on small instances.                                            *)
EXTENDS RawStore, TLC

CONSTANTS w1, w2, r1, t1, t2, c1, c2, a1, a2, m1

(* Two calls for one acquisition id that fetched different bytes, one for  *)
(* the same bytes under another id, and one without catalog registration.  *)
MCJobs ==
  {[acq |-> a1, content |-> c1, meta |-> m1, register |-> TRUE],
   [acq |-> a1, content |-> c2, meta |-> m1, register |-> TRUE],
   [acq |-> a2, content |-> c1, meta |-> m1, register |-> TRUE]}

MCSmallJobs ==
  {[acq |-> a1, content |-> c1, meta |-> m1, register |-> TRUE],
   [acq |-> a2, content |-> c1, meta |-> m1, register |-> FALSE]}

(* One call that two processes make, so that both fail, or both register,  *)
(* under one id.                                                           *)
MCLiveJobs == {[acq |-> a1, content |-> c1, meta |-> m1, register |-> TRUE]}

MCSymmetry == Permutations({w1, w2}) \cup Permutations({t1, t2})
=============================================================================
