---------------------------- MODULE MCHarmonicRuns ----------------------------
(* HarmonicRuns on a small instance.                                       *)
EXTENDS HarmonicRuns

CONSTANTS w1, w2
=============================================================================
