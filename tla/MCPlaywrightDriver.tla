-------------------------- MODULE MCPlaywrightDriver --------------------------
(* A small instance of PlaywrightDriver for TLC.  Liveness is checked with    *)
(* the invariants, so no symmetry is declared.                                *)
EXTENDS PlaywrightDriver, TLC
=============================================================================
