---------------------------- MODULE MCCompensation ----------------------------
(***************************************************************************)
(* Small instances of Compensation for TLC.                                *)
(***************************************************************************)
EXTENDS Compensation, TLC

CONSTANTS e1, e2

OneOrBoth == {{e1}, {e1, e2}}
Symmetry  == Permutations(Procs)
=============================================================================
