--------------------------- MODULE MCApprovalChains ---------------------------
(***************************************************************************)
(* Small instances of ApprovalChains for TLC.                              *)
(***************************************************************************)
EXTENDS ApprovalChains, TLC

CONSTANTS e1, m1, m2

\* The first step of e1 is reassigned; m2, who approves e1, has one step too.
OneReassigned ==
    [s \in Slots |-> IF s = <<e1, 1>> THEN 2 ELSE IF s = <<m2, 2>> THEN 0 ELSE 1]
EachOnce      == [s \in Slots |-> 1]

Symmetry == Permutations(Procs)
=============================================================================
