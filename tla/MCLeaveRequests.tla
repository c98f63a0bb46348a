--------------------------- MODULE MCLeaveRequests ---------------------------
(***************************************************************************)
(* Small instances of LeaveRequests for TLC.                               *)
(***************************************************************************)
EXTENDS LeaveRequests, TLC

CONSTANTS e1, m1, m2, hr, vac

OneStep == [l1 |-> m1, l2 |-> None]
TwoStep == [l1 |-> m1, l2 |-> m2]
NoChain == [l1 |-> None, l2 |-> None]
AllChains == {NoChain, OneStep, TwoStep}
SingleChain == {OneStep}

Allotted     == [t \in Types |-> 2]
Unallotted   == [t \in Types |-> 0]

Symmetry == Permutations(Procs)
=============================================================================
