-------------------------- MODULE MCTimeCorrections --------------------------
(***************************************************************************)
(* Small instances of TimeCorrections for TLC.                             *)
(***************************************************************************)
EXTENDS TimeCorrections, TLC

CONSTANTS e1, m1, m2, hr

TwoStep     == {[l1 |-> m1, l2 |-> m2]}
Codes       == {"TIME:Create", "TIME:Update", "TIME:Delete", "TIME_CORRECTION:Create",
                "TIME_CORRECTION:Update", "TIME_CORRECTION:Approve", "TIME_CORRECTION:ApproveAny",
                "TIME_CORRECTION:Delete"}
\* Employees submit, managers approve; HR is a system administrator.
CanByRole   == [c \in Codes |->
                  CASE c = "TIME_CORRECTION:Create"  -> {e1}
                    [] c = "TIME_CORRECTION:Approve" -> {m1, m2}
                    [] OTHER -> {}]
Closed      == [date |-> 1, in |-> 1, out |-> 2]
Opened      == [date |-> 1, in |-> 1, out |-> None]
OneWindow   == {Closed}
OpenEntry   == {NewEntry(e1, 1, 1, None)}
TwoChains   == TwoStep \cup {[l1 |-> m2, l2 |-> None]}
Reopen      == {[out |-> None]}
OutEdits    == {[out |-> None], [in |-> 2]}

Symmetry == Permutations(Procs)
=============================================================================
