--------------------------- MODULE MCWorkSchedules ---------------------------
(***************************************************************************)
(* Small instances of WorkSchedules for TLC.                               *)
(***************************************************************************)
EXTENDS WorkSchedules, TLC

Day   == [in |-> 9, out |-> 18, len |-> 1, brk |-> 12]
Late1 == [in |-> 9, out |-> 18, len |-> 1, brk |-> 13]       \* a later break
Short == [in |-> 9, out |-> 17, len |-> 0, brk |-> None]     \* another window

Shifts == {Day, Late1, Short}
Created == {[weekday |-> 1, hours |-> Short, from |-> 1, to |-> t] : t \in {None, 2}}
Edits   == {[hours |-> Late1], [to |-> 2]}
ChangesAsked ==
    {[weekday |-> 1, from |-> d, mode |-> "modify", hours |-> h] : d \in {1, 3}, h \in {Late1, Short}}
    \cup {[weekday |-> 1, from |-> 1, mode |-> "modify", hours |-> Day],   \* the hours stand
          [weekday |-> 1, from |-> 2, mode |-> "remove", hours |-> None]}
Asked ==
    {[first |-> 3, last |-> 3, portion |-> "first_half"],
     [first |-> 2, last |-> 3, portion |-> "full"]}

Symmetry == Permutations(Procs)
=============================================================================
