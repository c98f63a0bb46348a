-------------------------------- MODULE Rows --------------------------------
(***************************************************************************)
(* Rows of a table and the patches that repositories lay over them.  A row *)
(* is a record, a patch is a record of some of its columns, a table is a   *)
(* function from the ids ever used to a row or to None.                    *)
(*                                                                         *)
(* repository.update is three awaits: findOneOrFail loads the row and the  *)
(* patch is laid over it, save selects the row again and keeps the columns *)
(* that differ, one UPDATE writes those columns.                           *)
(***************************************************************************)
EXTENDS Integers

\* The row that takes the columns of the patch and keeps the others.
Patched(row, patch) ==
    [c \in DOMAIN row |-> IF c \in DOMAIN patch THEN patch[c] ELSE row[c]]

\* The patch that turns the stored row into the wanted one.
Delta(wanted, stored) ==
    [c \in {d \in DOMAIN wanted : wanted[d] # stored[d]} |-> wanted[c]]

Present(table, none) == {id \in DOMAIN table : table[id] # none}

\* SERIAL: ids are handed out in order.
NextId(table, none) ==
    {id \in DOMAIN table : table[id] = none /\ \A j \in DOMAIN table : j < id => table[j] # none}
=============================================================================
