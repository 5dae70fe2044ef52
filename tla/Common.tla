------------------------------- MODULE Common -------------------------------
(* What the models of the stores share: a missing value, and tables of rows by key. *)

CONSTANT None   \* no value: a NULL column, an absent field, a missing row

(* The table with the row at the key, inserted or replaced. *)
WithRow(table, key, row) ==
    [k \in DOMAIN table \union {key} |-> IF k = key THEN row ELSE table[k]]
=============================================================================
