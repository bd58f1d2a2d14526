------------------------------ MODULE Filtering ------------------------------
(* The loop in which the code filters a list: every element of one list is   *)
(* looked at in turn and appended to a new one when it stays.                *)
EXTENDS Integers, Sequences, Functions

Filtered(list, stays) ==
    LET kept[n \in 0 .. Len(list)] ==
            IF n = 0 THEN <<>>
            ELSE IF list[n] \in stays THEN Append(kept[n - 1], list[n])
            ELSE kept[n - 1]
    IN  kept[Len(list)]
=============================================================================
