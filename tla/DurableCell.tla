---------------------------- MODULE DurableCell ----------------------------
(***************************************************************************)
(* What one file of the current-user directory promises to the code that   *)
(* stores state in it: a cell that holds one whole value at a time.  A     *)
(* commit makes a new value visible at once; until the cell is settled a   *)
(* power loss may bring back a value committed earlier, never a mixture.   *)
(***************************************************************************)
CONSTANT Contents          \* the whole values a cell may hold, "no file" included

VARIABLES visible,         \* what a reader of the file sees now
          survivors        \* what it may see after the machine loses power

cellVars == <<visible, survivors>>

CellInit == /\ visible \in Contents
            /\ survivors = {visible}

\* A new value becomes visible; it either joins the values a power loss may
\* leave (Unix rename) or is the only one (Windows write-through move).
Commit(c) == /\ visible' = c
             /\ \/ survivors' = survivors \cup {c}
                \/ survivors' = {c}

Settle == /\ survivors' = {visible}
          /\ UNCHANGED visible

Lose == /\ visible' \in survivors
        /\ survivors' = {visible'}

CellNext == \/ \E c \in Contents : Commit(c)
            \/ Settle
            \/ Lose

CellSpec == CellInit /\ [][CellNext]_cellVars
=============================================================================
