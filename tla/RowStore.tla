-------------------------------- MODULE RowStore --------------------------------
(***************************************************************************)
(* What a table is to the handlers: a row is created with the columns its  *)
(* creator has chosen and the table's defaults, and changed in the columns *)
(* its writer has chosen and in no other.                                  *)
(***************************************************************************)
CONSTANTS Keys, Writers, Schemas,
          Cols(_),                \* the columns of a table
          Creating(_), Writing(_), \* the sets of columns chosen at once
          Defaulted(_),           \* the columns that have a default
          Wrote(_, _),            \* Wrote(w, c): what w writes into c
          AutoKey(_), Key(_, _),  \* an AUTO_INCREMENT, and Key(k, c): what it gives
          Default, Null, Absent

VARIABLES table, rows

StoreInit == table \in Schemas /\ rows = [k \in Keys |-> Absent]

Create(k, w, C) ==
    /\ rows[k] = Absent
    /\ rows' = [rows EXCEPT ![k] =
          [c \in Cols(table) |-> IF c \in C THEN Wrote(w, c)
                                 ELSE IF c \in AutoKey(table) THEN Key(k, c)
                                 ELSE IF c \in Defaulted(table) THEN Default ELSE Null]]

Change(k, w, C) ==
    /\ rows[k] # Absent
    /\ rows' = [rows EXCEPT ![k] = [c \in Cols(table) |-> IF c \in C THEN Wrote(w, c)
                                                                    ELSE rows[k][c]]]

Delete(k) ==
    /\ rows[k] # Absent
    /\ rows' = [rows EXCEPT ![k] = Absent]

(* What changes nothing is a stutter.                                      *)
StoreNext ==
    /\ rows' # rows
    /\ \E k \in Keys :
          \/ \E w \in Writers : \/ \E C \in Creating(table) : Create(k, w, C)
                                \/ \E C \in Writing(table) : Change(k, w, C)
          \/ Delete(k)
    /\ UNCHANGED table

StoreSpec == StoreInit /\ [][StoreNext]_<<table, rows>>
=============================================================================
