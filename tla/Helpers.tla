------------------------------ MODULE Helpers ------------------------------
(***************************************************************************)
(* The helpers of src/lib.rs in the hands of a caller that has one field   *)
(* to serialize: a ranged integer, or a string copied to fit.              *)
(***************************************************************************)
EXTENDS IntegerHelpers, CopyString

VARIABLE field      \* what the caller has: integer or string

vars == <<field, fieldVars, copyVars>>

\* a caller with a string declares no integer
NoInteger == /\ width = (CHOOSE w \in WidthsOfInts : TRUE) /\ min = -1 /\ max = 0
             /\ sent = Nothing /\ code = 0 /\ got = Nothing

Init == \/ field = "integer" /\ FieldInit /\ CopyInit /\ ~checked /\ dest = <<>>
        \/ field = "string" /\ CopyInit /\ NoInteger

Integer == field = "integer" /\ FieldNext /\ UNCHANGED <<field, copyVars>>
String == field = "string" /\ CopyNext /\ UNCHANGED <<field, fieldVars>>

Next == Integer \/ String

\* serialize_copy_string runs to its end once it is called: nothing else runs in between
Spec == Init /\ [][Next]_vars /\ WF_vars(pc = "walk" /\ String)
=============================================================================
