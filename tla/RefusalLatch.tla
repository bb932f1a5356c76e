---------------------------- MODULE RefusalLatch ----------------------------
(***************************************************************************)
(* What a reader of untrusted packets promises its caller ("failure is     *)
(* terminal"): the position only moves forward and stays in the packet;    *)
(* the first refusal is kept, and from then on every call answers with it, *)
(* consumes nothing and writes nothing; a refused call writes nothing.     *)
(***************************************************************************)
EXTENDS Integers

CONSTANTS Ok, Reasons   \* answers

VARIABLES size,         \* bits in the packet
          position,     \* bits consumed
          refusal,      \* the first refusal, Ok while there is none
          answer,       \* what the last call returned
          written       \* whether the last call stored into its destination

latchVars == <<size, position, refusal, answer, written>>

LatchInit == /\ size \in Nat /\ position = 0 /\ written = FALSE
             /\ refusal \in Reasons \cup {Ok} /\ answer = refusal

Forward == position' \in position .. size /\ UNCHANGED size

Accept == /\ refusal = Ok /\ UNCHANGED refusal
          /\ answer' = Ok /\ Forward /\ written' \in BOOLEAN

Refuse == /\ refusal = Ok /\ refusal' \in Reasons
          /\ answer' = refusal' /\ Forward /\ written' = FALSE

Echo == /\ refusal # Ok /\ UNCHANGED <<size, position, refusal>>
        /\ answer' = refusal /\ written' = FALSE

LatchSpec == LatchInit /\ [][Accept \/ Refuse \/ Echo]_latchVars
=============================================================================
