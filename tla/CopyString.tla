----------------------------- MODULE CopyString -----------------------------
(***************************************************************************)
(* serialize_copy_string of src/lib.rs, an iteration of its loop at a      *)
(* time.  A Rust string is a sequence of characters and is indexed by      *)
(* bytes: a character is the number of its bytes, 0 for NUL, which takes   *)
(* one; of its bytes the first is the character itself and the others are  *)
(* continuation bytes.                                                     *)
(***************************************************************************)
EXTENDS Integers, SequencesExt

CONSTANTS Strings,      \* what is copied: sequences of characters
          BufferSizes,  \* of the fields that the copies are for
          Before        \* what a destination holds before: bytes

\* UTF-8: a character takes one to four bytes
ASSUME CopyAssumption == Strings \subseteq Seq(0..4) /\ BufferSizes \subseteq Nat

VARIABLES checked,              \* whether debug assertions are kept
          chars, buffer_size,   \* of the call
          source, end,          \* its locals: the bytes before the first NUL, and how many to copy
          pc,                   \* where it is: idle or walk
          dest,                 \* the caller's string, in bytes
          outcome               \* of the call: ok, trap, or none yet

copyVars == <<checked, chars, buffer_size, source, end, pc, dest, outcome>>

NUL == 0
Continuation == 9

Continuations == <<Continuation, Continuation, Continuation>>
BytesOf(cs) == FlattenSeq([i \in DOMAIN cs |-> <<cs[i]>> \o SubSeq(Continuations, 1, cs[i] - 1)])

\* source.split('\0').next()
BeforeNul(bytes) ==
  LET nul == SelectInSeq(bytes, LAMBDA b : b = NUL)
  IN  IF nul = 0 THEN bytes ELSE SubSeq(bytes, 1, nul - 1)

\* mutant: the last byte kept is looked at
IsCharBoundaryBefore(n) == n \in 1 .. Len(source) - 1 => source[n] # Continuation

\* str::is_char_boundary looks at the first byte left out
IsCharBoundary(n) == n \in 1 .. Len(source) - 1 => source[n+1] # Continuation

-----------------------------------------------------------------------------

CopyInit == /\ checked \in BOOLEAN /\ chars = <<>> /\ buffer_size = 0 /\ source = <<>> /\ end = 0
            /\ pc = "idle" /\ dest \in Before /\ outcome = "none"

Trap == /\ checked /\ buffer_size' = 0 /\ outcome' = "trap"
        /\ UNCHANGED <<source, end, pc, dest>>

\* buffer_size - 1 saturates
Start == /\ buffer_size' >= 1 \/ ~checked
         /\ dest' = <<>>
         /\ source' = BeforeNul(BytesOf(chars'))
         /\ end' = (IF buffer_size' = 0 THEN 0
                    ELSE IF Len(source') < buffer_size' THEN Len(source') ELSE buffer_size' - 1)
         /\ pc' = "walk" /\ UNCHANGED outcome

Call == /\ pc = "idle" /\ outcome = "none" /\ chars' \in Strings /\ buffer_size' \in BufferSizes
        /\ Trap \/ Start
        /\ UNCHANGED checked

\* mutant: two bytes at a time, the size of the shortest
WalkBackPairs == /\ pc = "walk" /\ ~IsCharBoundary(end) /\ end' = end - 2 /\ end > 1
                 /\ UNCHANGED <<checked, chars, buffer_size, source, pc, dest, outcome>>

WalkBack == /\ pc = "walk" /\ ~IsCharBoundary(end) /\ end' = end - 1
            /\ UNCHANGED <<checked, chars, buffer_size, source, pc, dest, outcome>>

Copy == /\ pc = "walk" /\ IsCharBoundary(end)
        /\ dest' = dest \o SubSeq(source, 1, end)
        /\ pc' = "idle" /\ outcome' = "ok"
        /\ UNCHANGED <<checked, chars, buffer_size, source, end>>

CopyNext == Call \/ WalkBack \/ Copy

-----------------------------------------------------------------------------
(* Properties *)

\* the prefixes that a string field of buffer_size carries: whole characters, no NUL
Carried == {p \in Prefixes(chars) : ~Contains(p, NUL) /\ Len(BytesOf(p)) < buffer_size} \cup {<<>>}

\* "The longest prefix that fits and does not end inside a character, and serialize_string with
\* that buffer_size accepts it" (U15), whatever dest held before and whatever follows a NUL.
LongestThatFits ==
  pc = "idle" /\ outcome = "ok" =>
    \E p \in Carried : dest = BytesOf(p) /\ \A q \in Carried : Len(q) <= Len(p)

\* The walk ends: it cannot step over the start of the string.
CopyReturns == pc = "walk" ~> pc = "idle"
=============================================================================
