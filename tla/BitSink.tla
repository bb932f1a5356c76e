------------------------------ MODULE BitSink ------------------------------
(***************************************************************************)
(* What a bit writer promises: an append-only string of bits of bounded    *)
(* length that is sealed once.  A string of len bits is the set of the     *)
(* positions, among 0 .. len-1, that hold a one.                           *)
(***************************************************************************)
EXTENDS Integers

CONSTANT Capacity       \* how many bits the sink can take

VARIABLES bits,         \* positions that hold a one
          len,          \* how many bits were appended
          sealed        \* no further append

sinkVars == <<bits, len, sealed>>

SinkInit == bits = {} /\ len = 0 /\ sealed = FALSE

\* one or more bits go after the last one; those already there stay
Append == /\ ~sealed /\ UNCHANGED sealed
          /\ len' \in len+1 .. Capacity
          /\ bits' \subseteq 0 .. len'-1
          /\ {i \in bits' : i < len} = bits

Seal == sealed' = TRUE /\ UNCHANGED <<bits, len>>

SinkNext == Append \/ Seal

SinkSpec == SinkInit /\ [][SinkNext]_sinkVars
=============================================================================
