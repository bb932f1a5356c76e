---------------------------- MODULE MCBitReader ----------------------------
(* The bit reader with bytes of 2 bits, windows of 2 bytes, and spans of 6. *)
EXTENDS BitReader

\* every pattern of the last bytes of a short packet, with and without slack full of ones
Short == {[ones |-> s \cup slack, bytes |-> 4, packet |-> 3] : s \in SUBSET (0..5), slack \in {{}, {6, 7}}}
           \cup {[ones |-> s, bytes |-> 3, packet |-> 3] : s \in SUBSET (0..5)}
           \cup {[ones |-> {}, bytes |-> 0, packet |-> 0]}

\* buffers that have room for a span, and run out of it as the reader advances
Long == {[ones |-> {i \in 0 .. 2*n - 1 : i % m \in r}, bytes |-> n, packet |-> 7] :
           n \in {7, 8, 12}, m \in {3, 5}, r \in {{0}, {1}, {0, 2}}}

Lying == {[ones |-> 0 .. 2*n - 1, bytes |-> n, packet |-> 7] : n \in {0, 1, 3, 6}}

MCBuffers == Short \cup Long
CarelessBuffers == Long \cup Lying

MCGroups == UNION {[1..n -> 1..3] : n \in 1..3} \cup {<<1, 1, 1, 1, 1, 1>>, <<>>}
CarelessGroups == UNION {[1..n -> {0, 1, 3, 4}] : n \in 1..3} \cup {<<1, 1, 1, 1, 1, 1, 0>>, <<0, 5, 1>>}
AllGroups == MCGroups \cup CarelessGroups
=============================================================================
