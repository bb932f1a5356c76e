---------------------------- MODULE MCReadStream ----------------------------
(* The read stream, and its controls, on packets of bytes of two bits, with groups of four bits. *)
EXTENDS Controls

Packet(bits, ones) == [bits |-> bits, ones |-> ones, fits |-> TRUE]

\* every packet of up to three bytes, and one whose byte count is larger than its buffer
ShortPackets == {Packet(bits, ones) : bits \in {0, 2, 4, 6}, ones \in SUBSET (0..5)}

MCPackets ==
  {p \in ShortPackets : p.ones \subseteq 0 .. p.bits - 1}
    \cup {[bits |-> 4, ones |-> {0}, fits |-> FALSE]}
    \cup {Packet(8, s) : s \in SUBSET (3..7)}
    \cup {Packet(16, {}), Packet(16, 0..15), Packet(16, {0, 3, 15}), Packet(14, {1, 4, 13})}

MCWidths == {0, 1, 3, 4, 5}
MCWideWidths == {0, 7, 8, 9}
MCRanges == {<<2, 1>>, <<-3, -3>>, <<-8, 7>>, <<-1, 3>>, <<0, 20>>, <<-100, 127>>, <<-256, 44>>, <<0, 5000>>}
Format(i, f, s, signed, min, max) ==
  [integer |-> i, fraction |-> f, storage |-> s, signed |-> signed, min |-> min, max |-> max]
MCFormats == {Format(0, 4, 4, TRUE, 0, 0), Format(2, 1, 4, TRUE, 0, 1), Format(3, 1, 4, TRUE, 2, 1),
              Format(3, 1, 4, TRUE, -4, 3), Format(3, 1, 4, TRUE, 0, 4), Format(3, 1, 4, FALSE, 2, 2),
              Format(3, 1, 4, FALSE, 5, 8), Format(3, 1, 4, FALSE, -1, 2), Format(3, 1, 4, FALSE, 1, 3),
              Format(4, 4, 8, TRUE, -2, 3)}
MCQuanta == {[declared |-> FALSE, max |-> 3, top |-> 3], [declared |-> TRUE, max |-> 5, top |-> 4]}
MCSizes == {0, 1, 3, 4, 8}
MCLengths == {0, 1, 2}
MCPrevious == {-1, 0, 2, 6}
MCTiers == <<4, 6>>

\* a view: no step depends on the last call, and no invariant does unless it delivered a value
WithoutCall == <<packet, num_bits, bits_read, failed, result, dest, depth, dirty, ended, trapped,
                 IF dest = Old THEN Old ELSE call>>
=============================================================================
