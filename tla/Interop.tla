------------------------------ MODULE Interop ------------------------------
(***************************************************************************)
(* The wire compatibility check of examples/wire_interop.rs: one           *)
(* implementation writes a file of two packets back to back, the golden    *)
(* one and an extended one, and another reads it.  The second packet is    *)
(* whatever follows the length of the golden one, each is read by a        *)
(* stream of its own up to its own end, and what was decoded is compared   *)
(* with the values that both sides know, encoded again and compared with   *)
(* the file.  The calls, on either side, are those of RoundTrip.           *)
(***************************************************************************)
EXTENDS Format

CONSTANTS GoldenPacket, ExtendedPacket, \* the two packets: sequences of calls
          Capacity,             \* bits of the buffer that each is written into
          Burst,                \* bound: the bits of a file that a harm changes are this close together
          Old                   \* what a call that has no value delivers

VARIABLES phase,                \* write, golden, extended, compare or done
          harm,                 \* history: what became of the file
          input, length,        \* the file: the positions of its ones, and its length in bytes
          packet, num_bits,     \* the packet being read
          bits_read, failed,    \* its stream
          received,             \* what the calls on it delivered
          golden,               \* what was decoded of the golden packet
          verdict               \* of read_file, ok or error; none yet

file == <<harm, input, length>>
stream == <<packet, num_bits, bits_read, failed>>
vars == <<phase, file, stream, received, golden, verdict>>

Ok == "ok"

\* the packet that is being read
Message == IF phase = "golden" THEN GoldenPacket ELSE ExtendedPacket

M == INSTANCE RoundTrip WITH
       Calls <- {}, MaxCalls <- 0, ones <- {}, bits_written <- 0, sent <- Message, marks <- <<>>

-----------------------------------------------------------------------------
(* Writing the file *)

\* write_packet: exactly the bytes that the writer reports
Encode(cs) == LET w == M!Written(cs) IN [ones |-> w.ones, bytes |-> M!Bytes(w.at)]

Join(a, b) == [ones |-> a.ones \cup {a.bytes * ByteBits + i : i \in b.ones}, bytes |-> a.bytes + b.bytes]

\* the pinned bytes of the golden packet
GoldenBytes == Encode(GoldenPacket).bytes
Correct == Join(Encode(GoldenPacket), Encode(ExtendedPacket))

\* compressed floats that land between quanta, which another arithmetic sends as the quantum below
Between == {i \in DOMAIN ExtendedPacket :
              ExtendedPacket[i].op = "compressed" /\ ExtendedPacket[i].halves % 2 = 1}
Drifted(fields) == [i \in DOMAIN ExtendedPacket |->
  IF i \in fields THEN [ExtendedPacket[i] EXCEPT !.halves = @ - 1] ELSE ExtendedPacket[i]]

Init == /\ phase = "write" /\ harm = "none" /\ input = {} /\ length = 0
        /\ packet = {} /\ num_bits = 0 /\ bits_read = 0 /\ failed = Ok
        /\ received = <<>> /\ golden = <<>> /\ verdict = "none"

\* ReadStream::new on a packet that is followed by slack
Opens(bits, bytes) ==
  /\ packet' = bits /\ num_bits' = bytes * ByteBits /\ bits_read' = 0 /\ failed' = Ok
  /\ received' = <<>>

\* read_file wants at least a byte after the golden packet
HasExtended(bytes) == bytes > GoldenBytes

\* write_file on the other side, and read_file on this one, which opens what the file is by then
Arrives(what, f) ==
  /\ phase = "write" /\ harm' = what /\ input' = f.ones /\ length' = f.bytes
  /\ UNCHANGED golden
  /\ IF HasExtended(f.bytes)
     THEN /\ phase' = "golden" /\ UNCHANGED verdict
          /\ Opens({i \in f.ones : i < GoldenBytes * ByteBits}, GoldenBytes)
     ELSE phase' = "done" /\ verdict' = "error" /\ UNCHANGED <<stream, received>>

Whole == Arrives("none", Correct)

Drift == \E fields \in SUBSET Between \ {{}} :
  Arrives("drift", Join(Encode(GoldenPacket), Encode(Drifted(fields))))

Cut == \E bytes \in 0 .. Correct.bytes - 1 :
  Arrives("cut", [ones |-> {i \in Correct.ones : i < bytes * ByteBits}, bytes |-> bytes])

Grown == \E more \in SUBSET (0 .. ByteBits - 1) :
  Arrives("grown", Join(Correct, [ones |-> more, bytes |-> 1]))

Changed == \E first \in 0 .. Correct.bytes * ByteBits - 1 : \E rest \in SUBSET (1 .. Burst - 1) :
  LET flips == {i \in {first} \cup {first + j : j \in rest} : i < Correct.bytes * ByteBits}
  IN  Arrives("changed", [Correct EXCEPT !.ones = (@ \ flips) \cup (flips \ @)])

-----------------------------------------------------------------------------
(* Reading it *)

\* a call that is refused ends read_file
Receives(q) ==
  /\ bits_read' = q.at /\ failed' = q.failed
  /\ \/ q.ret = Ok /\ received' = Append(received, q.dest) /\ UNCHANGED <<phase, verdict>>
     \/ q.ret # Ok /\ phase' = "done" /\ verdict' = "error" /\ UNCHANGED received

Decode ==
  /\ phase \in {"golden", "extended"} /\ Len(received) < Len(Message)
  /\ Receives(M!ReadValue(Message[Len(received) + 1]))
  /\ UNCHANGED <<file, packet, num_bits, golden>>

\* the end of the packet being read: of the golden one, the other is opened
EndRefused == LET q == M!R!SerializeEnd(M!R!Stream) IN
  /\ q.ret # Ok /\ bits_read' = q.at /\ failed' = q.failed
  /\ phase' = "done" /\ verdict' = "error" /\ UNCHANGED <<packet, num_bits, received, golden>>

EndGolden ==
  /\ phase = "golden" /\ M!R!SerializeEnd(M!R!Stream).ret = Ok
  /\ golden' = received /\ phase' = "extended" /\ UNCHANGED verdict
  /\ Opens({i - GoldenBytes * ByteBits : i \in {j \in input : j >= GoldenBytes * ByteBits}},
           length - GoldenBytes)

EndExtended == LET q == M!R!SerializeEnd(M!R!Stream) IN
  /\ phase = "extended" /\ q.ret = Ok /\ bits_read' = q.at /\ failed' = q.failed
  /\ phase' = "compare" /\ UNCHANGED <<packet, num_bits, received, golden, verdict>>

End == /\ phase \in {"golden", "extended"} /\ Len(received) = Len(Message)
       /\ EndRefused \/ EndGolden \/ EndExtended
       /\ UNCHANGED file

\* mutant: compressed floats are not looked at
CloseAny(c, v) == c.op = "compressed" \/ v = M!Meant(c)

\* extended_interop_check: a compressed float within its resolution, exactly at the top of its range
Close(c, v) == IF c.op = "compressed" /\ c.halves < 2 * c.quanta.max
               THEN 2 * v - c.halves \in -2..2 ELSE v = M!Meant(c)

Again(cs, values) == Encode([i \in DOMAIN cs |-> M!Again(cs[i], values[i])])

Compare ==
  /\ phase = "compare" /\ phase' = "done"
  /\ LET expected == /\ \A i \in DOMAIN GoldenPacket : golden[i] = M!Meant(GoldenPacket[i])
                     /\ \A i \in DOMAIN ExtendedPacket : Close(ExtendedPacket[i], received[i])
         identical == Join(Again(GoldenPacket, golden), Again(ExtendedPacket, received))
                        = [ones |-> input, bytes |-> length]
     IN  verdict' = IF expected /\ identical THEN "ok" ELSE "error"
  /\ UNCHANGED <<file, stream, received, golden>>

Next == Whole \/ Drift \/ Cut \/ Grown \/ Changed \/ Decode \/ End \/ Compare

Spec == Init /\ [][Next]_vars

-----------------------------------------------------------------------------
(* Properties *)

\* A file that a conforming implementation wrote is read, "byte identical": both packets decode up
\* to their ends, every value is the one expected, a zero-bit one in mid-sequence and a float between
\* quanta included, and they encode to the file again.
ConformingIsRead == harm = "none" => verdict \in {"none", "ok"}

\* The files that differ from the correct one by at most a quantum in each float between quanta: what
\* is left to the comparison of the files themselves.
Tolerated ==
  {Join(Encode(GoldenPacket), Encode([i \in DOMAIN ExtendedPacket |->
      IF i \in Between THEN [ExtendedPacket[i] EXCEPT !.halves = @ + d[i]] ELSE ExtendedPacket[i]])) :
   d \in [Between -> {-1, 1}]}

\* Whatever else became of the file, lost or gained bytes at its end or in its middle, bits changed in
\* either packet, or values written by another arithmetic, it is refused: by a read, by an end, by the
\* values or by the bytes.
NothingElseIsRead == verdict = "ok" => [ones |-> input, bytes |-> length] \in Tolerated
=============================================================================
