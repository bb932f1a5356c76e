----------------------------- MODULE RoundTrip -----------------------------
(***************************************************************************)
(* The write stream and the read stream together, as one serialize         *)
(* function drives both: a caller writes some values and flushes, what     *)
(* was written travels, whole or harmed, and a reader makes the same calls *)
(* on what arrived and then reads the end.  The caller is the one of       *)
(* fuzz/fuzz_targets/round_trip.rs, here with a packet that may be harmed. *)
(***************************************************************************)
EXTENDS Format

CONSTANTS Capacity,     \* bits of the write buffer
          Calls,        \* what the caller may write: calls of WriteStream
          MaxCalls,     \* bound: calls in a message
          Burst,        \* bound: the bits of a packet that a harm changes are this close together
          Old           \* what is delivered by a call that has no value

VARIABLES phase,                        \* write, read or done
          ones, bits_written,           \* the write stream
          sent, marks,                  \* history: the calls written, and the position after each
          harm,                         \* what happened on the way: none, cut, extended, changed
          packet, num_bits,             \* what arrived
          bits_read, failed,            \* the read stream
          received                      \* what its calls delivered

writing == <<ones, bits_written, sent, marks>>
arrival == <<harm, packet, num_bits>>
reading == <<bits_read, failed, received>>
vars == <<phase, writing, arrival, reading>>

Ok == "ok"

W == INSTANCE WriteStream WITH
       measured <- 0, call <- Old, wrote <- Ok, counted <- Ok, calls <- 0

R == INSTANCE ReadStream WITH
       MaxDepth <- 0, Packets <- {}, Widths <- {}, WideWidths <- {}, Ranges <- {}, Formats <- {},
       Quanta <- {}, Sizes <- {}, Lengths <- {}, Previous <- {}, CallerReasons <- {},
       call <- Old, result <- Ok, dest <- Old, depth <- 0,
       dirty <- FALSE, ended <- FALSE, trapped <- FALSE

Unsigned8 == 0 .. 2^ByteBits - 1
Signed64 == -(2^(2*MaxBits-1)) .. 2^(2*MaxBits-1) - 1

\* The types of the arguments; and one misuse that no write notices is left out, another value
\* over a range of one (the run write_degenerate is about it).
ASSUME MessageAssumption ==
  /\ Capacity \in Nat
  /\ \A c \in Calls :
       /\ c.op \in {"bits", "bits64", "u128", "int", "float", "double", "compressed", "fixed",
                    "relative", "string", "bytes", "align", "packet"}
       /\ W!Typed(c)
       /\ c.op = "int" /\ c.min = c.max => c.value = c.min
       /\ c.op = "fixed" => /\ c.format.integer \in Nat /\ c.format.storage \in Nat
                            /\ c.format.min \in Signed64 /\ c.format.max \in Signed64
       /\ c.op = "string" => WellFormed(c.value)
       /\ c.op = "packet" =>
            /\ c.value \in [sequence : Nat, players : Seq([id : Int, x : Int, alive : Nat]),
                            name : Seq(Unsigned8)]
            /\ WellFormed(c.value.name) /\ c.size \in Nat
            /\ c.max_id \in Nat /\ BitsRequired(c.max_id) <= MaxBits
            /\ c.max_players \in Nat /\ BitsRequired(c.max_players) <= MaxBits
            /\ c.max_id = 0 => \A i \in DOMAIN c.value.players : c.value.players[i].id = 0
            /\ c.max_players = 0 => c.value.players = <<>>
            /\ c.quanta.max \in Nat
            /\ c.quanta.declared => BitsRequired(c.quanta.max) \in 1..MaxBits

-----------------------------------------------------------------------------
(* A packet of its caller's own, that of examples/packet.rs: a sequence    *)
(* number, a count that drives a loop of players, each a nested object,    *)
(* and a name.  id stands for health too and x for y, coordinates being    *)
(* counted in half quanta.                                                 *)

\* Player::serialize
WritePlayer(w, c, p) ==
  LET id == W!SerializeInt(w, p.id, 0, c.max_id)
      x == W!SerializeCompressedFloat(id, c.quanta, TRUE, p.x)
  IN  W!SerializeBits(x, p.alive, 1)

\* ?: a refused read ends the function it is in
Try(q, Rest(_)) == IF q.ret # Ok THEN q ELSE Rest(q)

ReadPlayer(s, c) ==
  Try(R!SerializeInt(s, 0, c.max_id), LAMBDA id :
  Try(R!SerializeCompressedFloat(id, c.quanta), LAMBDA x :
  Try(R!SerializeBits(x, 1), LAMBDA alive :
      [alive EXCEPT !.value = [id |-> id.value, x |-> 2 * x.value, alive |-> alive.value]])))

\* WorldStatePacket::serialize
WritePacket(w, c) ==
  LET v == c.value
      sequence == W!SerializeBits(w, v.sequence, c.bits)
      after[k \in 0 .. Len(v.players)] ==
        IF k = 0 THEN W!SerializeInt(sequence, Len(v.players), 0, c.max_players)
        ELSE WritePlayer(after[k-1], c, v.players[k])
  IN  W!SerializeString(after[Len(v.players)], v.name, c.size)

\* the loop ends at the first player that is refused
ReadPlayers(s, c, n) ==
  LET after[k \in 0..n] ==
        IF k = 0 THEN [s EXCEPT !.value = <<>>]
        ELSE Try(after[k-1], LAMBDA players :
             Try(ReadPlayer(players, c), LAMBDA q : [q EXCEPT !.value = Append(players.value, q.value)]))
  IN  after[n]

ReadPacket(s, c) ==
  Try(R!SerializeBits(s, c.bits), LAMBDA sequence :
  Try(R!SerializeInt(sequence, 0, c.max_players), LAMBDA count :
  Try(ReadPlayers(count, c, count.value), LAMBDA players :
  Try(R!SerializeString(players, c.size), LAMBDA name :
      [name EXCEPT !.value = [sequence |-> sequence.value, players |-> players.value,
                              name |-> name.value]]))))

-----------------------------------------------------------------------------
(* One call on either side *)

Send(w, c) == IF c.op = "packet" THEN WritePacket(w, c) ELSE W!Serialize(w, c)

\* what the reader makes of the declaration in a call
ReadValue(c) ==
  LET s == R!Stream IN
  CASE c.op = "bits"       -> R!Deliver(R!SerializeBits(s, c.bits))
    [] c.op = "bits64"     -> R!Deliver(R!SerializeBits64(s, c.bits))
    [] c.op = "u128"       -> R!Deliver(R!SerializeU128(s))
    [] c.op = "int"        -> R!Deliver(R!SerializeInt(s, c.min, c.max))
    [] c.op = "float"      -> R!Deliver(R!SerializeFloat(s, MaxBits, FractionBits))
    [] c.op = "double"     -> R!Deliver(R!SerializeFloat(s, 2*MaxBits, DoubleFractionBits))
    [] c.op = "compressed" -> R!Deliver(R!SerializeCompressedFloat(s, c.quanta))
    [] c.op = "fixed"      -> R!Deliver(R!SerializeFixed(s, c.format))
    [] c.op = "relative"   -> R!Deliver(R!SerializeIntRelative(s, c.previous))
    [] c.op = "string"     -> R!Deliver(R!SerializeString(s, c.size))
    [] c.op = "bytes"      -> R!SerializeBytes(s, Len(c.value))
    [] c.op = "align"      -> R!SerializeAlign(s)

Read(c) == IF c.op = "packet" THEN R!Deliver(ReadPacket(R!Stream, c)) ELSE ReadValue(c)

\* what the reader of a call should get
Meant(c) == CASE c.op = "align"      -> Old
              [] c.op = "compressed" -> W!Quantum(c.halves, c.quanta.max)
              [] c.op = "packet"     -> [c.value EXCEPT !.players =
                   [k \in DOMAIN c.value.players |->
                      [c.value.players[k] EXCEPT !.x = 2 * W!Quantum(c.value.players[k].x, c.quanta.max)]]]
              [] OTHER               -> c.value

\* the call that writes what was read
Again(c, v) == CASE c.op = "align"      -> c
                 [] c.op = "compressed" -> [c EXCEPT !.halves = 2 * v]
                 [] OTHER               -> [c EXCEPT !.value = v]

\* a write stream after calls from the start
Written(cs) ==
  LET new == [measure |-> FALSE, at |-> 0, ones |-> {}, trapped |-> FALSE]
      after[i \in 0 .. Len(cs)] == IF i = 0 THEN new ELSE Send(after[i-1], cs[i])
  IN  after[Len(cs)]

\* bytes_written, which is div_ceil: the unused bits of the last byte are zeros
Bytes(bits) == (bits + ByteBits - 1) \div ByteBits

-----------------------------------------------------------------------------
(* The message *)

Init == /\ phase = "write" /\ ones = {} /\ bits_written = 0 /\ sent = <<>> /\ marks = <<>>
        /\ harm = "none" /\ packet = {} /\ num_bits = 0
        /\ bits_read = 0 /\ failed = Ok /\ received = <<>>

\* the write stream is left as w by the call c
Wrote(c, w) ==
  /\ ~w.trapped
  /\ ones' = w.ones /\ bits_written' = w.at
  /\ sent' = Append(sent, c) /\ marks' = Append(marks, w.at)
  /\ UNCHANGED <<phase, arrival, reading>>

Write == \E c \in Calls :
  phase = "write" /\ Len(sent) < MaxCalls /\ Wrote(c, Send(W!Writing, c))

\* flush, and data over the network
Arrive(what, bits, bytes) ==
  /\ phase = "write" /\ phase' = "read"
  /\ harm' = what /\ packet' = bits /\ num_bits' = bytes * ByteBits
  /\ UNCHANGED <<writing, reading>>

Whole == Arrive("none", ones, Bytes(bits_written))

Cut == \E bytes \in 0 .. Bytes(bits_written) - 1 :
  Arrive("cut", {i \in ones : i < bytes * ByteBits}, bytes)

Extended == \E more \in SUBSET (0 .. ByteBits - 1) :
  LET bytes == Bytes(bits_written)
  IN  Arrive("extended", ones \cup {bytes * ByteBits + i : i \in more}, bytes + 1)

Changed ==
  LET bytes == Bytes(bits_written) IN
  \E first \in 0 .. bytes * ByteBits - 1 : \E rest \in SUBSET (1 .. Burst - 1) :
    LET flips == {i \in {first} \cup {first + j : j \in rest} : i < bytes * ByteBits}
    IN  Arrive("changed", (ones \ flips) \cup (flips \ ones), bytes)

\* the read stream is left as q
Reads(q) == bits_read' = q.at /\ failed' = q.failed /\ UNCHANGED <<writing, arrival>>

\* the reader's serialize function stops at the first refusal
Receives(q) ==
  /\ Reads(q)
  /\ \/ q.ret = Ok /\ received' = Append(received, q.dest) /\ UNCHANGED phase
     \/ q.ret # Ok /\ phase' = "done" /\ UNCHANGED received

ReadNext ==
  /\ phase = "read" /\ Len(received) < Len(sent)
  /\ Receives(Read(sent[Len(received) + 1]))

ReadEnd ==
  /\ phase = "read" /\ Len(received) = Len(sent) /\ phase' = "done"
  /\ Reads(R!SerializeEnd(R!Stream)) /\ UNCHANGED received

Next == Write \/ Whole \/ Cut \/ Extended \/ Changed \/ ReadNext \/ ReadEnd

Spec == Init /\ [][Next]_vars

-----------------------------------------------------------------------------
(* Properties *)

IsPacket(w) == ~w.trapped /\ w.ones = packet /\ Bytes(w.at) * ByteBits = num_bits

Accepted == phase = "done" /\ failed = Ok

\* What was written is what is read: over any message that arrives whole, every call succeeds,
\* delivers the value that was written and leaves the reader where it left the writer, and the end
\* accepts the bytes that the writer reports.
WhatWasWritten ==
  harm = "none" =>
    /\ failed = Ok
    /\ \A i \in DOMAIN received : received[i] = Meant(sent[i])
    /\ phase = "read" => bits_read = IF received = <<>> THEN 0 ELSE marks[Len(received)]

\* A packet that lost bytes or gained one is refused, at the latest by the end, and whatever was
\* delivered before that is what was written.
CutOrExtendedRefused ==
  harm \in {"cut", "extended"} => /\ ~Accepted
                                  /\ \A i \in DOMAIN received : received[i] = Meant(sent[i])

\* A reader "refuses anything a conforming writer cannot produce, so the same value is always the
\* same bytes" (STANDARD.md): whatever was done to a packet, if the reader accepts it, then writing
\* what was read makes no misuse and makes that very packet.  (A compressed float is read here as its
\* code, so nothing is said of the rounding between codes and floats.)
Canonical == Accepted => IsPacket(Written([i \in DOMAIN sent |-> Again(sent[i], received[i])]))
=============================================================================
