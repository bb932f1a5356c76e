---------------------------- MODULE MCRoundTrip ----------------------------
(* Messages of bytes of two bits, with groups of four bits: values at both ends of their
   declarations, of one to four groups, and calls that pad from every offset in a byte. *)
EXTENDS RoundTrip

IntCall(v, min, max) == [op |-> "int", value |-> v, min |-> min, max |-> max]
Format(i, f, s, signed, min, max) ==
  [integer |-> i, fraction |-> f, storage |-> s, signed |-> signed, min |-> min, max |-> max]
Quanta == [declared |-> TRUE, max |-> 5, top |-> 5]

BitCalls == {[op |-> "bits", value |-> v, bits |-> 3] : v \in {1, 6}}
              \cup {[op |-> "bits64", value |-> v, bits |-> 7] : v \in {9, 112}}
              \cup {[op |-> "u128", value |-> 33825]}
IntCalls == {IntCall(v, -8, 7) : v \in {-8, 7}} \cup {IntCall(-3, -3, -3)}
              \cup {IntCall(v, 0, 20) : v \in {3, 20}} \cup {IntCall(4999, 0, 5000), IntCall(40, -256, 44)}
FloatCalls == {[op |-> "float", value |-> v] : v \in {3, 10}} \cup {[op |-> "double", value |-> 165]}
                \cup {[op |-> "compressed", quanta |-> Quanta, finite |-> TRUE, halves |-> h] : h \in {-1, 5, 12}}
FixedCalls == {[op |-> "fixed", value |-> -7, format |-> Format(3, 1, 4, TRUE, -4, 3)],
               [op |-> "fixed", value |-> 48, format |-> Format(4, 4, 8, TRUE, -2, 3)]}
RelativeCalls == {[op |-> "relative", previous |-> 0, value |-> v] : v \in {1, 3, 5, 7}}
                   \cup {[op |-> "relative", previous |-> 2, value |-> 4]}
TextCalls == {[op |-> "string", value |-> s, size |-> 4] : s \in {<<>>, <<2, 3>>, <<1, 1, 1>>}}
               \cup {[op |-> "string", value |-> <<>>, size |-> 1]}
               \cup {[op |-> "bytes", value |-> s] : s \in {<<>>, <<2, 1>>}} \cup {[op |-> "align"]}

\* packets of no player, one, and two of at most two; the count and the name leave codes unused
Player(id, x, alive) == [id |-> id, x |-> x, alive |-> alive]
PacketCalls == {[op |-> "packet", bits |-> 3, max_players |-> 2, max_id |-> 4, quanta |-> Quanta, size |-> 3,
                 value |-> [sequence |-> 5, players |-> ps, name |-> s]] :
                  ps \in {<<>>, <<Player(4, 3, 1)>>, <<Player(1, 12, 0), Player(0, 4, 1)>>}, s \in {<<>>, <<1, 1>>}}

MCCalls == PacketCalls \cup BitCalls \cup IntCalls \cup FloatCalls \cup FixedCalls \cup RelativeCalls \cup TextCalls

MCTiers == <<3, 5>>
=============================================================================
