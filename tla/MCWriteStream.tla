--------------------------- MODULE MCWriteStream ---------------------------
(* The write and measure streams with bytes of two bits, groups of four, and a buffer of 24 bits:
   room for one value of the widest kind and a little more, so that the second or the third call
   of a run finds it full. *)
EXTENDS WriteStream

IntCall(v, min, max) == [op |-> "int", value |-> v, min |-> min, max |-> max]
Format(i, f, s, signed, min, max) ==
  [integer |-> i, fraction |-> f, storage |-> s, signed |-> signed, min |-> min, max |-> max]
Quanta == {[declared |-> FALSE, max |-> 3, top |-> 3], [declared |-> TRUE, max |-> 5, top |-> 4],
           [declared |-> TRUE, max |-> 5, top |-> 5]}

BitCalls ==
  {[op |-> "bits", value |-> v, bits |-> n] : v \in {0, 1, 5, 15}, n \in {0, 1, 3, 4, 5}}
    \cup {[op |-> "bits64", value |-> v, bits |-> n] : v \in {0, 90, 255}, n \in {0, 3, 7, 8, 9}}
    \cup {[op |-> "u128", value |-> v] : v \in {0, 43690}}
IntCalls ==
  {IntCall(v, -8, 7) : v \in {-9, -8, 3, 7, 8}} \cup {IntCall(v, 0, 20) : v \in {-1, 0, 20, 21}}
    \cup {IntCall(0, 2, 1), IntCall(-3, -3, -3), IntCall(300, -256, 3900), IntCall(4999, 0, 5000)}
FloatCalls ==
  {[op |-> "float", value |-> v] : v \in {0, 5, 6, 14}}
    \cup {[op |-> "double", value |-> v] : v \in {95, 112, 240}}
    \cup {[op |-> "compressed", quanta |-> q, finite |-> f, halves |-> h] :
            q \in Quanta, f \in BOOLEAN, h \in {-3, 0, 7, 20}}
FixedCalls ==
  {[op |-> "fixed", value |-> v, format |-> f] :
     v \in {-8, 0, 4, 7}, f \in {Format(3, 1, 4, TRUE, -4, 3), Format(3, 1, 4, TRUE, 2, 2),
                                 Format(2, 1, 4, TRUE, 0, 1), Format(3, 1, 4, FALSE, 0, 8)}}
RelativeCalls ==
  {[op |-> "relative", previous |-> p, value |-> v] : p \in {-1, 0, 2}, v \in {0, 1, 3, 5, 7}}
Texts == {<<>>, <<1>>, <<2, 3>>, <<1, 1, 1>>, <<0>>, <<1, 0, 1>>}
PayloadCalls ==
  {[op |-> "string", value |-> s, size |-> n] : s \in Texts, n \in {0, 1, 3, 7, 8}}
    \cup {[op |-> "bytes", value |-> s] : s \in Texts} \cup {[op |-> "align"]}

MCCalls == BitCalls \cup IntCalls \cup FloatCalls \cup FixedCalls \cup RelativeCalls \cup PayloadCalls

\* a value outside a range that holds only one
DegenerateCalls == MCCalls \cup {IntCall(v, 3, 3) : v \in {3, 4}}

MCTiers == <<3, 5>>
=============================================================================
