-------------------------- MODULE MCCompressedFloat --------------------------
(* Floats of 7 bits up to 508, with 1.0 counted as 256 subnormals; codes of 8 bits, so that counts
   of quanta fall below, into and above the binade where a product is as coarse as a code. *)
EXTENDS CompressedFloat

Whole(x) == x * One

MCBounds == {Whole(-200), Whole(-10), -One, -36, 0, 1, 88, Whole(5), Whole(11), Whole(127), Whole(508), Inf, NaN}
MCResolutions == {-1, 0, 1, 26, One \div 2, One, 304, Whole(508), NaN}

MCDeclarations == [min : MCBounds, max : MCBounds, resolution : MCResolutions]
MCConstants == {[max |-> m, bits |-> b, delta |-> d, min |-> 0] :
                  m \in {0, 1, 8, 127, 254, 255}, b \in {1, 4, 7, 8}, d \in {-One, 0, 17, One, Whole(31), Inf, NaN}}
MCValues == {Rounded(n, 1) : n \in {-Inf, Whole(-100), -One, -1, 0, 1, 9, 31, 64, 88, 128, 200, 300, 350,
                600, 800, Whole(4), Whole(7), Whole(10), Whole(30), Whole(127), Whole(300), Inf}}
              \cup {NaN}
=============================================================================
