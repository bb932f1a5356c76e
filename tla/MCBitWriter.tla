---------------------------- MODULE MCBitWriter ----------------------------
(***************************************************************************)
(* The bit writer with bytes of 2 bits, words of 6 and values of up to 2.  *)
(* Three words let one write_bytes have a head, a copied word and a tail.  *)
(* The buffer begins full of ones, and the period of the payload is no     *)
(* part of a word, so that no two places of it look alike.                 *)
(***************************************************************************)
EXTENDS BitWriter

AllOnes == 0 .. num_bits-1
OnePayload == {{i \in 0 .. 30 : i % 5 = 0}}
=============================================================================
