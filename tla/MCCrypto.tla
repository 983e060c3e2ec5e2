------------------------------ MODULE MCCrypto ------------------------------
(***************************************************************************)
(* The libraries with bytes of 2 bits and words of 2 bytes, on two curves  *)
(* of 8 bits and of 7: on Wide the order fills the words, and k + n may    *)
(* carry out of them; on Narrow it leaves them a bit, n is above p, and    *)
(* the bytes of a hash have a bit too many.  Messages are hashed in blocks *)
(* of 16 bytes, of which the length takes 2.                               *)
(***************************************************************************)
EXTENDS CryptoTest

Wide ==
  [p |-> 251, b |-> 153, n |-> 241, G |-> <<2, 54>>, num_n_bits |-> 8, num_words |-> 2]
Narrow ==
  [p |-> 103, b |-> 102, n |-> 109, G |-> <<1, 10>>, num_n_bits |-> 7, num_words |-> 2]
MCCurves == {Wide, Narrow}

MCDraws ==
  [key |-> {0, 79, 240}, Z |-> {0, 5},
   nonce |-> {0, 9, 93, 127, 201, 240}, blind |-> {0, 3, 106, 255}]
MCGivenKeys == {0, 1, 63, 107, 108, 109, 238, 239, 240, 241, 255}
MCGivenNonces == {0, 41, 44, 255}
MCPeerKeys == {1, 100}
MCHashes == {<<2, 1, 0, 3>>, <<3, 3, 3, 2, 1>>}

MCMessage == [i \in 1..34 |-> i]
MCUpdateLengths == {1, 13, 16}

=============================================================================
