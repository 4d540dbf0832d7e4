------------------------------ MODULE MCTools -------------------------------
(***************************************************************************)
(* The tools for TLC.  Names of two symbols and a short last one (14       *)
(* bits), all of them, and every string up to one character longer than a  *)
(* name over characters from each class and each edge of a class.  Keys of *)
(* two bytes of three bits, all of them, with checksums of one byte and an *)
(* alphabet of five digits.                                                *)
(***************************************************************************)
EXTENDS Tools

\* '.', '1', '5', '6', 'A', 'a', 'j' (symbol 15), 'k' (symbol 16), 'z'
Letters == {46, 49, 53, 54, 65, 97, 106, 107, 122}

MCTexts == SeqOf(Letters, 4)

MCSecrets == [1..2 -> 0..7]
\* Like a compressed point: the first byte tells the parity.
MCPublicOf(key) == <<2 + (key[2] % 2), (3 * key[1] + key[2]) % 8>>
MCHash(data, n) ==
  [k \in 1..n |-> FoldLeft(LAMBDA h, b : (5 * h + b + k) % 8, k, data)]
=============================================================================
