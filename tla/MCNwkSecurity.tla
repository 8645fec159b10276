--------------------------- MODULE MCNwkSecurity ---------------------------
(***************************************************************************)
(* NwkSecurity with blocks of two bytes and a toy cipher in which every    *)
(* byte of the result depends on the key and on another byte.              *)
(***************************************************************************)
EXTENDS NwkSecurity

MCCipher(k, block) == <<Xor(block[2], k), Xor(Xor(block[1], block[2]), 1)>>
MCPayloads == {<<>>, <<1, 0>>, <<1, 0, 1>>}
MCHeaders == {<<0, 1>>, <<1, 1>>}
=============================================================================
