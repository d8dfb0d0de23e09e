------------------------------ MODULE MCBTree ------------------------------
(***************************************************************************)
(* Nine keys of one or two bytes, the shape a, aa, ab, b, ba, ... : a      *)
(* separator is one or two bytes long, and a two-byte key keeps its tail   *)
(* in an extent.  A page holds two of the largest branch cells.            *)
(***************************************************************************)
EXTENDS BTree

MCKeyLen == <<1, 2, 2, 1, 2, 2, 1, 2, 2>>

Rising == [i \in 1..9 |-> <<i, 1>>]

Falling == [i \in 1..9 |-> <<10 - i, 1>>]

MCSeeds == {Rising, Falling}
=============================================================================
