------------------------------- MODULE MCWhirlpool -------------------------------
(* Strings of every length near the end of a half and of a whole buffer,    *)
(* and near the end of a chunk                                              *)
EXTENDS Whirlpool

Letters(n) == [k \in 1..n |-> 1 + ((5 * k * k + 3 * k) % 255)]
MCStrings == {Letters(n) : n \in {0, 1, 31, 32, 33, 63, 64, 65, 66, 67, 133}}
MCStack == {Zeros(0..63), [k \in 0..63 |-> 0..7]}
==================================================================================
