------------------------------- MODULE MCSession -------------------------------
(* Small instances of Session: two slots shared by a few players. *)
EXTENDS Session, TLC

Symmetric == Permutations(Slots) \cup Permutations(Names)
================================================================================
