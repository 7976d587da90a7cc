----------------------------- MODULE MCPlayerScreen -----------------------------
(* A small instance of PlayerScreen: two players, fades of a few shades, and *)
(* one textdraw id beside that of the fade                                   *)
EXTENDS PlayerScreen
===============================================================================
