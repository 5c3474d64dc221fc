---------------------------- MODULE MCDownstream ----------------------------
(* A small instance of Downstream for TLC: pages with no, one and two tools. *)
EXTENDS Downstream

MCPages == {<<>>, <<"a">>, <<"b", "c">>}
=============================================================================
