----------------------------- MODULE MCRowIter -----------------------------
EXTENDS RowIter

(* No line pointer; a row, then a dead one; a row behind a corrupt one. *)
MCPageLayouts == {<<>>, <<"normal", "dead">>, <<"corrupt", "normal">>}
=============================================================================
