--------------------------- MODULE MCBatchStream ---------------------------
EXTENDS BatchStream

(* Ranges inside one segment, across a boundary, past the end and empty. *)
MCRanges == {<<0, 3>>, <<1, 4>>, <<2, 9>>, <<3, 2>>}
=============================================================================
