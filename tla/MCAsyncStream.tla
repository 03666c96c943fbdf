--------------------------- MODULE MCAsyncStream ---------------------------
EXTENDS AsyncStream

(* Ranges ending at a segment boundary, across one, past the end and empty. *)
MCRanges == {<<0, 2>>, <<1, 4>>, <<2, 9>>, <<3, 2>>}
=============================================================================
