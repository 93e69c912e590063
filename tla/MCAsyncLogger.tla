--------------------------- MODULE MCAsyncLogger ---------------------------
(* Two logging threads and two messages from each. *)
EXTENDS AsyncLogger

CONSTANTS p1, p2

MCProducers == {p1, p2}
=============================================================================
