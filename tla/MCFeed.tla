------------------------------- MODULE MCFeed -------------------------------
(* Small instances of Feed. *)
EXTENDS Feed

\* A recording of two frames.
Session == <<<<"batch", 1>>, <<"book", 2>>>>
=============================================================================
