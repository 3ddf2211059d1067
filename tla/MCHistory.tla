----------------------------- MODULE MCHistory ------------------------------
(* Two heads, both of which are made in the run, or one of them. *)
EXTENDS History
CONSTANTS h1, h2

MCFirst == {{}, {h1}}
=============================================================================
