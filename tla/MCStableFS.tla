----------------------------- MODULE MCStableFS -----------------------------
(* Two writes of one word, with a hole between them.                       *)
EXTENDS StableFS

MCWrites == {<<0, 1>>, <<2, 3>>}
=============================================================================
