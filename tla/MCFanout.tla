------------------------------ MODULE MCFanout ------------------------------
(* Two clients of one query.  A channel of one slot fills at the second     *)
(* event, and three events leave one to be skipped and one to be read after.*)
EXTENDS Fanout

CONSTANTS q1, h1, h2

MCQuery   == {q1}
MCHandler == {h1, h2}
=============================================================================
