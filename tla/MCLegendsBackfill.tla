------------------------ MODULE MCLegendsBackfill ------------------------
(* LegendsBackfill on two moves, one of which the page may list twice.      *)
EXTENDS LegendsBackfill
=============================================================================
