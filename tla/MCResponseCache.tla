--------------------------- MODULE MCResponseCache ---------------------------
(* The instances of ResponseCache that TLC checks; see the .cfg files.     *)
EXTENDS ResponseCache
=============================================================================
