------------------------------ MODULE MCIndexer ------------------------------
(* The instances of Indexer that TLC checks; see the .cfg files.           *)
EXTENDS Indexer
=============================================================================
