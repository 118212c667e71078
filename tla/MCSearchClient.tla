--------------------------- MODULE MCSearchClient ---------------------------
(* The instances of SearchClient that TLC checks; see the .cfg files.      *)
EXTENDS SearchClient

\* The default, and for both routes a size beyond the window and the scaled
\* int32: Search's is never converted, Suggest's becomes -1096.
MCQueries == {[route |-> "search",  size |-> 3000],
              [route |-> "suggest", size |-> 0],
              [route |-> "suggest", size |-> 3000]}
=============================================================================
