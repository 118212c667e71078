------------------------------ MODULE MCScrape ------------------------------
(* Three titles, at most two to a request; one text of the first is shipped.  *)
EXTENDS Scrape, TLC
CONSTANTS r1, r2

MCIds == <<1, 2, 3, 4>>
Text(id, game, r) == <<id, game>> :> r
MCRowsOf == [id \in 1 .. 4 |-> [r \in {r1, r2} |->
    IF r = r1 THEN Text(id, "za", r1) ELSE Text(id, "za", r2) @@ Text(id, "y", r2)]]
MCShipped == Text(1, "za", "shipped")
=============================================================================
