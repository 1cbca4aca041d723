----------------------------- MODULE MCIngestion -----------------------------
(* Model values for Ingestion: five blocks, two of them at one DAA score and  *)
(* one at score 0, and added lists of up to two blocks.                      *)
EXTENDS Ingestion

CONSTANTS g0, a1, b1, c2, d3

MCBlock == {g0, a1, b1, c2, d3}

MCDaaScore ==
    [x \in MCBlock |-> CASE x = g0 -> 0 [] x = a1 -> 1 [] x = b1 -> 1 [] x = c2 -> 2 [] x = d3 -> 3]

MCAddedLists ==
    {<<>>} \cup {<<e>> : e \in Entry}
           \cup {l \in {<<e, f>> : e, f \in Entry} : l[1].block # l[2].block}

MCGapBounds == {1, 2}
==============================================================================
