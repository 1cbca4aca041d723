------------------------------ MODULE MCIndexer ------------------------------
(* Model values for Indexer: six blocks, two each at scores 1 and 2, so that  *)
(* a chain change can replace a block by another of the same score.          *)
EXTENDS Indexer

CONSTANTS a1, b1, a2, b2, a3, a4

MCBlock == {a1, b1, a2, b2, a3, a4}

MCDaaScore ==
    [x \in MCBlock |-> CASE x \in {a1, b1} -> 1 [] x \in {a2, b2} -> 2
                         [] x = a3 -> 3 [] x = a4 -> 4]

MCExtensions == {<<x>> : x \in MCBlock}
    \cup {s \in {<<x, y>> : x, y \in MCBlock} : MCDaaScore[s[1]] < MCDaaScore[s[2]]}

MCEmitting == {a1, b1, b2, a3, a4}
==============================================================================
