------------------------------- MODULE MCFeed -------------------------------
(* Model values for Feed: a chain a1 to a5 and a branch b2 to b4 that leaves  *)
(* it after a1.  Blocks of the two share DAA scores, and a5 skips a score, as *)
(* a chain block does when it merges others.                                 *)
EXTENDS Feed

CONSTANTS a1, a2, a3, a4, a5, b2, b3, b4

MCBlock == {a1, a2, a3, a4, a5, b2, b3, b4}

MCDaaScore ==
    [x \in MCBlock |-> CASE x = a1 -> 1 [] x \in {a2, b2} -> 2 [] x \in {a3, b3} -> 3
                         [] x \in {a4, b4} -> 4 [] x = a5 -> 6]

MCPath ==
    [x \in MCBlock |-> CASE x = a1 -> <<a1>> [] x = a2 -> <<a1, a2>>
                         [] x = a3 -> <<a1, a2, a3>> [] x = a4 -> <<a1, a2, a3, a4>>
                         [] x = a5 -> <<a1, a2, a3, a4, a5>>
                         [] x = b2 -> <<a1, b2>> [] x = b3 -> <<a1, b2, b3>>
                         [] x = b4 -> <<a1, b2, b3, b4>>]
=============================================================================
