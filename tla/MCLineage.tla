------------------------------- MODULE MCLineage -------------------------------
(***************************************************************************)
(* Three subgraphs, one of them deployed late; a covenant opened in block  *)
(* g by output `root` that block x forks into `lhs` and `rhs`.  A rival    *)
(* block y holds the same transaction one score higher.  z and v hold the  *)
(* transaction that continues `lhs`, upon x and upon y; w, a rival of z    *)
(* with its score, continues `rhs` and opens a covenant of its own.  The   *)
(* transaction of m and of its rival n merges these two covenants, and n   *)
(* continues the merge.                                                    *)
(***************************************************************************)
EXTENDS Lineage

CONSTANTS sa, sb, sc, g, m, n, v, w, x, y, z, root, lhs, rhs, tip, other, fresh, merge, next

MCRegistered == <<sa, sb, sc>>
MCDaaScore   == (g :> 1) @@ (x :> 2) @@ (y :> 3) @@ (z :> 4) @@ (v :> 4) @@ (w :> 4)
                    @@ (m :> 5) @@ (n :> 6)
MCOutputs    == (g :> <<root>>) @@ (x :> <<lhs, rhs>>) @@ (y :> <<lhs, rhs>>)
                    @@ (z :> <<tip>>) @@ (v :> <<tip>>) @@ (w :> <<other, fresh>>)
                    @@ (m :> <<merge>>) @@ (n :> <<merge, next>>)
MCInputs     == (root :> <<>>) @@ (lhs :> <<root>>) @@ (rhs :> <<root>>)
                    @@ (tip :> <<lhs>>) @@ (other :> <<rhs>>) @@ (fresh :> <<>>)
                    @@ (merge :> <<fresh, other>>) @@ (next :> <<merge>>)
MCChains     == {<<g>>, <<g, x>>, <<g, y>>, <<g, x, z>>, <<g, x, w>>, <<g, y, v>>,
                 <<g, x, w, m>>, <<g, x, w, n>>}
MCAtStart    == <<sb, sc>>
================================================================================
