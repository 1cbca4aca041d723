----------------------------- MODULE MCPgListen -----------------------------
(* Model values for PgListen: two subscribers, one of which filters, that    *)
(* may come and go any number of times.                                      *)
EXTENDS PgListen, TLC

CONSTANTS s1, s2

MCWants == (s1 :> {1, 2, 3}) @@ (s2 :> {1, 3})
=============================================================================
