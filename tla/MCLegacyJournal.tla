--------------------------- MODULE MCLegacyJournal ---------------------------
(* A token with a cap of 3 and a collection of one item under one tick, with *)
(* mints that only fit after a burn and a transfer to oneself.               *)
EXTENDS LegacyJournal

CONSTANTS ann, bob, ipfs, missing, junk

Blank == [p |-> missing, op |-> missing, tick |-> missing, max |-> missing,
          lim |-> missing, amt |-> missing, id |-> missing, uri |-> missing, to |-> missing]

Token20 == [Blank EXCEPT !.p = "krc-20", !.tick = "KAS"]
Item721 == [Blank EXCEPT !.p = "krc-721", !.tick = "kas"]

MCTx == 1..10

MCEnvelope ==
    << [Token20 EXCEPT !.op = "deploy", !.max = 3, !.lim = 2],
       [Token20 EXCEPT !.op = "mint", !.amt = 2],
       [Token20 EXCEPT !.op = "mint", !.amt = 2],
       [Token20 EXCEPT !.op = "transfer", !.amt = 1, !.to = ann],
       [Token20 EXCEPT !.op = "burn", !.amt = 1],
       [Item721 EXCEPT !.op = "deploy", !.max = 1],
       [Item721 EXCEPT !.op = "mint", !.id = 0, !.uri = ipfs],
       [Item721 EXCEPT !.op = "mint", !.id = 0, !.uri = ipfs],
       [Item721 EXCEPT !.op = "burn", !.id = 0],
       [Item721 EXCEPT !.op = "transfer", !.id = 0, !.to = bob] >>

MCSender == <<ann, ann, bob, ann, ann, bob, ann, bob, bob, ann>>

MCLower == [text \in {"KAS", "kas"} |-> 1]
===============================================================================
