------------------------------ MODULE MCEndpoints ------------------------------
(* Small instance of Endpoints: a primary that lags behind its two backups,  *)
(* one of which cannot be subscribed to, and blocks 1 to 3.                  *)
EXTENDS Endpoints, TLC

CONSTANTS p, b1, b2

MCBackups == <<b1, b2>>
MCHolds == (p :> {1}) @@ (b1 :> {1, 2}) @@ (b2 :> {1, 2})
MCDelta == (p :> <<1>>) @@ (b1 :> <<1, 2>>) @@ (b2 :> <<>>)
MCCapable == {p, b1}
MCConfigured == <<2>>

ByHash == [method |-> "virtualChainChanged", params |-> [addedChainBlockHashes |-> <<2>>]]
NoHash == [method |-> "blockAdded", params |-> [block |-> [daaScore |-> 7]]]
Ack == [id |-> 1, result |-> 0]
MCMessages == {ByHash, NoHash, Ack}

-------------------------------------------------------------------------------
(* Messages and what they are taken for.                                     *)

Block == [hash |-> 1, daaScore |-> 7, blueScore |-> 7]

ASSUME Parsed([kind |-> "BlockAdded", BlockAdded |-> [block |-> Block]]) = Ready(<<Block>>)
ASSUME Parsed([event |-> "block-added", data |-> [block |-> [header |-> Block]]]).is = "ready"
ASSUME Parsed(ByHash) = ByHashes(<<>>, <<2>>)
ASSUME Parsed([method |-> "blockAdded", params |-> [block |-> [hash |-> 1]]]) = Malformed

\* A notification is never taken for the answer to a subscription, in any of
\* its envelopes, even if it carries an id or a result.
ASSUME \A name \in UNION {Names[k] : k \in DOMAIN Names} :
    /\ Parsed([method |-> name, id |-> 1, result |-> Block]) \notin {SubscriptionAck, SubscriptionRejected, Ignore}
    /\ Parsed([event |-> name, id |-> 1, result |-> Block]) \notin {SubscriptionAck, SubscriptionRejected, Ignore}

\* A refused subscription is never taken for an accepted one.
ASSUME \A m \in {[id |-> 1, error |-> 0, result |-> 0], [method |-> "subscribe", error |-> 0, result |-> 0]} :
    Parsed(m) = SubscriptionRejected
===============================================================================
