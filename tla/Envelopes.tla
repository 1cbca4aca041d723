------------------------------ MODULE Envelopes ------------------------------
(* What a message of the notification stream is taken for                    *)
(* (kasgraph-rpc): three envelopes, several names for each notification, and *)
(* the answers to the subscriptions in between.  A message is a function     *)
(* from the keys it has to their values.                                     *)
EXTENDS Naturals, Sequences

Has(m, key) == key \in DOMAIN m

\* the value of the first of the keys that is there, or the message itself
Inner(m, keys) ==
    IF \E i \in DOMAIN keys : Has(m, keys[i])
    THEN m[keys[CHOOSE i \in DOMAIN keys : Has(m, keys[i]) /\ \A j \in 1..(i - 1) : ~Has(m, keys[j])]]
    ELSE m

Names ==
    [BlockAdded |->
        {"BlockAdded", "blockAdded", "BlockAddedNotification",
         "blockAddedNotification", "block-added"},
     VirtualChainChanged |->
        {"VirtualChainChanged", "virtualChainChanged", "VirtualChainChangedNotification",
         "virtualChainChangedNotification", "virtual-chain-changed"},
     RecoveryRequired |-> {"RecoveryRequired", "recoveryRequired", "recovery-required"}]

IsNotification(name) == \E kind \in DOMAIN Names : name \in Names[kind]

Normalized(name) == CHOOSE kind \in DOMAIN Names : name \in Names[kind]

Malformed == [is |-> "malformed"]
SubscriptionAck == [is |-> "ack"]
SubscriptionRejected == [is |-> "rejected"]
Ignore == [is |-> "ignore"]
Ready(notification) == [is |-> "ready", notification |-> notification]
ByHashes(removed, added) == [is |-> "hashes", removed |-> removed, added |-> added]

\* A block needs its hash and its scores, in the header or beside it.
IsBlock(v) ==
    \A key \in {"hash", "daaScore", "blueScore"} : Has(v, key) \/ Has(Inner(v, <<"header">>), key)

ListOf(v, key) == IF Has(v, key) THEN v[key] ELSE <<>>

OfKind(kind, value) ==
    LET payload == Inner(value, <<kind>>)
    IN  CASE kind = "BlockAdded" ->
                IF IsBlock(Inner(payload, <<"block">>))
                THEN Ready(<<Inner(payload, <<"block">>)>>) ELSE Malformed
          [] kind = "VirtualChainChanged" /\ Has(payload, "addedChainBlocks") ->
                IF \A i \in DOMAIN payload["addedChainBlocks"] : IsBlock(payload["addedChainBlocks"][i])
                THEN Ready(payload["addedChainBlocks"]) ELSE Malformed
          [] kind = "VirtualChainChanged" ->
                ByHashes(ListOf(payload, "removedChainBlockHashes"),
                         ListOf(payload, "addedChainBlockHashes"))
          [] kind = "RecoveryRequired" ->
                IF Has(payload, "fromDaaScore") /\ Has(payload, "toDaaScore")
                THEN Ready(<<>>) ELSE Malformed
          [] OTHER -> Malformed

OfMethod(m) ==
    CASE IsNotification(m["method"]) ->
            OfKind(Normalized(m["method"]), Inner(m, <<"params", "result">>))
      [] m["method"] \in {"subscribe", "unsubscribe"} /\ Has(m, "error") -> SubscriptionRejected
      [] /\ m["method"] \in {"subscribe", "unsubscribe"}
         /\ Has(m, "params") \/ Has(m, "result") -> SubscriptionAck
      [] OTHER -> Ignore

Parsed(m) ==
    CASE Has(m, "kind") -> OfKind(m["kind"], m)
      [] ~Has(m, "kind") /\ Has(m, "method") -> OfMethod(m)
      [] OTHER ->
            CASE Has(m, "event") /\ IsNotification(Inner(m, <<"event">>)) ->
                    OfKind(Normalized(m["event"]), Inner(m, <<"data">>))
              [] OTHER -> IF Has(m, "id") /\ Has(m, "error") THEN SubscriptionRejected
                          ELSE IF Has(m, "id") /\ Has(m, "result") THEN SubscriptionAck
                          ELSE Malformed
===============================================================================
