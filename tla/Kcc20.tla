-------------------------------- MODULE Kcc20 --------------------------------
(* What a spend of KCC20 receipts did: a pure function of the receipts its   *)
(* inputs consumed and those its outputs created, the full sets, each given  *)
(* as a function from outpoints.  A payload maps the names of extracted      *)
(* fields to their bytes.                                                    *)
EXTENDS Integers, Sequences, FiniteSets, Functions

IDENTIFIER_COVENANT_ID == 2

\* a one-byte field
IsByte(payload, field) == field \in DOMAIN payload /\ Len(payload[field]) = 1

IsReceipt(payload) ==
    /\ "owner_identifier" \in DOMAIN payload
    /\ IsByte(payload, "identifier_type")
    /\ "amount" \in DOMAIN payload
    /\ Len(payload["amount"]) <= 8
    /\ IsByte(payload, "is_minter")

\* The number the last n bytes stand for, from the most significant byte on.
LittleEndian(bytes) ==
    LET value[n \in 0..Len(bytes)] ==
            IF n = 0 THEN 0 ELSE bytes[Len(bytes) - n + 1] + 256 * value[n - 1]
    IN  value[Len(bytes)]

Receipt(payload) ==
    [owner_identifier |-> payload["owner_identifier"],
     identifier_type |-> payload["identifier_type"][1],
     amount |-> LittleEndian(payload["amount"]),
     is_minter |-> payload["is_minter"][1] # 0]

SumAmounts(receipts) == SumFunction([i \in DOMAIN receipts |-> receipts[i].amount])

IsControllerBinding(r) == r.is_minter /\ r.identifier_type = IDENTIFIER_COVENANT_ID

ControllerBindings(receipts) ==
    {r.owner_identifier : r \in {q \in Range(receipts) : IsControllerBinding(q)}}

\* Mutant: the controller binding decides before the amounts do.
ClassifyBindingFirst(prev, next) ==
    CASE ControllerBindings(prev) # ControllerBindings(next) -> "rotate_controller"
      [] SumAmounts(next) > SumAmounts(prev) -> "mint"
      [] SumAmounts(next) < SumAmounts(prev) -> "burn"
      [] OTHER -> "transfer"

Classify(prev, next) ==
    CASE SumAmounts(next) > SumAmounts(prev) -> "mint"
      [] SumAmounts(next) < SumAmounts(prev) -> "burn"
      [] OTHER -> IF ControllerBindings(prev) # ControllerBindings(next)
                  THEN "rotate_controller"
                  ELSE "transfer"

Undetermined == "undetermined"

\* One payload that is no receipt leaves the operation undetermined.
SpendOperation(consumed, created) ==
    IF \A p \in Range(consumed) \cup Range(created) : IsReceipt(p)
    THEN Classify([i \in DOMAIN consumed |-> Receipt(consumed[i])],
                  [i \in DOMAIN created |-> Receipt(created[i])])
    ELSE Undetermined
===============================================================================
