----------------------------- MODULE Inscriptions -----------------------------
(* The pure part of the legacy (Kasplex-era) token support: what makes a     *)
(* transaction payload a KRC-20 or KRC-721 inscription, when the ledgers     *)
(* accept one, and how an inscription is rebuilt from the journal row that   *)
(* recorded it.  A decimal text stands for its number; a text that is none   *)
(* is NoNumber, a field or a column that is not there is Absent.             *)
EXTENDS Integers

CONSTANTS
    Address,    \* the addresses that send and hold
    Uri,        \* metadata uris
    Tick,       \* the normalised ticks, numbered as their texts sort
    Lower,      \* what each non-empty ASCII text normalises to
    MaxU64,     \* the largest u64
    Absent, NoNumber

ASSUME InscriptionsAssumption ==
    /\ Tick \subseteq Nat
    /\ MaxU64 \in Nat
    /\ Absent \notin Nat \cup Address \cup Uri
    /\ NoNumber \notin Nat
    /\ \A text \in DOMAIN Lower : Lower[text] \in Tick

U64 == 0..MaxU64

-------------------------------------------------------------------------------
(* KRC-20.  An accepted operation returns the new token, a rejected one the  *)
(* token it was given.                                                       *)

Krc20Op ==
    [op : {"deploy"}, max : U64, lim : U64]
        \cup [op : {"mint", "burn"}, amt : U64]
        \cup [op : {"transfer"}, amt : U64, to : Address]

IsAmount(text) == text \in U64

IsKrc20(e) ==
    /\ e.p = "krc-20"
    /\ e.tick \in DOMAIN Lower
    /\ \/ e.op = "deploy" /\ IsAmount(e.max) /\ IsAmount(e.lim)
       \/ e.op \in {"mint", "burn"} /\ IsAmount(e.amt)
       \/ e.op = "transfer" /\ IsAmount(e.amt) /\ e.to \in Address

Krc20OpOf(e) ==
    CASE e.op = "deploy" -> [op |-> "deploy", max |-> e.max, lim |-> e.lim]
      [] e.op \in {"mint", "burn"} -> [op |-> e.op, amt |-> e.amt]
      [] e.op = "transfer" -> [op |-> "transfer", amt |-> e.amt, to |-> e.to]

Balances == UNION {[holders -> U64] : holders \in SUBSET Address}

Token ==
    [deployed : BOOLEAN, max : U64, lim : U64, minted : U64, balances : Balances]

NoToken ==
    [deployed |-> FALSE, max |-> 0, lim |-> 0, minted |-> 0,
     balances |-> [a \in {} |-> 0]]

BalanceOf(balances, a) == IF a \in DOMAIN balances THEN balances[a] ELSE 0

Accepted(state) == [accepted |-> TRUE, state |-> state]
Rejected(state) == [accepted |-> FALSE, state |-> state]

Credit(balances, a, amt) ==
    [x \in DOMAIN balances \cup {a} |->
        IF x = a THEN BalanceOf(balances, a) + amt ELSE balances[x]]

Debit(balances, a, amt) ==
    [x \in DOMAIN balances \ {y \in {a} : BalanceOf(balances, y) = amt} |->
        IF x = a THEN balances[x] - amt ELSE balances[x]]

Krc20Deploy(t, max, lim) ==
    IF t.deployed
    THEN Rejected(t)
    ELSE Accepted([NoToken EXCEPT !.deployed = TRUE, !.max = max, !.lim = lim])

\* Mutant: the sum wraps before it is compared with the cap.
Krc20MintWrapping(t, sender, amt) ==
    IF t.deployed /\ amt <= t.lim /\ (t.minted + amt) % (MaxU64 + 1) <= t.max
    THEN Accepted([t EXCEPT !.minted = (@ + amt) % (MaxU64 + 1),
                            !.balances = Credit(@, sender, amt)])
    ELSE Rejected(t)

Krc20Mint(t, sender, amt) ==
    IF t.deployed /\ amt <= t.lim /\ t.minted + amt <= MaxU64 /\ t.minted + amt <= t.max
    THEN Accepted([t EXCEPT !.minted = @ + amt, !.balances = Credit(@, sender, amt)])
    ELSE Rejected(t)

Krc20Transfer(t, sender, to, amt) ==
    IF t.deployed /\ BalanceOf(t.balances, sender) >= amt
    THEN Accepted([t EXCEPT !.balances = Credit(Debit(@, sender, amt), to, amt)])
    ELSE Rejected(t)

Krc20Burn(t, sender, amt) ==
    IF t.deployed /\ BalanceOf(t.balances, sender) >= amt
    THEN Accepted([t EXCEPT !.balances = Debit(@, sender, amt),
                            !.minted = IF @ > amt THEN @ - amt ELSE 0])
    ELSE Rejected(t)

Krc20Apply(t, o, sender) ==
    CASE o.op = "deploy" -> Krc20Deploy(t, o.max, o.lim)
      [] o.op = "mint" -> Krc20Mint(t, sender, o.amt)
      [] o.op = "transfer" -> Krc20Transfer(t, sender, o.to, o.amt)
      [] o.op = "burn" -> Krc20Burn(t, sender, o.amt)

-------------------------------------------------------------------------------
(* KRC-721.                                                                  *)

Krc721Op ==
    [op : {"deploy"}, max : U64] \cup [op : {"burn"}, id : U64]
        \cup [op : {"mint"}, id : U64, uri : Uri]
        \cup [op : {"transfer"}, id : U64, to : Address]

IsKrc721(e) ==
    /\ e.p = "krc-721"
    /\ e.tick \in DOMAIN Lower
    /\ \/ e.op = "deploy" /\ IsAmount(e.max)
       \/ e.op = "mint" /\ IsAmount(e.id) /\ e.uri \in Uri
       \/ e.op = "transfer" /\ IsAmount(e.id) /\ e.to \in Address
       \/ e.op = "burn" /\ IsAmount(e.id)

Krc721OpOf(e) ==
    CASE e.op = "deploy" -> [op |-> "deploy", max |-> e.max]
      [] e.op = "mint" -> [op |-> "mint", id |-> e.id, uri |-> e.uri]
      [] e.op = "transfer" -> [op |-> "transfer", id |-> e.id, to |-> e.to]
      [] e.op = "burn" -> [op |-> "burn", id |-> e.id]

Owners == UNION {[ids -> Address] : ids \in SUBSET U64}

Collection ==
    [deployed : BOOLEAN, max : U64, owners : Owners, minted : SUBSET U64]

NoCollection ==
    [deployed |-> FALSE, max |-> 0, owners |-> [id \in {} |-> Absent], minted |-> {}]

IsOwner(c, a, id) == id \in DOMAIN c.owners /\ c.owners[id] = a

Krc721Deploy(c, max) ==
    IF c.deployed
    THEN Rejected(c)
    ELSE Accepted([NoCollection EXCEPT !.deployed = TRUE, !.max = max])

Krc721Mint(c, sender, id) ==
    IF c.deployed /\ id < c.max /\ id \notin c.minted
    THEN Accepted([c EXCEPT !.minted = @ \cup {id},
                            !.owners = [x \in DOMAIN @ \cup {id} |->
                                            IF x = id THEN sender ELSE @[x]]])
    ELSE Rejected(c)

Krc721Transfer(c, sender, to, id) ==
    IF c.deployed /\ IsOwner(c, sender, id)
    THEN Accepted([c EXCEPT !.owners[id] = to])
    ELSE Rejected(c)

Krc721Burn(c, sender, id) ==
    IF c.deployed /\ IsOwner(c, sender, id)
    THEN Accepted([c EXCEPT !.owners = [x \in DOMAIN @ \ {id} |-> @[x]]])
    ELSE Rejected(c)

Krc721Apply(c, o, sender) ==
    CASE o.op = "deploy" -> Krc721Deploy(c, o.max)
      [] o.op = "mint" -> Krc721Mint(c, sender, o.id)
      [] o.op = "transfer" -> Krc721Transfer(c, sender, o.to, o.id)
      [] o.op = "burn" -> Krc721Burn(c, sender, o.id)

-------------------------------------------------------------------------------
(* Journal rows: the columns an operation does not use are Absent, and a row *)
(* rebuilds only when every column its operation needs is there and numeric. *)

Column(o, name) == IF name \in DOMAIN o THEN o[name] ELSE Absent

Krc20Columns(o) ==
    [op |-> o.op, to |-> Column(o, "to"), amt |-> Column(o, "amt"),
     max |-> Column(o, "max"), lim |-> Column(o, "lim")]

Krc721Columns(o) ==
    [op |-> o.op, id |-> Column(o, "id"), to |-> Column(o, "to"),
     uri |-> Column(o, "uri"), max |-> Column(o, "max")]

Required(text) == text # Absent

Krc20Rebuilds(row) ==
    CASE row.op = "deploy" -> IsAmount(row.max) /\ IsAmount(row.lim)
      [] row.op \in {"mint", "burn"} -> IsAmount(row.amt)
      [] row.op = "transfer" -> IsAmount(row.amt) /\ Required(row.to)
      [] OTHER -> FALSE

Krc721Rebuilds(row) ==
    CASE row.op = "deploy" -> IsAmount(row.max)
      [] row.op = "mint" -> IsAmount(row.id) /\ Required(row.uri)
      [] row.op = "transfer" -> IsAmount(row.id) /\ Required(row.to)
      [] row.op = "burn" -> IsAmount(row.id)
      [] OTHER -> FALSE
===============================================================================
