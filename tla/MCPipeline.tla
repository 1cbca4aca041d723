------------------------------ MODULE MCPipeline ------------------------------
(* Small instance of Pipeline: one KCC20 token with its minter branch and a  *)
(* vault, in scripts of a few bytes, and three mappings.                     *)
EXTENDS Pipeline, Patterns

CONSTANT NoMapping

Asset(owner, type, amount, minter) == <<7, owner, type, amount, minter, 8>>
Vault(owner) == <<5, owner, 6>>
Plain == <<9>>

MCTx == 1..6

\* 1 issues the token; 2 transfers, 3 mints and hands the minter over, 5 moves
\* the tokens together with the vault that 4 locks, 6 burns what it moves.
MCInputs ==
    << <<>>, << <<1, 0>> >>, << <<1, 1>> >>, <<>>,
       << <<4, 0>>, <<1, 0>> >>, << <<2, 0>> >> >>

MCOutputs ==
    << << Asset(1, 0, 2, 0), Asset(3, 2, 0, 1) >>,
       << Asset(1, 0, 1, 0), Asset(2, 0, 1, 0) >>,
       << Asset(1, 0, 1, 0), Plain, Asset(4, 2, 0, 1) >>,
       << Vault(1) >>,
       << Asset(2, 0, 2, 0) >>,
       << Plain >> >>

MCBlocks == { <<1, 4>>, <<3, 2>>, <<5>>, <<6>> }

MCRegistry ==
    << [kind |-> "Vault", matcher |-> Exact(<<5, 0, 6>>, << Window("owner_pubkey", 1, 1) >>)],
       [kind |-> "KCC20Asset",
        matcher |-> Anchored(<<7, 0, 0, 0, 0>>,
            << Window("owner_identifier", 1, 1), Window("identifier_type", 2, 1),
               Window("amount", 3, 1), Window("is_minter", 4, 1) >>, <<8>>)] >>

Get(entity) == [call |-> "get", entity |-> entity]
Set(entity) == [call |-> "set", entity |-> entity]
Loop == [call |-> "loop"]
Trap == [call |-> "trap"]

Source(kinds, handlers) == [patterns |-> kinds, handlers |-> handlers]

Both == [CovenantLocked |-> "onLocked", CovenantSpent |-> "onSpent"]

Mapping(sources, onLocked, onSpent) ==
    [sources |-> sources, exports |-> [onLocked |-> onLocked, onSpent |-> onSpent]]

\* One that folds events into an entity, one whose handlers fail after they
\* wrote, and one that binds the handlers of a kind in two data sources and
\* names one its module does not export.
MCMappings ==
    { NoMapping,
      Mapping(<< Source({"Vault", "KCC20Asset"}, Both) >>,
              << Get("e"), Set("e") >>, << Get("e"), Set("e"), Set("f") >>),
      Mapping(<< Source({"KCC20Asset"}, Both) >>,
              << Set("e"), Loop >>, << Set("e"), Trap >>),
      Mapping(<< Source({"Vault"}, [CovenantSpent |-> "onBurn"]),
                 Source({"Vault", "KCC20Asset"}, [CovenantLocked |-> "onLocked"]),
                 Source({"KCC20Asset"}, [CovenantSpent |-> "onBurn"]) >>,
              << Get("e"), Set("e") >>, <<>>) }

MCFilters == { <<"KCC20Asset">> }

-------------------------------------------------------------------------------
(* The registered patterns and the derivation of fingerprints.               *)

\* Every window lies in the bytes of its pattern and shares none with another,
\* and the fields follow one another, each behind its push prefix.
ASSUME \A i \in DOMAIN Registered :
    /\ InBounds(Registered[i].windows, Registered[i].length)
    /\ Disjoint(Registered[i].windows)
    /\ PushPrefixed(Registered[i].windows)
    /\ Cardinality(FieldNames(Registered[i].windows)) = Len(Registered[i].windows)

\* What the operation inference reads is what the receipt pattern extracts.
ASSUME {"owner_identifier", "identifier_type", "amount", "is_minter"} = FieldNames(kcc20_asset)

\* No two exact patterns are as long as each other: a script matches at most
\* one of them.
ASSUME \A i, j \in DOMAIN Registered :
    i # j /\ Registered[i].exact /\ Registered[j].exact
        => Registered[i].length # Registered[j].length

\* The registry of this instance is laid out the same way.
ASSUME \A i \in DOMAIN MCRegistry : Valid(MCRegistry[i].matcher)

\* It tells the scripts apart, as SpendsFollowChain needs.
ASSUME OneKind

\* Whenever a fingerprint can be derived from samples it matches every one of
\* them, over all pairs of short scripts.
Samples == UNION {[1..n -> 0..1] : n \in 0..4}

ASSUME \A a, b \in Samples :
    LET windows == << Window("x", 1, 1) >>
    IN  Derivable(<<a, b>>, windows) =>
            Matches(Derived(<<a, b>>, windows), a) /\ Matches(Derived(<<a, b>>, windows), b)
===============================================================================
