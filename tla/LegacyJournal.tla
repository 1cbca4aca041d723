---------------------------- MODULE LegacyJournal ----------------------------
(* The legacy token ledgers and the journal that makes them durable.  A      *)
(* transaction that carries an inscription is applied to the ledger in       *)
(* memory, and if accepted journaled; a reorganization deletes the journal   *)
(* rows from a score on, and the ledgers are rebuilt, as after a restart, by *)
(* replaying the rows that are left.                                         *)
(*                                                                           *)
(* No code of the node calls these operations yet.  The order of the calls   *)
(* is the one the comments of the store prescribe: ask whether the           *)
(* transaction is journaled, apply, number, record; delete, fetch, replay.   *)
EXTENDS Inscriptions, FiniteSets, Sequences, FiniteSetsExt, SequencesExt

CONSTANTS
    Tx,          \* transactions
    Envelope,    \* the payload of each, decoded
    Sender,      \* the address of its first input
    MaxDaa,      \* bound: the highest DAA score
    MaxLength,   \* bound: transactions on the chain at a time
    MaxTurns,    \* bound: reorganizations and crashes
    RedeliverRejected   \* whether a rejected inscription may arrive again

ASSUME LegacyJournalAssumption ==
    /\ Sender \in [Tx -> Address]
    /\ MaxDaa \in Nat /\ MaxLength \in Nat /\ MaxTurns \in Nat
    /\ RedeliverRejected \in BOOLEAN

VARIABLES
    tokens,         \* the KRC-20 ledger
    collections,    \* the KRC-721 ledger
    journal20,      \* rows of kasgraph_krc20_legacy_ledger
    journal721,     \* rows of kasgraph_krc721_legacy_ledger
    chain,          \* what the node was handed: [tx, daa], oldest first
    phase,          \* "live", "accepted" (row not written yet), "replaying"
    todo,           \* the rows still to be replayed
    turns

vars == <<tokens, collections, journal20, journal721, chain, phase, todo, turns>>

ledgers == <<tokens, collections>>
journals == <<journal20, journal721>>

Row20 == [tick : Tick, seq : Nat, daa : 0..MaxDaa, tx : Tx, columns : {Krc20Columns(o) : o \in Krc20Op}]
Row721 == [tick : Tick, seq : Nat, daa : 0..MaxDaa, tx : Tx, columns : {Krc721Columns(o) : o \in Krc721Op}]

Init ==
    /\ tokens = [t \in Tick |-> NoToken]
    /\ collections = [t \in Tick |-> NoCollection]
    /\ journal20 = {}
    /\ journal721 = {}
    /\ chain = <<>>
    /\ phase = "live"
    /\ todo = {}
    /\ turns = 0

TickOf(tx) == Lower[Envelope[tx].tick]

Exists20(tx) == \E r \in journal20 : r.tx = tx
Exists721(tx) == \E r \in journal721 : r.tx = tx

\* Mutant: the number of the latest row is given again.
NextSeqSame(journal, tick) ==
    LET seqs == {r.seq : r \in {q \in journal : q.tick = tick}}
    IN  IF seqs = {} THEN 0 ELSE Max(seqs)

\* MAX(seq) + 1, or 0 for a tick with no row
NextSeq(journal, tick) ==
    LET seqs == {r.seq : r \in {q \in journal : q.tick = tick}}
    IN  IF seqs = {} THEN 0 ELSE Max(seqs) + 1

NextSeq20(tick) == NextSeq(journal20, tick)
NextSeq721(tick) == NextSeq(journal721, tick)

\* ON CONFLICT (tx_hash) DO NOTHING
Insert(journal, row) ==
    IF \E r \in journal : r.tx = row.tx THEN journal ELSE journal \cup {row}

-------------------------------------------------------------------------------
LastDaa == IF chain = <<>> THEN 0 ELSE Last(chain).daa

OnChain(tx) == \E i \in DOMAIN chain : chain[i].tx = tx

\* The chain hands over the next transaction, or one the node already had.
Arrives(tx, daa) ==
    /\ phase = "live"
    /\ \/ /\ ~OnChain(tx)
          /\ daa >= LastDaa
          /\ Len(chain) < MaxLength
          /\ chain' = Append(chain, [tx |-> tx, daa |-> daa])
       \/ /\ \E i \in DOMAIN chain : chain[i].tx = tx /\ chain[i].daa = daa
          /\ RedeliverRejected \/ Exists20(tx) \/ Exists721(tx)
          /\ chain' = chain

\* Neither parser takes the payload, or the journal has the transaction.
PassOver(tx, daa) ==
    /\ Arrives(tx, daa)
    /\ \/ ~IsKrc20(Envelope[tx]) /\ ~IsKrc721(Envelope[tx])
       \/ Exists20(tx)
       \/ Exists721(tx)
    /\ UNCHANGED <<ledgers, journals, phase, todo, turns>>

Outcome20(tx) ==
    Krc20Apply(tokens[TickOf(tx)], Krc20OpOf(Envelope[tx]), Sender[tx])

Outcome721(tx) ==
    Krc721Apply(collections[TickOf(tx)], Krc721OpOf(Envelope[tx]), Sender[tx])

Apply20(tx, daa) ==
    /\ IsKrc20(Envelope[tx]) /\ ~Exists20(tx)
    /\ Arrives(tx, daa)
    /\ tokens' = [tokens EXCEPT ![TickOf(tx)] = Outcome20(tx).state]
    /\ IF Outcome20(tx).accepted
       THEN phase' = "accepted" /\ todo' = {[tx |-> tx, daa |-> daa]}
       ELSE UNCHANGED <<phase, todo>>
    /\ UNCHANGED <<collections, journals, turns>>

Apply721(tx, daa) ==
    /\ IsKrc721(Envelope[tx]) /\ ~Exists721(tx)
    /\ Arrives(tx, daa)
    /\ collections' = [collections EXCEPT ![TickOf(tx)] = Outcome721(tx).state]
    /\ IF Outcome721(tx).accepted
       THEN phase' = "accepted" /\ todo' = {[tx |-> tx, daa |-> daa]}
       ELSE UNCHANGED <<phase, todo>>
    /\ UNCHANGED <<tokens, journals, turns>>

Recorded20(tx, daa) ==
    [tick |-> TickOf(tx), seq |-> NextSeq20(TickOf(tx)), daa |-> daa, tx |-> tx,
     columns |-> Krc20Columns(Krc20OpOf(Envelope[tx]))]

Recorded721(tx, daa) ==
    [tick |-> TickOf(tx), seq |-> NextSeq721(TickOf(tx)), daa |-> daa, tx |-> tx,
     columns |-> Krc721Columns(Krc721OpOf(Envelope[tx]))]

Record20 ==
    /\ phase = "accepted"
    /\ \E c \in todo :
        /\ IsKrc20(Envelope[c.tx])
        /\ journal20' = Insert(journal20, Recorded20(c.tx, c.daa))
    /\ phase' = "live"
    /\ todo' = {}
    /\ UNCHANGED <<ledgers, journal721, chain, turns>>

Record721 ==
    /\ phase = "accepted"
    /\ \E c \in todo :
        /\ IsKrc721(Envelope[c.tx])
        /\ journal721' = Insert(journal721, Recorded721(c.tx, c.daa))
    /\ phase' = "live"
    /\ todo' = {}
    /\ UNCHANGED <<ledgers, journal20, chain, turns>>

-------------------------------------------------------------------------------
\* Mutant: the row at the cutoff survives.
Unwound20Above(from) == {r \in journal20 : r.daa <= from}

\* DELETE ... WHERE accepting_daa_score >= from
Unwound20(from) == {r \in journal20 : r.daa < from}
Unwound721(from) == {r \in journal721 : r.daa < from}

Rebuild ==
    /\ tokens' = [t \in Tick |-> NoToken]
    /\ collections' = [t \in Tick |-> NoCollection]
    /\ phase' = "replaying"
    /\ todo' = journal20' \cup journal721'

\* A reorganization: the chain loses everything from a score on.
Unwind(from) ==
    /\ phase = "live"
    /\ turns < MaxTurns
    /\ \E i \in DOMAIN chain : chain[i].daa >= from
    /\ chain' = SubSeq(chain, 1, Max({0} \cup {i \in DOMAIN chain : chain[i].daa < from}))
    /\ journal20' = Unwound20(from)
    /\ journal721' = Unwound721(from)
    /\ Rebuild
    /\ turns' = turns + 1

\* The process stops and starts again: memory is lost, and so is a
\* transaction that was applied but not yet recorded.
Restart ==
    /\ turns < MaxTurns
    /\ chain # <<>>
    /\ chain' = IF phase = "accepted"
                THEN RemoveAt(chain, CHOOSE i \in DOMAIN chain : chain[i] \in todo)
                ELSE chain
    /\ UNCHANGED journals
    /\ Rebuild
    /\ turns' = turns + 1

\* The order in which the rows of one table are fetched.
Before(r, q) ==
    \/ r.daa < q.daa
    \/ r.daa = q.daa /\ r.tick < q.tick
    \/ r.daa = q.daa /\ r.tick = q.tick /\ r.seq < q.seq

Next20(r) == r \in todo \cap journal20 /\ ~\E q \in todo \cap journal20 : Before(q, r)
Next721(r) == r \in todo \cap journal721 /\ ~\E q \in todo \cap journal721 : Before(q, r)

Replay20(r) ==
    /\ phase = "replaying"
    /\ Next20(r)
    /\ Krc20Rebuilds(r.columns)
    /\ tokens' = [tokens EXCEPT ![r.tick] =
                    Krc20Apply(@, Krc20OpOf(r.columns), Sender[r.tx]).state]
    /\ todo' = todo \ {r}
    /\ UNCHANGED <<collections, journals, chain, phase, turns>>

Replay721(r) ==
    /\ phase = "replaying"
    /\ todo \cap journal20 = {}
    /\ Next721(r)
    /\ Krc721Rebuilds(r.columns)
    /\ collections' = [collections EXCEPT ![r.tick] =
                    Krc721Apply(@, Krc721OpOf(r.columns), Sender[r.tx]).state]
    /\ todo' = todo \ {r}
    /\ UNCHANGED <<tokens, journals, chain, phase, turns>>

\* Mutant: the ledgers are used before all rows are replayed.
ReplayedEarly ==
    /\ phase = "replaying"
    /\ phase' = "live"
    /\ UNCHANGED <<ledgers, journals, chain, todo, turns>>

Replayed ==
    /\ phase = "replaying"
    /\ todo = {}
    /\ phase' = "live"
    /\ UNCHANGED <<ledgers, journals, chain, todo, turns>>

Next ==
    \/ \E tx \in Tx, daa \in 0..MaxDaa :
        PassOver(tx, daa) \/ Apply20(tx, daa) \/ Apply721(tx, daa)
    \/ Record20
    \/ Record721
    \/ \E from \in 0..MaxDaa : Unwind(from)
    \/ Restart
    \/ \E r \in todo : Replay20(r) \/ Replay721(r)
    \/ Replayed

Spec == Init /\ [][Next]_vars

-------------------------------------------------------------------------------
(* Properties.                                                               *)

TypeOK ==
    /\ tokens \in [Tick -> Token]
    /\ collections \in [Tick -> Collection]
    /\ journal20 \subseteq Row20
    /\ journal721 \subseteq Row721
    /\ phase \in {"live", "accepted", "replaying"}
    /\ CASE phase = "live" -> todo = {}
         [] phase = "accepted" -> todo \subseteq [tx : Tx, daa : 0..MaxDaa]
         [] phase = "replaying" -> todo \subseteq journal20 \cup journal721

\* What the holders of a tick own together is what is counted as minted, and
\* never more than its cap: no order of mints, transfers to oneself, burns and
\* rebuilds may create or lose an amount (krc20_ledger.rs:177 relies on it).
SupplyIsHeld ==
    \A t \in Tick :
        /\ tokens[t].minted = FoldFunction(+, 0, tokens[t].balances)
        /\ tokens[t].minted <= tokens[t].max

\* A tick's token, and its collection, when the transactions of the chain are
\* applied from genesis.
TokenAfter(t) ==
    LET after[n \in 0..Len(chain)] ==
            IF n = 0 THEN NoToken
            ELSE LET tx == chain[n].tx
                 IN  IF IsKrc20(Envelope[tx]) /\ TickOf(tx) = t
                     THEN Krc20Apply(after[n - 1], Krc20OpOf(Envelope[tx]), Sender[tx]).state
                     ELSE after[n - 1]
    IN  after[Len(chain)]

CollectionAfter(t) ==
    LET after[n \in 0..Len(chain)] ==
            IF n = 0 THEN NoCollection
            ELSE LET tx == chain[n].tx
                 IN  IF IsKrc721(Envelope[tx]) /\ TickOf(tx) = t
                     THEN Krc721Apply(after[n - 1], Krc721OpOf(Envelope[tx]), Sender[tx]).state
                     ELSE after[n - 1]
    IN  after[Len(chain)]

\* Outside a rebuild both ledgers are what applying the chain's transactions
\* from genesis gives, rejected ones included, through every reorganization
\* and restart (krc20_ledger.rs:79, KRC20_KRC721_REFERENCE.md:54).
LedgerFollowsChain ==
    phase # "replaying" =>
        \A t \in Tick :
            tokens[t] = TokenAfter(t) /\ collections[t] = CollectionAfter(t)

\* A journaled operation is accepted again whenever it is replayed: what an
\* unwind leaves is self-consistent (krc20_ledger.rs:86).
ReplayAccepts ==
    [][phase = "replaying" => \A r \in todo \ todo' :
        IF r \in journal20
        THEN Krc20Apply(tokens[r.tick], Krc20OpOf(r.columns), Sender[r.tx]).accepted
        ELSE Krc721Apply(collections[r.tick], Krc721OpOf(r.columns), Sender[r.tx]).accepted]_vars

\* A token that was minted and burned has no owner in any later step: its id
\* stays consumed until the mint itself is unwound (krc721_ledger.rs:20).
BurnedStaysBurned ==
    [][\A t \in Tick :
        \A id \in collections[t].minted \ DOMAIN collections[t].owners :
            id \notin DOMAIN collections'[t].owners]_vars
===============================================================================
