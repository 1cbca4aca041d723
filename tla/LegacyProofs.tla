----------------------------- MODULE LegacyProofs -----------------------------
(***************************************************************************)
(* Theorems about the legacy ledgers and their journal, for every set of   *)
(* ticks, addresses and transactions.                                      *)
(*                                                                         *)
(* The invariant keeps the caps of both ledgers and the numbers of the     *)
(* journals.  That the numbers of a tick differ needs more than the        *)
(* numbers themselves: MAX(seq) exists only because they are bounded.      *)
(* That the holders of a tick own together what is counted as minted is    *)
(* kept beside it, and bounds every balance by the integer's width.        *)
(*                                                                         *)
(* The ledgers follow the chain because the rows of a journal are the      *)
(* accepted transactions of the chain, in its order: a history is the      *)
(* run of a tick's ledger over the chain, and during a rebuild there is a  *)
(* cut up to which the rows are replayed.  A row that comes next continues *)
(* the history where the last one left it, as what was rejected between    *)
(* the two changed nothing.                                                *)
(***************************************************************************)
EXTENDS LegacyJournal, FiniteSetTheorems, SequenceTheorems, WellFoundedInduction, TLAPS

LEMMA Least ==
    ASSUME NEW T, T \subseteq Nat, T # {}
    PROVE  \E m \in T : \A n \in T : m <= n
  <1>1. PICK m \in T : \A n \in T : <<n, m>> \notin OpToRel(<, Nat)
    BY NatLessThanWellFounded, WFMin, Zenon
  <1>2. \A n \in T : ~(n < m)
    BY <1>1, Zenon DEF OpToRel
  <1> QED BY <1>2

\* A bounded set of naturals has a largest element, and Max is it.
LEMMA Largest ==
    ASSUME NEW T, T \subseteq Nat, T # {}, NEW n \in Nat, \A x \in T : x <= n
    PROVE  Max(T) \in T /\ \A x \in T : x <= Max(T)
  <1> DEFINE above == {b \in Nat : \A x \in T : x <= b}
  <1>1. PICK m \in above : \A b \in above : m <= b
    BY Least
  <1>2. m \in T
    <2> SUFFICES ASSUME m \notin T PROVE FALSE
      OBVIOUS
    <2>0. m \in Nat /\ \A x \in T : x \in Nat /\ x <= m /\ x # m
      BY <1>1
    <2>1. ASSUME NEW x \in T
          PROVE  x \in Nat /\ x <= m - 1
      <3>1. m \in Nat /\ x \in Nat /\ x <= m /\ x # m
        BY <2>0
      <3> QED BY <3>1
    <2>2. m # 0
      <3>1. PICK x \in T : TRUE OBVIOUS
      <3>2. m \in Nat /\ x \in Nat /\ x <= m - 1 BY <2>0, <2>1
      <3> QED BY <3>2
    <2>3. m - 1 \in Nat
      BY <2>0, <2>2
    <2>4. m - 1 \in above
      BY <2>1, <2>3
    <2> QED BY <1>1, <2>0, <2>4
  <1>3. \A x \in T : m >= x
    BY <1>1
  <1>4. Max(T) \in T /\ \A x \in T : Max(T) >= x
    BY <1>2, <1>3, Zenon DEF Max
  <1> QED BY <1>4

-------------------------------------------------------------------------------
(* What is recorded is what is replayed.                                     *)

\* Every operation is rebuilt from its journal row as it was, of both
\* standards: no column is lost or read as another's, and no row of an
\* accepted operation fails to rebuild (store lib.rs:1221, krc20.rs, krc721.rs).
THEOREM RowsRebuild ==
    /\ \A o \in Krc20Op :
        Krc20Rebuilds(Krc20Columns(o)) /\ Krc20OpOf(Krc20Columns(o)) = o
    /\ \A o \in Krc721Op :
        Krc721Rebuilds(Krc721Columns(o)) /\ Krc721OpOf(Krc721Columns(o)) = o
  <1>1. ASSUME NEW o \in [op : {"deploy"}, max : U64, lim : U64]
        PROVE  Krc20Rebuilds(Krc20Columns(o)) /\ Krc20OpOf(Krc20Columns(o)) = o
    BY DEF Krc20Rebuilds, Krc20Columns, Krc20OpOf, Column, IsAmount
  <1>2. ASSUME NEW o \in [op : {"mint", "burn"}, amt : U64]
        PROVE  Krc20Rebuilds(Krc20Columns(o)) /\ Krc20OpOf(Krc20Columns(o)) = o
    BY DEF Krc20Rebuilds, Krc20Columns, Krc20OpOf, Column, IsAmount
  <1>3. ASSUME NEW o \in [op : {"transfer"}, amt : U64, to : Address]
        PROVE  Krc20Rebuilds(Krc20Columns(o)) /\ Krc20OpOf(Krc20Columns(o)) = o
    BY InscriptionsAssumption
    DEF Krc20Rebuilds, Krc20Columns, Krc20OpOf, Column, IsAmount, Required
  <1>4. ASSUME NEW o \in [op : {"deploy"}, max : U64]
        PROVE  Krc721Rebuilds(Krc721Columns(o)) /\ Krc721OpOf(Krc721Columns(o)) = o
    BY DEF Krc721Rebuilds, Krc721Columns, Krc721OpOf, Column, IsAmount
  <1>5. ASSUME NEW o \in [op : {"burn"}, id : U64]
        PROVE  Krc721Rebuilds(Krc721Columns(o)) /\ Krc721OpOf(Krc721Columns(o)) = o
    BY DEF Krc721Rebuilds, Krc721Columns, Krc721OpOf, Column, IsAmount
  <1>6. ASSUME NEW o \in [op : {"mint"}, id : U64, uri : Uri]
        PROVE  Krc721Rebuilds(Krc721Columns(o)) /\ Krc721OpOf(Krc721Columns(o)) = o
    BY InscriptionsAssumption
    DEF Krc721Rebuilds, Krc721Columns, Krc721OpOf, Column, IsAmount, Required
  <1>7. ASSUME NEW o \in [op : {"transfer"}, id : U64, to : Address]
        PROVE  Krc721Rebuilds(Krc721Columns(o)) /\ Krc721OpOf(Krc721Columns(o)) = o
    BY InscriptionsAssumption
    DEF Krc721Rebuilds, Krc721Columns, Krc721OpOf, Column, IsAmount, Required
  <1> QED BY <1>1, <1>2, <1>3, <1>4, <1>5, <1>6, <1>7 DEF Krc20Op, Krc721Op

-------------------------------------------------------------------------------
(* The ledgers, one operation at a time.                                     *)

\* a token whose balances may be any naturals
Token20 ==
    [deployed : BOOLEAN, max : U64, lim : U64, minted : U64,
     balances : UNION {[holders -> Nat] : holders \in SUBSET Address}]

TokenOK(t) == t \in Token20 /\ t.minted <= t.max

CollectionOK(c) ==
    /\ c \in Collection
    /\ DOMAIN c.owners \subseteq c.minted
    /\ \A id \in c.minted : id < c.max

LEMMA BalanceFacts ==
    ASSUME NEW balances \in UNION {[holders -> Nat] : holders \in SUBSET Address},
           NEW a \in Address, NEW amt \in Nat
    PROVE  /\ BalanceOf(balances, a) \in Nat
           /\ Credit(balances, a, amt) \in UNION {[holders -> Nat] : holders \in SUBSET Address}
           /\ BalanceOf(balances, a) >= amt =>
                Debit(balances, a, amt) \in UNION {[holders -> Nat] : holders \in SUBSET Address}
  <1>1. PICK holders \in SUBSET Address : balances \in [holders -> Nat]
    OBVIOUS
  <1>2. BalanceOf(balances, a) \in Nat
    BY <1>1 DEF BalanceOf
  <1>3. Credit(balances, a, amt) \in [holders \cup {a} -> Nat]
    BY <1>1, <1>2 DEF Credit
  <1>4. ASSUME BalanceOf(balances, a) >= amt
        PROVE  \E left \in SUBSET Address : Debit(balances, a, amt) \in [left -> Nat]
    <2> DEFINE left == holders \ {y \in {a} : BalanceOf(balances, y) = amt}
    <2>1. \A x \in left : balances[x] \in Nat /\ (x = a => balances[x] >= amt)
      BY <1>1, <1>4 DEF BalanceOf
    <2>2. Debit(balances, a, amt) \in [left -> Nat]
      BY <1>1, <2>1 DEF Debit
    <2> QED BY <2>2
  <1> QED BY <1>2, <1>3, <1>4

LEMMA Krc20Keeps ==
    ASSUME NEW t, TokenOK(t), NEW o \in Krc20Op, NEW sender \in Address
    PROVE  TokenOK(Krc20Apply(t, o, sender).state)
  <1>0. 0 \in U64 /\ U64 \subseteq Nat
    BY InscriptionsAssumption DEF U64
  <1>1. ASSUME NEW max \in U64, NEW lim \in U64
        PROVE  TokenOK(Krc20Deploy(t, max, lim).state)
    <2> DEFINE none == [a \in {} |-> 0]
    <2>1. none \in UNION {[holders -> Nat] : holders \in SUBSET Address}
      <3>1. none \in [{} -> Nat] OBVIOUS
      <3> QED BY <3>1
    <2>2. CASE ~t.deployed
      <3>1. Krc20Deploy(t, max, lim).state =
                [deployed |-> TRUE, max |-> max, lim |-> lim, minted |-> 0, balances |-> none]
        BY <2>2 DEF Krc20Deploy, Accepted, NoToken
      <3> HIDE DEF none
      <3>2. 0 <= max
        BY <1>0
      <3> QED BY <1>0, <2>1, <3>1, <3>2 DEF TokenOK, Token20
    <2>3. CASE t.deployed
      BY <2>3 DEF Krc20Deploy, Rejected
    <2> QED BY <2>2, <2>3
  <1>2. ASSUME NEW amt \in U64
        PROVE  TokenOK(Krc20Mint(t, sender, amt).state)
    <2>1. Credit(t.balances, sender, amt) \in UNION {[holders -> Nat] : holders \in SUBSET Address}
      BY <1>0, BalanceFacts DEF TokenOK, Token20
    <2>2. CASE t.deployed /\ amt <= t.lim /\ t.minted + amt <= MaxU64 /\ t.minted + amt <= t.max
      <3>1. t.minted + amt \in U64
        BY <2>2, InscriptionsAssumption DEF U64, TokenOK, Token20
      <3> QED BY <2>1, <2>2, <3>1 DEF Krc20Mint, Accepted, TokenOK, Token20
    <2>3. CASE ~(t.deployed /\ amt <= t.lim /\ t.minted + amt <= MaxU64 /\ t.minted + amt <= t.max)
      BY <2>3 DEF Krc20Mint, Rejected
    <2> QED BY <2>2, <2>3
  <1>3. ASSUME NEW amt \in U64, NEW to \in Address
        PROVE  TokenOK(Krc20Transfer(t, sender, to, amt).state)
    <2>1. CASE t.deployed /\ BalanceOf(t.balances, sender) >= amt
      <3>1. Debit(t.balances, sender, amt) \in UNION {[holders -> Nat] : holders \in SUBSET Address}
        BY <1>0, <2>1, BalanceFacts DEF TokenOK, Token20
      <3>2. Credit(Debit(t.balances, sender, amt), to, amt)
                \in UNION {[holders -> Nat] : holders \in SUBSET Address}
        BY <1>0, <3>1, BalanceFacts
      <3> QED BY <2>1, <3>2 DEF Krc20Transfer, Accepted, TokenOK, Token20
    <2>2. CASE ~(t.deployed /\ BalanceOf(t.balances, sender) >= amt)
      BY <2>2 DEF Krc20Transfer, Rejected
    <2> QED BY <2>1, <2>2
  <1>4. ASSUME NEW amt \in U64
        PROVE  TokenOK(Krc20Burn(t, sender, amt).state)
    <2>1. CASE t.deployed /\ BalanceOf(t.balances, sender) >= amt
      <3>1. Debit(t.balances, sender, amt) \in UNION {[holders -> Nat] : holders \in SUBSET Address}
        BY <1>0, <2>1, BalanceFacts DEF TokenOK, Token20
      <3> DEFINE left == IF t.minted > amt THEN t.minted - amt ELSE 0
      <3>2. left \in U64 /\ left <= t.max
        BY InscriptionsAssumption DEF U64, TokenOK, Token20
      <3>3. Krc20Burn(t, sender, amt).state =
                [t EXCEPT !.balances = Debit(t.balances, sender, amt), !.minted = left]
        BY <2>1 DEF Krc20Burn, Accepted, TokenOK, Token20
      <3> QED BY <3>1, <3>2, <3>3 DEF TokenOK, Token20
    <2>2. CASE ~(t.deployed /\ BalanceOf(t.balances, sender) >= amt)
      BY <2>2 DEF Krc20Burn, Rejected
    <2> QED BY <2>1, <2>2
  <1> QED BY <1>1, <1>2, <1>3, <1>4 DEF Krc20Apply, Krc20Op

LEMMA Krc721Keeps ==
    ASSUME NEW c, CollectionOK(c), NEW o \in Krc721Op, NEW sender \in Address
    PROVE  /\ CollectionOK(Krc721Apply(c, o, sender).state)
           /\ \A id \in c.minted \ DOMAIN c.owners :
                id \notin DOMAIN Krc721Apply(c, o, sender).state.owners
  <1> DEFINE Keeps(new) ==
                /\ CollectionOK(new)
                /\ \A id \in c.minted \ DOMAIN c.owners : id \notin DOMAIN new.owners
  <1>0. 0 \in U64 /\ U64 \subseteq Nat
    BY InscriptionsAssumption DEF U64
  <1>1. PICK live \in SUBSET U64 : c.owners \in [live -> Address]
    BY DEF CollectionOK, Collection, Owners
  <1>2. Keeps(c)
    OBVIOUS
  <1>3. ASSUME NEW max \in U64
        PROVE  Keeps(Krc721Deploy(c, max).state)
    <2>1. [id \in {} |-> Absent] \in [{} -> Address]
      OBVIOUS
    <2>2. NoCollection \in Collection /\ DOMAIN NoCollection.owners = {} /\ NoCollection.minted = {}
      BY <1>0, <2>1 DEF NoCollection, Collection, Owners
    <2> QED BY <1>2, <2>2 DEF Krc721Deploy, Accepted, Rejected, CollectionOK, Collection
  <1>4. ASSUME NEW id \in U64
        PROVE  Keeps(Krc721Mint(c, sender, id).state)
    <2>1. CASE c.deployed /\ id < c.max /\ id \notin c.minted
      <3> DEFINE owners == [x \in DOMAIN c.owners \cup {id} |-> IF x = id THEN sender ELSE c.owners[x]]
      <3>1. owners \in [live \cup {id} -> Address] /\ DOMAIN owners = live \cup {id}
        BY <1>1
      <3>2. owners \in Owners
        BY <3>1 DEF Owners
      <3>3. Krc721Mint(c, sender, id).state =
                [deployed |-> c.deployed, max |-> c.max, owners |-> owners, minted |-> c.minted \cup {id}]
        BY <2>1 DEF Krc721Mint, Accepted, CollectionOK, Collection
      <3> HIDE DEF owners
      <3> QED BY <1>1, <2>1, <3>1, <3>2, <3>3 DEF CollectionOK, Collection
    <2>2. CASE ~(c.deployed /\ id < c.max /\ id \notin c.minted)
      BY <1>2, <2>2 DEF Krc721Mint, Rejected
    <2> QED BY <2>1, <2>2
  <1>5. ASSUME NEW id \in U64, NEW to \in Address
        PROVE  Keeps(Krc721Transfer(c, sender, to, id).state)
    <2>1. CASE c.deployed /\ IsOwner(c, sender, id)
      <3>1. [c.owners EXCEPT ![id] = to] \in [live -> Address]
        BY <1>1
      <3>2. Krc721Transfer(c, sender, to, id).state = [c EXCEPT !.owners = [c.owners EXCEPT ![id] = to]]
        BY <2>1 DEF Krc721Transfer, Accepted, CollectionOK, Collection
      <3> QED BY <1>1, <3>1, <3>2 DEF CollectionOK, Collection, Owners
    <2>2. CASE ~(c.deployed /\ IsOwner(c, sender, id))
      BY <1>2, <2>2 DEF Krc721Transfer, Rejected
    <2> QED BY <2>1, <2>2
  <1>6. ASSUME NEW id \in U64
        PROVE  Keeps(Krc721Burn(c, sender, id).state)
    <2>1. CASE c.deployed /\ IsOwner(c, sender, id)
      <3> DEFINE owners == [x \in DOMAIN c.owners \ {id} |-> c.owners[x]]
      <3>1. owners \in [live \ {id} -> Address] /\ DOMAIN owners = live \ {id}
        BY <1>1
      <3>2. owners \in Owners
        BY <3>1 DEF Owners
      <3>3. Krc721Burn(c, sender, id).state = [c EXCEPT !.owners = owners]
        BY <2>1 DEF Krc721Burn, Accepted, CollectionOK, Collection
      <3> HIDE DEF owners
      <3> QED BY <1>1, <3>1, <3>2, <3>3 DEF CollectionOK, Collection
    <2>2. CASE ~(c.deployed /\ IsOwner(c, sender, id))
      BY <1>2, <2>2 DEF Krc721Burn, Rejected
    <2> QED BY <2>1, <2>2
  <1> QED BY <1>3, <1>4, <1>5, <1>6 DEF Krc721Apply, Krc721Op

-------------------------------------------------------------------------------
(* The journals.                                                             *)

NumbersBounded(journal) == \E n \in Nat : \A r \in journal : r.seq <= n

\* Within a journal a tick gives no number twice.
NumbersDiffer(journal) ==
    \A r, q \in journal : r.tick = q.tick /\ r.seq = q.seq => r = q

JournalOK(journal) == NumbersBounded(journal) /\ NumbersDiffer(journal)

\* The next number is a natural no row of the tick has.
LEMMA NextSeqFacts ==
    ASSUME NEW journal, \A r \in journal : r.seq \in Nat, JournalOK(journal), NEW tick
    PROVE  /\ NextSeq(journal, tick) \in Nat
           /\ \A r \in journal : r.tick = tick => r.seq < NextSeq(journal, tick)
  <1> DEFINE seqs == {r.seq : r \in {q \in journal : q.tick = tick}}
  <1>1. CASE seqs = {}
    BY <1>1 DEF NextSeq
  <1>2. CASE seqs # {}
    <2>1. seqs \subseteq Nat
      OBVIOUS
    <2>2. PICK n \in Nat : \A x \in seqs : x <= n
      BY DEF JournalOK, NumbersBounded
    <2>3. NextSeq(journal, tick) = Max(seqs) + 1
      BY <1>2 DEF NextSeq
    <2>4. \A r \in journal : r.tick = tick => r.seq \in seqs
      OBVIOUS
    <2> HIDE DEF seqs
    <2>5. Max(seqs) \in seqs /\ \A x \in seqs : x <= Max(seqs)
      BY <1>2, <2>1, <2>2, Largest
    <2>6. Max(seqs) \in Nat
      BY <2>1, <2>5
    <2>7. ASSUME NEW r \in journal, r.tick = tick
          PROVE  r.seq < NextSeq(journal, tick)
      <3>1. r.seq \in Nat /\ r.seq <= Max(seqs)
        BY <2>4, <2>5, <2>7
      <3> QED BY <2>3, <2>6, <3>1
    <2> QED BY <2>3, <2>6, <2>7
  <1> QED BY <1>1, <1>2

LEMMA InsertKeeps ==
    ASSUME NEW journal, \A r \in journal : r.seq \in Nat, JournalOK(journal),
           NEW row, row.seq = NextSeq(journal, row.tick)
    PROVE  JournalOK(Insert(journal, row))
  <1>1. /\ row.seq \in Nat
        /\ \A r \in journal : r.tick = row.tick => r.seq < row.seq
    BY NextSeqFacts
  <1>2. PICK n \in Nat : \A r \in journal : r.seq <= n
    BY DEF JournalOK, NumbersBounded
  <1>3. \A r \in journal \cup {row} : r.seq <= n + row.seq
    BY <1>1, <1>2
  <1>4. NumbersBounded(journal \cup {row})
    BY <1>1, <1>3 DEF NumbersBounded
  <1>5. NumbersDiffer(journal \cup {row})
    BY <1>1 DEF JournalOK, NumbersDiffer
  <1> QED BY <1>4, <1>5 DEF Insert, JournalOK

LEMMA PartKeeps ==
    ASSUME NEW journal, JournalOK(journal), NEW part \in SUBSET journal
    PROVE  JournalOK(part)
  BY DEF JournalOK, NumbersBounded, NumbersDiffer

-------------------------------------------------------------------------------
(* The specification.                                                        *)

\* No amount minted and no id consumed exceeds its cap, and only consumed ids
\* have an owner.
CapsAreKept ==
    \A t \in Tick : TokenOK(tokens[t]) /\ CollectionOK(collections[t])

\* At most one row of a journal is the next to be replayed: the order of the
\* rows leaves no choice.
ReplayIsDetermined ==
    /\ \A r, q \in journal20 : Next20(r) /\ Next20(q) => r = q
    /\ \A r, q \in journal721 : Next721(r) /\ Next721(q) => r = q

LInv ==
    /\ tokens \in [Tick -> Token20] /\ collections \in [Tick -> Collection]
    /\ CapsAreKept
    /\ journal20 \subseteq Row20 /\ journal721 \subseteq Row721
    /\ JournalOK(journal20) /\ JournalOK(journal721)
    /\ phase = "accepted" => todo \subseteq [tx : Tx, daa : 0..MaxDaa]

\* What a step may not do to a burned token.
BurnsAreKept ==
    \A t \in Tick : \A id \in collections[t].minted \ DOMAIN collections[t].owners :
        id \notin DOMAIN collections'[t].owners

LEMMA EmptyOK ==
    \A t \in Tick : TokenOK(NoToken) /\ CollectionOK(NoCollection)
  <1>1. 0 \in U64 /\ U64 \subseteq Nat
    BY InscriptionsAssumption DEF U64
  <1>2. TokenOK(NoToken)
    <2> DEFINE none == [a \in {} |-> 0]
    <2>1. none \in UNION {[holders -> Nat] : holders \in SUBSET Address}
      <3>1. none \in [{} -> Nat] OBVIOUS
      <3> QED BY <3>1
    <2>2. NoToken = [deployed |-> FALSE, max |-> 0, lim |-> 0, minted |-> 0, balances |-> none]
      BY DEF NoToken
    <2> HIDE DEF none
    <2> QED BY <1>1, <2>1, <2>2 DEF TokenOK, Token20
  <1>3. CollectionOK(NoCollection)
    <2>1. [id \in {} |-> Absent] \in [{} -> Address]
      OBVIOUS
    <2>2. NoCollection \in Collection /\ DOMAIN NoCollection.owners = {} /\ NoCollection.minted = {}
      BY <1>1, <2>1 DEF NoCollection, Collection, Owners
    <2> QED BY <2>2 DEF CollectionOK
  <1> QED BY <1>2, <1>3

\* The operation of an inscription that a parser takes, and its tick.
LEMMA Parsed20 ==
    ASSUME NEW tx \in Tx, IsKrc20(Envelope[tx])
    PROVE  TickOf(tx) \in Tick /\ Krc20OpOf(Envelope[tx]) \in Krc20Op
  <1>1. TickOf(tx) \in Tick
    BY InscriptionsAssumption DEF IsKrc20, TickOf
  <1>2. Krc20OpOf(Envelope[tx]) \in Krc20Op
    BY DEF IsKrc20, IsAmount, Krc20OpOf, Krc20Op
  <1> QED BY <1>1, <1>2

LEMMA Parsed721 ==
    ASSUME NEW tx \in Tx, IsKrc721(Envelope[tx])
    PROVE  TickOf(tx) \in Tick /\ Krc721OpOf(Envelope[tx]) \in Krc721Op
  <1>1. TickOf(tx) \in Tick
    BY InscriptionsAssumption DEF IsKrc721, TickOf
  <1>2. Krc721OpOf(Envelope[tx]) \in Krc721Op
    BY DEF IsKrc721, IsAmount, Krc721OpOf, Krc721Op
  <1> QED BY <1>1, <1>2

LEMMA LegacyInit == Init => LInv
  <1> SUFFICES ASSUME Init PROVE LInv
    OBVIOUS
  <1>1. JournalOK({})
    BY DEF JournalOK, NumbersBounded, NumbersDiffer
  <1> QED BY <1>1, EmptyOK DEF Init, LInv, CapsAreKept, TokenOK, CollectionOK

\* Both ledgers start afresh, and the rows that are left keep their numbers.
LEMMA RebuildStep ==
    ASSUME LInv, \/ \E from \in 0..MaxDaa : Unwind(from)
                 \/ Restart
    PROVE  LInv'
  <1>1. /\ Rebuild
        /\ journal20' \subseteq journal20 /\ journal721' \subseteq journal721
    BY DEF Unwind, Restart, Unwound20, Unwound721, journals
  <1>2. JournalOK(journal20') /\ JournalOK(journal721')
    BY <1>1, PartKeeps DEF LInv
  <1> QED BY <1>1, <1>2, EmptyOK DEF Rebuild, LInv, CapsAreKept, TokenOK, CollectionOK

LEMMA TokenStep ==
    ASSUME LInv, NEW t \in Tick, NEW o \in Krc20Op, NEW sender \in Address,
           tokens' = [tokens EXCEPT ![t] = Krc20Apply(tokens[t], o, sender).state],
           UNCHANGED <<collections, journals>>,
           phase' = "accepted" => todo' \subseteq [tx : Tx, daa : 0..MaxDaa]
    PROVE  LInv'
  <1>1. TokenOK(Krc20Apply(tokens[t], o, sender).state)
    BY Krc20Keeps DEF LInv, CapsAreKept
  <1> DEFINE new == Krc20Apply(tokens[t], o, sender).state
  <1>2. new \in Token20 BY <1>1 DEF TokenOK
  <1> HIDE DEF new
  <1>3. tokens' \in [Tick -> Token20] /\ \A x \in Tick : tokens'[x] = IF x = t THEN new ELSE tokens[x]
    BY <1>2 DEF LInv, new
  <1>4. CapsAreKept'
    BY <1>1, <1>3 DEF LInv, CapsAreKept, new
  <1> QED BY <1>3, <1>4 DEF LInv, journals

LEMMA CollectionStep ==
    ASSUME LInv, NEW t \in Tick, NEW o \in Krc721Op, NEW sender \in Address,
           collections' = [collections EXCEPT ![t] = Krc721Apply(collections[t], o, sender).state],
           UNCHANGED <<tokens, journals>>,
           phase' = "accepted" => todo' \subseteq [tx : Tx, daa : 0..MaxDaa]
    PROVE  LInv' /\ BurnsAreKept
  <1> DEFINE new == Krc721Apply(collections[t], o, sender).state
  <1>1. /\ CollectionOK(new)
        /\ \A id \in collections[t].minted \ DOMAIN collections[t].owners : id \notin DOMAIN new.owners
    BY Krc721Keeps DEF LInv, CapsAreKept
  <1>2. new \in Collection BY <1>1 DEF CollectionOK
  <1> HIDE DEF new
  <1>3. /\ collections' \in [Tick -> Collection]
        /\ \A x \in Tick : collections'[x] = IF x = t THEN new ELSE collections[x]
    BY <1>2 DEF LInv, new
  <1>4. CapsAreKept'
    BY <1>1, <1>3 DEF LInv, CapsAreKept
  <1>5. ASSUME NEW x \in Tick, NEW id \in collections[x].minted \ DOMAIN collections[x].owners
        PROVE  id \notin DOMAIN collections'[x].owners
    BY <1>1, <1>3
  <1> QED BY <1>3, <1>4, <1>5 DEF LInv, journals, BurnsAreKept

\* A row that is written takes the next number of its tick.
LEMMA RecordStep ==
    ASSUME LInv, Record20 \/ Record721
    PROVE  LInv'
  <1>1. CASE Record20
    <2>1. PICK c \in todo : /\ IsKrc20(Envelope[c.tx])
                            /\ journal20' = Insert(journal20, Recorded20(c.tx, c.daa))
      BY <1>1 DEF Record20
    <2> DEFINE row == Recorded20(c.tx, c.daa)
    <2>2. c.tx \in Tx /\ c.daa \in 0..MaxDaa
      BY <1>1 DEF Record20, LInv
    <2>3. TickOf(c.tx) \in Tick /\ Krc20OpOf(Envelope[c.tx]) \in Krc20Op
      BY <2>1, <2>2, Parsed20
    <2>4. \A r \in journal20 : r.seq \in Nat
      BY DEF LInv, Row20
    <2>5. row.tick = TickOf(c.tx) /\ row.seq = NextSeq(journal20, TickOf(c.tx))
      BY DEF Recorded20, NextSeq20
    <2>6. row.seq \in Nat
      BY <2>4, <2>5, NextSeqFacts DEF LInv
    <2>7. row \in Row20
      BY <2>2, <2>3, <2>6 DEF Recorded20, Row20
    <2> HIDE DEF row
    <2>8. JournalOK(journal20') /\ journal20' \subseteq Row20
      BY <2>1, <2>4, <2>5, <2>7, InsertKeeps DEF LInv, Insert, row
    <2> QED BY <1>1, <2>8 DEF Record20, LInv, CapsAreKept, ledgers
  <1>2. CASE Record721
    <2>1. PICK c \in todo : /\ IsKrc721(Envelope[c.tx])
                            /\ journal721' = Insert(journal721, Recorded721(c.tx, c.daa))
      BY <1>2 DEF Record721
    <2> DEFINE row == Recorded721(c.tx, c.daa)
    <2>2. c.tx \in Tx /\ c.daa \in 0..MaxDaa
      BY <1>2 DEF Record721, LInv
    <2>3. TickOf(c.tx) \in Tick /\ Krc721OpOf(Envelope[c.tx]) \in Krc721Op
      BY <2>1, <2>2, Parsed721
    <2>4. \A r \in journal721 : r.seq \in Nat
      BY DEF LInv, Row721
    <2>5. row.tick = TickOf(c.tx) /\ row.seq = NextSeq(journal721, TickOf(c.tx))
      BY DEF Recorded721, NextSeq721
    <2>6. row.seq \in Nat
      BY <2>4, <2>5, NextSeqFacts DEF LInv
    <2>7. row \in Row721
      BY <2>2, <2>3, <2>6 DEF Recorded721, Row721
    <2> HIDE DEF row
    <2>8. JournalOK(journal721') /\ journal721' \subseteq Row721
      BY <2>1, <2>4, <2>5, <2>7, InsertKeeps DEF LInv, Insert, row
    <2> QED BY <1>2, <2>8 DEF Record721, LInv, CapsAreKept, ledgers
  <1> QED BY <1>1, <1>2

LEMMA ReplayStep ==
    ASSUME LInv, NEW r \in todo, Replay20(r) \/ Replay721(r)
    PROVE  LInv' /\ BurnsAreKept
  <1>1. CASE Replay20(r)
    <2>1. r \in Row20
      BY <1>1 DEF Replay20, Next20, LInv
    <2>2. PICK o \in Krc20Op : r.columns = Krc20Columns(o)
      BY <2>1 DEF Row20
    <2>3. Krc20OpOf(r.columns) \in Krc20Op /\ r.tick \in Tick /\ Sender[r.tx] \in Address
      BY <2>1, <2>2, RowsRebuild, LegacyJournalAssumption DEF Row20
    <2>4. /\ tokens' = [tokens EXCEPT ![r.tick] =
                            Krc20Apply(tokens[r.tick], Krc20OpOf(r.columns), Sender[r.tx]).state]
          /\ phase = "replaying" /\ UNCHANGED <<collections, journals, phase>>
      BY <1>1, <2>3 DEF Replay20, LInv
    <2>5. BurnsAreKept
      BY <2>4 DEF BurnsAreKept
    <2> QED BY <2>3, <2>4, <2>5, TokenStep
  <1>2. CASE Replay721(r)
    <2>1. r \in Row721
      BY <1>2 DEF Replay721, Next721, LInv
    <2>2. PICK o \in Krc721Op : r.columns = Krc721Columns(o)
      BY <2>1 DEF Row721
    <2>3. Krc721OpOf(r.columns) \in Krc721Op /\ r.tick \in Tick /\ Sender[r.tx] \in Address
      BY <2>1, <2>2, RowsRebuild, LegacyJournalAssumption DEF Row721
    <2>4. /\ collections' = [collections EXCEPT ![r.tick] =
                            Krc721Apply(collections[r.tick], Krc721OpOf(r.columns), Sender[r.tx]).state]
          /\ phase = "replaying" /\ UNCHANGED <<tokens, journals, phase>>
      BY <1>2, <2>3 DEF Replay721, LInv
    <2> QED BY <2>3, <2>4, CollectionStep
  <1> QED BY <1>1, <1>2

LEMMA ApplyStep ==
    ASSUME LInv, NEW tx \in Tx, NEW daa \in 0..MaxDaa, Apply20(tx, daa) \/ Apply721(tx, daa)
    PROVE  LInv' /\ BurnsAreKept
  <1>1. Sender[tx] \in Address
    BY LegacyJournalAssumption
  <1>2. CASE Apply20(tx, daa)
    <2>1. TickOf(tx) \in Tick /\ Krc20OpOf(Envelope[tx]) \in Krc20Op
      BY <1>2, Parsed20 DEF Apply20
    <2>2. /\ tokens' = [tokens EXCEPT ![TickOf(tx)] =
                    Krc20Apply(tokens[TickOf(tx)], Krc20OpOf(Envelope[tx]), Sender[tx]).state]
          /\ UNCHANGED <<collections, journals>>
          /\ phase' = "accepted" => todo' \subseteq [tx : Tx, daa : 0..MaxDaa]
      BY <1>2 DEF Apply20, Outcome20, LInv
    <2>3. BurnsAreKept
      BY <2>2 DEF BurnsAreKept
    <2> QED BY <1>1, <2>1, <2>2, <2>3, TokenStep
  <1>3. CASE Apply721(tx, daa)
    <2>1. TickOf(tx) \in Tick /\ Krc721OpOf(Envelope[tx]) \in Krc721Op
      BY <1>3, Parsed721 DEF Apply721
    <2>2. /\ collections' = [collections EXCEPT ![TickOf(tx)] =
                    Krc721Apply(collections[TickOf(tx)], Krc721OpOf(Envelope[tx]), Sender[tx]).state]
          /\ UNCHANGED <<tokens, journals>>
          /\ phase' = "accepted" => todo' \subseteq [tx : Tx, daa : 0..MaxDaa]
      BY <1>3 DEF Apply721, Outcome721, LInv
    <2> QED BY <1>1, <2>1, <2>2, CollectionStep
  <1> QED BY <1>2, <1>3

LEMMA LegacyStep ==
    ASSUME LInv, [Next]_vars
    PROVE  LInv' /\ BurnsAreKept
  <1>1. ASSUME NEW tx \in Tx, NEW daa \in 0..MaxDaa, PassOver(tx, daa)
        PROVE  LInv' /\ BurnsAreKept
    BY <1>1 DEF PassOver, LInv, CapsAreKept, BurnsAreKept, ledgers, journals
  <1>2. CASE Record20 \/ Record721
    BY <1>2, RecordStep DEF Record20, Record721, ledgers, BurnsAreKept
  <1>3. CASE (\E from \in 0..MaxDaa : Unwind(from)) \/ Restart
    <2>1. LInv'
      BY <1>3, RebuildStep
    <2>2. \A t \in Tick : collections'[t] = NoCollection
      BY <1>3 DEF Unwind, Restart, Rebuild
    <2> QED BY <2>1, <2>2 DEF BurnsAreKept, NoCollection
  <1>4. CASE Replayed
    BY <1>4 DEF Replayed, LInv, CapsAreKept, BurnsAreKept, ledgers, journals
  <1>5. CASE UNCHANGED vars
    BY <1>5 DEF vars, LInv, CapsAreKept, BurnsAreKept, ledgers, journals
  <1> QED BY <1>1, <1>2, <1>3, <1>4, <1>5, ApplyStep, ReplayStep DEF Next

\* The caps hold in every reachable state, through every unwind and restart:
\* what is counted as minted never exceeds its cap or the integer's width, no
\* balance goes below zero and an item with an owner is a minted one
\* (krc20_ledger.rs:131, krc721_ledger.rs:123).
THEOREM CapsHold == Spec => []CapsAreKept
  <1>1. LInv => CapsAreKept
    BY DEF LInv
  <1> QED BY <1>1, LegacyInit, LegacyStep, PTL DEF Spec

\* Rows are replayed in one order only, whatever was unwound and numbered
\* again before: no two rows of a tick have the same number (store lib.rs:1221).
THEOREM OneReplayOrder == Spec => []ReplayIsDetermined
  <1>1. ASSUME LInv PROVE ReplayIsDetermined
    <2>1. \A r \in journal20 \cup journal721 : r.daa \in Nat /\ r.tick \in Nat /\ r.seq \in Nat
      <3>1. \A r \in Row20 \cup Row721 : r.daa \in 0..MaxDaa /\ r.tick \in Tick /\ r.seq \in Nat
        BY DEF Row20, Row721
      <3>2. Tick \subseteq Nat /\ 0..MaxDaa \subseteq Nat
        BY InscriptionsAssumption, LegacyJournalAssumption
      <3> QED BY <1>1, <3>1, <3>2 DEF LInv
    <2>2. ASSUME NEW r \in journal20, NEW q \in journal20, Next20(r), Next20(q)
          PROVE  r = q
      <3>1. ~Before(r, q) /\ ~Before(q, r)
        BY <2>2 DEF Next20
      <3>2. r.tick = q.tick /\ r.seq = q.seq
        BY <2>1, <3>1 DEF Before
      <3> QED BY <1>1, <3>2 DEF LInv, JournalOK, NumbersDiffer
    <2>3. ASSUME NEW r \in journal721, NEW q \in journal721, Next721(r), Next721(q)
          PROVE  r = q
      <3>1. ~Before(r, q) /\ ~Before(q, r)
        BY <2>3 DEF Next721
      <3>2. r.tick = q.tick /\ r.seq = q.seq
        BY <2>1, <3>1 DEF Before
      <3> QED BY <1>1, <3>2 DEF LInv, JournalOK, NumbersDiffer
    <2> QED BY <2>2, <2>3 DEF ReplayIsDetermined
  <1> QED BY <1>1, LegacyInit, LegacyStep, PTL DEF Spec

\* A burned item has no owner in any later step of the ledger
\* (krc721_ledger.rs:20), for every collection size.
THEOREM BurnedItemsStay == Spec => BurnedStaysBurned
  <1>1. BurnsAreKept <=> \A t \in Tick :
            \A id \in collections[t].minted \ DOMAIN collections[t].owners :
                id \notin DOMAIN collections'[t].owners
    BY DEF BurnsAreKept
  <1>2. LInv /\ [Next]_vars =>
            [\A t \in Tick :
                \A id \in collections[t].minted \ DOMAIN collections[t].owners :
                    id \notin DOMAIN collections'[t].owners]_vars
    BY <1>1, LegacyStep
  <1> QED BY <1>2, LegacyInit, LegacyStep, PTL DEF Spec, BurnedStaysBurned

-------------------------------------------------------------------------------
(* The sum of a function over a finite set, from the recursion of the fold   *)
(* that the supply is stated with: the recursion has a solution, and its     *)
(* value does not depend on the order in which the indices are taken.        *)

Pick(s) == CHOOSE x \in s : TRUE

\* What the fold over a function f adds up, one set of indices at a time.
Adds(f, D, g) ==
    g = [s \in D |-> IF s = {} THEN 0 ELSE f[Pick(s)] + g[s \ {Pick(s)}]]

Total(f) == FoldFunction(+, 0, f)

LEMMA TotalIsChosen ==
    ASSUME NEW f
    PROVE  Total(f) = (CHOOSE g : Adds(f, SUBSET DOMAIN f, g))[DOMAIN f]
  BY DEF Total, FoldFunction, FoldFunctionOnSet, MapThenFoldSet, Adds, Pick

LEMMA PickIn ==
    ASSUME NEW s, s # {}
    PROVE  Pick(s) \in s
  BY DEF Pick

LEMMA Smaller ==
    ASSUME NEW s, IsFiniteSet(s), NEW x \in s
    PROVE  /\ IsFiniteSet(s \ {x})
           /\ Cardinality(s) \in Nat /\ Cardinality(s \ {x}) \in Nat
           /\ Cardinality(s \ {x}) = Cardinality(s) - 1
           /\ Cardinality(s) > 0
  <1>1. /\ IsFiniteSet(s \ {x})
        /\ Cardinality(s \ {x}) = Cardinality(s) - 1
    BY FS_RemoveElement
  <1>2. Cardinality(s) \in Nat /\ Cardinality(s \ {x}) \in Nat
    BY <1>1, FS_CardinalityType
  <1>3. Cardinality(s) > 0
    BY <1>1, <1>2
  <1> QED BY <1>1, <1>2, <1>3

\* The recursion has a solution on every set of indices that is finite.
LEMMA AdditionExists ==
    ASSUME NEW f, NEW D, IsFiniteSet(D)
    PROVE  \E g : Adds(f, SUBSET D, g)
  <1> DEFINE Upto(n) == {s \in SUBSET D : Cardinality(s) <= n}
             bad == {n \in Nat : ~\E g : Adds(f, Upto(n), g)}
  <1>0. \A s \in SUBSET D : IsFiniteSet(s) /\ Cardinality(s) \in Nat
    BY FS_Subset, FS_CardinalityType
  <1>1. \E g : Adds(f, Upto(0), g)
    <2> DEFINE none == [s \in Upto(0) |-> 0]
    <2>1. ASSUME NEW s \in Upto(0) PROVE s = {}
      BY <1>0, FS_EmptySet
    <2>2. none = [s \in Upto(0) |-> IF s = {} THEN 0 ELSE f[Pick(s)] + none[s \ {Pick(s)}]]
      BY <2>1
    <2>3. Adds(f, Upto(0), none)
      BY <2>2 DEF Adds
    <2> QED BY <2>3
  <1>2. ASSUME NEW n \in Nat, \E g : Adds(f, Upto(n), g)
        PROVE  \E g : Adds(f, Upto(n + 1), g)
    <2>1. PICK g : Adds(f, Upto(n), g)
      BY <1>2
    <2> DEFINE h == [s \in Upto(n + 1) |-> IF s = {} THEN 0 ELSE f[Pick(s)] + g[s \ {Pick(s)}]]
    <2>2. ASSUME NEW s \in Upto(n + 1), s # {}
          PROVE  h[s \ {Pick(s)}] = g[s \ {Pick(s)}]
      <3>0. Pick(s) \in s BY <2>2, PickIn
      <3> DEFINE rest == s \ {Pick(s)}
      <3>1. rest \in Upto(n) /\ rest \in Upto(n + 1)
        BY <1>0, <3>0, Smaller
      <3>2. g[rest] = IF rest = {} THEN 0 ELSE f[Pick(rest)] + g[rest \ {Pick(rest)}]
        BY <2>1, <3>1 DEF Adds
      <3>3. h[rest] = IF rest = {} THEN 0 ELSE f[Pick(rest)] + g[rest \ {Pick(rest)}]
        BY <3>1
      <3> QED BY <3>2, <3>3
    <2>3. h = [s \in Upto(n + 1) |-> IF s = {} THEN 0 ELSE f[Pick(s)] + h[s \ {Pick(s)}]]
      BY <2>2
    <2> HIDE DEF h, Upto
    <2>4. Adds(f, Upto(n + 1), h)
      BY <2>3 DEF Adds
    <2> QED BY <2>4
  <1>3. bad = {}
    <2> SUFFICES ASSUME bad # {} PROVE FALSE
      OBVIOUS
    <2>1. PICK m \in bad : \A n \in bad : m <= n
      BY Least
    <2>2. m # 0 /\ m \in Nat
      BY <1>1
    <2>3. m - 1 \in Nat /\ m - 1 \notin bad /\ (m - 1) + 1 = m
      BY <2>1, <2>2, SMTT(30)
    <2>4. \E g : Adds(f, Upto((m - 1) + 1), g)
      BY <1>2, <2>3
    <2>5. \E g : Adds(f, Upto(m), g)
      BY <2>3, <2>4
    <2> QED BY <2>1, <2>5
  <1>4. Cardinality(D) \in Nat /\ Upto(Cardinality(D)) = SUBSET D
    <2>1. \A s \in SUBSET D : Cardinality(s) <= Cardinality(D)
      BY FS_Subset
    <2> QED BY <1>0, <2>1
  <1> QED BY <1>3, <1>4

\* g adds up the naturals f gives to the finite set D.
Addition(D, f, g) == IsFiniteSet(D) /\ f \in [D -> Nat] /\ Adds(f, SUBSET D, g)

\* In a solution any element of a set may be taken off first.
LEMMA AnyOrder ==
    ASSUME NEW D, NEW f, NEW g, Addition(D, f, g)
    PROVE  \A s \in SUBSET D :
                g[s] \in Nat /\ \A x \in s : g[s] = f[x] + g[s \ {x}]
  <1> USE DEF Addition
  <1> DEFINE Ok(s) == g[s] \in Nat /\ \A x \in s : g[s] = f[x] + g[s \ {x}]
             sizes == {Cardinality(s) : s \in {d \in SUBSET D : ~Ok(d)}}
  <1> SUFFICES ASSUME sizes # {} PROVE FALSE
    OBVIOUS
  <1>0. \A s \in SUBSET D : IsFiniteSet(s) /\ Cardinality(s) \in Nat
    BY FS_Subset, FS_CardinalityType
  <1>1. sizes \subseteq Nat
    BY <1>0
  <1>2. PICK m \in sizes : \A n \in sizes : m <= n
    BY <1>1, Least
  <1>3. PICK s \in SUBSET D : ~Ok(s) /\ Cardinality(s) = m
    BY <1>2
  <1>4. ASSUME NEW r \in SUBSET D, Cardinality(r) < Cardinality(s)
        PROVE  Ok(r)
    BY <1>0, <1>2, <1>3, <1>4
  <1>5. \A r \in SUBSET D : g[r] = IF r = {} THEN 0 ELSE f[Pick(r)] + g[r \ {Pick(r)}]
    BY DEF Adds
  <1>6. s # {}
    <2> SUFFICES ASSUME s = {} PROVE FALSE
      OBVIOUS
    <2>1. g[s] = 0
      BY <1>5
    <2>2. Ok(s)
      BY <2>1
    <2> QED BY <1>3, <2>2
  <1> DEFINE y == Pick(s)
  <1>7. y \in s
    BY <1>6, PickIn
  <1>8. g[s] = f[y] + g[s \ {y}]
    BY <1>5, <1>6
  <1> HIDE DEF y
  <1>9. \A x \in s : Ok(s \ {x})
    <2> TAKE x \in s
    <2>1. Cardinality(s \ {x}) < Cardinality(s)
      BY <1>0, Smaller
    <2> QED BY <1>4, <2>1
  <1>10. g[s] \in Nat
    BY <1>7, <1>8, <1>9
  <1>11. ASSUME NEW x \in s
         PROVE  g[s] = f[x] + g[s \ {x}]
    <2>1. CASE x = y
      BY <1>8, <2>1
    <2>2. CASE x # y
      <3>1. g[s \ {y}] = f[x] + g[(s \ {y}) \ {x}]
        BY <1>7, <1>9, <2>2
      <3>2. g[s \ {x}] = f[y] + g[(s \ {x}) \ {y}]
        BY <1>7, <1>9, <2>2
      <3>3. (s \ {y}) \ {x} = (s \ {x}) \ {y} /\ (s \ {y}) \ {x} \in SUBSET D
        OBVIOUS
      <3>4. g[(s \ {y}) \ {x}] \in Nat
        <4>1. (s \ {y}) \ {x} \in SUBSET D /\ x \in s \ {y}
          BY <2>2
        <4>2. Cardinality(s \ {y}) = Cardinality(s) - 1 /\ IsFiniteSet(s \ {y})
          BY <1>0, <1>7, Smaller
        <4>3. Cardinality((s \ {y}) \ {x}) = Cardinality(s \ {y}) - 1
          BY <4>1, <4>2, Smaller
        <4>4. Cardinality((s \ {y}) \ {x}) < Cardinality(s)
          BY <1>0, <4>2, <4>3
        <4> QED BY <1>4, <4>1, <4>4
      <3>5. f[x] \in Nat /\ f[y] \in Nat
        BY <1>7
      <3> DEFINE both == g[(s \ {y}) \ {x}]
      <3>6. g[s \ {y}] = f[x] + both /\ g[s \ {x}] = f[y] + both /\ both \in Nat
        BY <3>1, <3>2, <3>3, <3>4
      <3>7. g[s] = f[y] + (f[x] + both)
        BY <1>8, <3>6
      <3> HIDE DEF both
      <3> QED BY <3>5, <3>6, <3>7
    <2> QED BY <2>1, <2>2
  <1> QED BY <1>3, <1>10, <1>11

\* Solutions for two functions agree where the functions do.
LEMMA SameAddends ==
    ASSUME NEW D, NEW f, NEW g, Addition(D, f, g),
           NEW E \in SUBSET D, NEW h, NEW k, Addition(E, h, k),
           \A x \in E : h[x] = f[x]
    PROVE  k[E] = g[E]
  <1> USE DEF Addition
  <1> DEFINE sizes == {Cardinality(s) : s \in {d \in SUBSET E : k[d] # g[d]}}
  <1> SUFFICES ASSUME sizes # {} PROVE FALSE
    OBVIOUS
  <1>0. \A s \in SUBSET E : IsFiniteSet(s) /\ Cardinality(s) \in Nat
    BY FS_Subset, FS_CardinalityType
  <1>a. sizes \subseteq Nat
    BY <1>0
  <1>1. PICK m \in sizes : \A n \in sizes : m <= n
    BY <1>a, Least
  <1>2. PICK s \in SUBSET E : k[s] # g[s] /\ Cardinality(s) = m
    BY <1>1
  <1>3. g[s] = IF s = {} THEN 0 ELSE f[Pick(s)] + g[s \ {Pick(s)}]
    BY DEF Adds
  <1>4. k[s] = IF s = {} THEN 0 ELSE h[Pick(s)] + k[s \ {Pick(s)}]
    BY DEF Adds
  <1>5. s # {}
    BY <1>2, <1>3, <1>4
  <1>6. Pick(s) \in s
    BY <1>5, PickIn
  <1>7. s \ {Pick(s)} \in SUBSET E /\ Cardinality(s \ {Pick(s)}) < Cardinality(s)
    BY <1>0, <1>6, Smaller
  <1>8. k[s \ {Pick(s)}] = g[s \ {Pick(s)}]
    BY <1>0, <1>1, <1>2, <1>7
  <1> QED BY <1>2, <1>3, <1>4, <1>5, <1>6, <1>8

Without(f, a) == [x \in DOMAIN f \ {a} |-> f[x]]

LEMMA TotalAdds ==
    ASSUME NEW D, IsFiniteSet(D), NEW f, DOMAIN f = D
    PROVE  \E g : Adds(f, SUBSET D, g) /\ Total(f) = g[D]
  <1>1. \E g : Adds(f, SUBSET D, g)
    BY AdditionExists
  <1>2. Adds(f, SUBSET D, CHOOSE g : Adds(f, SUBSET D, g))
    BY <1>1, Zenon
  <1> QED BY <1>2, TotalIsChosen

\* What an index contributes to a total.
LEMMA TotalSplits ==
    ASSUME NEW D, IsFiniteSet(D), NEW f \in [D -> Nat], NEW a
    PROVE  /\ Total(f) \in Nat /\ Total(Without(f, a)) \in Nat
           /\ Total(f) = BalanceOf(f, a) + Total(Without(f, a))
  <1> DEFINE E == D \ {a}
             h == Without(f, a)
  <1>1. DOMAIN f = D /\ DOMAIN h = E /\ h \in [E -> Nat] /\ \A x \in E : h[x] = f[x]
    BY DEF Without
  <1>2. IsFiniteSet(E) /\ E \in SUBSET D
    BY FS_Subset
  <1> HIDE DEF h, E
  <1>3. PICK g : Addition(D, f, g) /\ Total(f) = g[D]
    BY <1>1, TotalAdds DEF Addition
  <1>4. PICK k : Addition(E, h, k) /\ Total(h) = k[E]
    BY <1>1, <1>2, TotalAdds DEF Addition
  <1>5. k[E] = g[E]
    BY <1>1, <1>2, <1>3, <1>4, SameAddends
  <1>6. \A s \in SUBSET D : g[s] \in Nat /\ \A x \in s : g[s] = f[x] + g[s \ {x}]
    BY <1>3, AnyOrder
  <1>7. CASE a \in D
    <2>1. g[D] = f[a] + g[E] /\ g[D] \in Nat /\ g[E] \in Nat
      BY <1>6, <1>7 DEF E
    <2> QED BY <1>1, <1>3, <1>4, <1>5, <1>7, <2>1 DEF BalanceOf, h
  <1>8. CASE a \notin D
    <2>1. E = D BY <1>8 DEF E
    <2> QED BY <1>1, <1>2, <1>3, <1>4, <1>5, <1>6, <1>8, <2>1 DEF BalanceOf, h
  <1> QED BY <1>7, <1>8

LEMMA EmptyTotal ==
    ASSUME NEW f, DOMAIN f = {}
    PROVE  Total(f) = 0
  <1>1. IsFiniteSet({})
    BY FS_EmptySet
  <1>2. PICK g : Adds(f, SUBSET {}, g) /\ Total(f) = g[{}]
    BY <1>1, TotalAdds
  <1> QED BY <1>2 DEF Adds

-------------------------------------------------------------------------------
(* What holders own together.                                                *)

Holdings == {b \in UNION {[holders -> Nat] : holders \in SUBSET Address} : IsFiniteSet(DOMAIN b)}

LEMMA CreditAdds ==
    ASSUME NEW b \in Holdings, NEW a \in Address, NEW amt \in Nat
    PROVE  Credit(b, a, amt) \in Holdings /\ Total(Credit(b, a, amt)) = Total(b) + amt
  <1> DEFINE c == Credit(b, a, amt)
  <1>1. PICK D \in SUBSET Address : b \in [D -> Nat] /\ IsFiniteSet(D)
    BY DEF Holdings
  <1>2. BalanceOf(b, a) \in Nat /\ c \in [D \cup {a} -> Nat]
    BY <1>1, BalanceFacts DEF Credit, BalanceOf
  <1>3. IsFiniteSet(D \cup {a})
    BY <1>1, FS_AddElement
  <1>4. BalanceOf(c, a) = BalanceOf(b, a) + amt
    BY <1>1 DEF BalanceOf, Credit
  <1>5. Without(c, a) = Without(b, a)
    BY <1>1 DEF Without, Credit
  <1>6. c \in Holdings
    BY <1>2, <1>3 DEF Holdings
  <1> HIDE DEF c
  <1>7. Total(c) = BalanceOf(c, a) + Total(Without(c, a))
    BY <1>2, <1>3, TotalSplits
  <1>8. Total(b) = BalanceOf(b, a) + Total(Without(b, a)) /\ Total(Without(b, a)) \in Nat
    BY <1>1, TotalSplits
  <1>9. Total(c) = Total(b) + amt
    BY <1>2, <1>4, <1>5, <1>7, <1>8
  <1> QED BY <1>6, <1>9 DEF c

LEMMA DebitSubtracts ==
    ASSUME NEW b \in Holdings, NEW a \in Address, NEW amt \in Nat, BalanceOf(b, a) >= amt
    PROVE  /\ Debit(b, a, amt) \in Holdings
           /\ Total(b) >= amt
           /\ Total(Debit(b, a, amt)) = Total(b) - amt
  <1> DEFINE c == Debit(b, a, amt)
  <1>1. PICK D \in SUBSET Address : b \in [D -> Nat] /\ IsFiniteSet(D)
    BY DEF Holdings
  <1> DEFINE E == D \ {y \in {a} : BalanceOf(b, y) = amt}
  <1>2. BalanceOf(b, a) \in Nat /\ c \in [E -> Nat]
    <2>1. \A x \in D : b[x] \in Nat /\ (x = a => b[x] >= amt)
      BY <1>1 DEF BalanceOf
    <2> QED BY <1>1, <2>1 DEF Debit, BalanceOf
  <1>3. IsFiniteSet(E)
    BY <1>1, FS_Subset
  <1>4. BalanceOf(c, a) = BalanceOf(b, a) - amt
    BY <1>1 DEF BalanceOf, Debit
  <1>5. Without(c, a) = Without(b, a)
    BY <1>1 DEF Without, Debit
  <1>6. c \in Holdings
    BY <1>2, <1>3 DEF Holdings
  <1> HIDE DEF c, E
  <1>7. Total(c) = BalanceOf(c, a) + Total(Without(c, a))
    BY <1>2, <1>3, TotalSplits
  <1>8. Total(b) = BalanceOf(b, a) + Total(Without(b, a)) /\ Total(Without(b, a)) \in Nat
    BY <1>1, TotalSplits
  <1>9. Total(b) >= amt /\ Total(c) = Total(b) - amt
    BY <1>2, <1>4, <1>5, <1>7, <1>8
  <1> QED BY <1>6, <1>9 DEF c

\* What is counted as minted is what is held.
Held(t) == t.balances \in Holdings /\ t.minted = Total(t.balances)

LEMMA NothingHeld == Held(NoToken)
  <1>1. Total(NoToken.balances) = 0 /\ NoToken.minted = 0
    BY EmptyTotal DEF NoToken
  <1>2. NoToken.balances \in [{} -> Nat] /\ DOMAIN NoToken.balances = {}
    BY DEF NoToken
  <1>3. IsFiniteSet({})
    BY FS_EmptySet
  <1>4. NoToken.balances \in Holdings
    BY <1>2, <1>3 DEF Holdings
  <1> QED BY <1>1, <1>4 DEF Held

LEMMA ApplyKeepsHeld ==
    ASSUME NEW t, TokenOK(t), Held(t), NEW o \in Krc20Op, NEW sender \in Address
    PROVE  Held(Krc20Apply(t, o, sender).state)
  <1>0. U64 \subseteq Nat
    BY InscriptionsAssumption DEF U64
  <1>1. ASSUME NEW max, NEW lim
        PROVE  Held(Krc20Deploy(t, max, lim).state)
    <2>1. CASE ~t.deployed
      <3> DEFINE new == [NoToken EXCEPT !.deployed = TRUE, !.max = max, !.lim = lim]
      <3>1. new.balances = NoToken.balances /\ new.minted = NoToken.minted
        BY DEF NoToken
      <3>2. Krc20Deploy(t, max, lim).state = new
        BY <2>1 DEF Krc20Deploy, Accepted
      <3> QED BY <3>1, <3>2, NothingHeld DEF Held
    <2>2. CASE t.deployed
      BY <2>2 DEF Krc20Deploy, Rejected
    <2> QED BY <2>1, <2>2
  <1>2. ASSUME NEW amt \in U64
        PROVE  Held(Krc20Mint(t, sender, amt).state)
    <2> DEFINE new == Credit(t.balances, sender, amt)
               accepts == t.deployed /\ amt <= t.lim /\ t.minted + amt <= MaxU64 /\ t.minted + amt <= t.max
    <2>1. new \in Holdings /\ Total(new) = t.minted + amt
      BY <1>0, CreditAdds DEF Held
    <2>2. CASE accepts
      <3>1. Krc20Mint(t, sender, amt).state = [t EXCEPT !.minted = t.minted + amt, !.balances = new]
        BY <2>2 DEF Krc20Mint, Accepted, TokenOK, Token20
      <3> QED BY <2>1, <3>1 DEF Held, TokenOK, Token20
    <2>3. CASE ~accepts
      BY <2>3 DEF Krc20Mint, Rejected
    <2> QED BY <2>2, <2>3
  <1>3. ASSUME NEW amt \in U64, NEW to \in Address
        PROVE  Held(Krc20Transfer(t, sender, to, amt).state)
    <2>1. CASE t.deployed /\ BalanceOf(t.balances, sender) >= amt
      <3> DEFINE left == Debit(t.balances, sender, amt)
                 new == Credit(left, to, amt)
      <3>1. left \in Holdings /\ t.minted >= amt /\ Total(left) = t.minted - amt
        BY <1>0, <2>1, DebitSubtracts DEF Held
      <3>2. new \in Holdings /\ Total(new) = (t.minted - amt) + amt
        BY <1>0, <3>1, CreditAdds
      <3>3. Krc20Transfer(t, sender, to, amt).state = [t EXCEPT !.balances = new]
        BY <2>1 DEF Krc20Transfer, Accepted
      <3>4. t.minted \in Nat /\ amt \in Nat
        BY <1>0 DEF TokenOK, Token20
      <3> HIDE DEF new
      <3> QED BY <3>2, <3>3, <3>4 DEF Held, TokenOK, Token20
    <2>2. CASE ~(t.deployed /\ BalanceOf(t.balances, sender) >= amt)
      BY <2>2 DEF Krc20Transfer, Rejected
    <2> QED BY <2>1, <2>2
  <1>4. ASSUME NEW amt \in U64
        PROVE  Held(Krc20Burn(t, sender, amt).state)
    <2>1. CASE t.deployed /\ BalanceOf(t.balances, sender) >= amt
      <3> DEFINE left == Debit(t.balances, sender, amt)
      <3>1. left \in Holdings /\ t.minted >= amt /\ Total(left) = t.minted - amt
        BY <1>0, <2>1, DebitSubtracts DEF Held
      <3>2. t.minted \in Nat /\ amt \in Nat
        BY <1>0 DEF TokenOK, Token20
      <3>3. (IF t.minted > amt THEN t.minted - amt ELSE 0) = t.minted - amt
        BY <3>1, <3>2
      <3>4. Krc20Burn(t, sender, amt).state = [t EXCEPT !.balances = left, !.minted = t.minted - amt]
        BY <2>1, <3>3 DEF Krc20Burn, Accepted, TokenOK, Token20
      <3> HIDE DEF left
      <3> QED BY <3>1, <3>4 DEF Held, TokenOK, Token20
    <2>2. CASE ~(t.deployed /\ BalanceOf(t.balances, sender) >= amt)
      BY <2>2 DEF Krc20Burn, Rejected
    <2> QED BY <2>1, <2>2
  <1> QED BY <1>1, <1>2, <1>3, <1>4 DEF Krc20Apply, Krc20Op

SupplyInv == \A t \in Tick : Held(tokens[t])

LEMMA SupplyStep ==
    ASSUME LInv, SupplyInv, [Next]_vars
    PROVE  SupplyInv'
  <1>1. CASE UNCHANGED tokens
    BY <1>1 DEF SupplyInv
  <1>2. ASSUME NEW t \in Tick, NEW o \in Krc20Op, NEW sender \in Address,
               tokens' = [tokens EXCEPT ![t] = Krc20Apply(tokens[t], o, sender).state]
        PROVE  SupplyInv'
    <2>1. Held(Krc20Apply(tokens[t], o, sender).state)
      BY ApplyKeepsHeld DEF LInv, CapsAreKept, SupplyInv
    <2>2. \A x \in Tick : tokens'[x] =
                IF x = t THEN Krc20Apply(tokens[t], o, sender).state ELSE tokens[x]
      BY <1>2 DEF LInv
    <2> QED BY <2>1, <2>2 DEF SupplyInv
  <1>3. ASSUME NEW tx \in Tx, NEW daa \in 0..MaxDaa, Apply20(tx, daa)
        PROVE  SupplyInv'
    <2>1. Sender[tx] \in Address /\ TickOf(tx) \in Tick /\ Krc20OpOf(Envelope[tx]) \in Krc20Op
      BY <1>3, Parsed20, LegacyJournalAssumption DEF Apply20
    <2> QED BY <1>2, <1>3, <2>1 DEF Apply20, Outcome20
  <1>4. ASSUME NEW r \in todo, Replay20(r)
        PROVE  SupplyInv'
    <2>1. r \in Row20
      BY <1>4 DEF Replay20, Next20, LInv
    <2>2. PICK o \in Krc20Op : r.columns = Krc20Columns(o)
      BY <2>1 DEF Row20
    <2>3. Krc20OpOf(r.columns) \in Krc20Op /\ r.tick \in Tick /\ Sender[r.tx] \in Address
      BY <2>1, <2>2, RowsRebuild, LegacyJournalAssumption DEF Row20
    <2>4. tokens' = [tokens EXCEPT ![r.tick] =
                            Krc20Apply(tokens[r.tick], Krc20OpOf(r.columns), Sender[r.tx]).state]
      BY <1>4, <2>3 DEF Replay20, LInv
    <2> QED BY <1>2, <2>3, <2>4
  <1>5. CASE Rebuild
    BY <1>5, NothingHeld DEF Rebuild, SupplyInv
  <1>6. CASE UNCHANGED vars
    BY <1>1, <1>6 DEF vars
  <1>7. ASSUME NEW tx \in Tx, NEW daa \in 0..MaxDaa, PassOver(tx, daa) \/ Apply721(tx, daa)
        PROVE  SupplyInv'
    BY <1>1, <1>7 DEF PassOver, Apply721, ledgers
  <1>8. CASE Record20 \/ Record721 \/ Replayed
    BY <1>1, <1>8 DEF Record20, Record721, Replayed, ledgers
  <1>9. ASSUME NEW r \in todo, Replay721(r)
        PROVE  SupplyInv'
    BY <1>1, <1>9 DEF Replay721
  <1>10. CASE Restart \/ \E from \in 0..MaxDaa : Unwind(from)
    BY <1>5, <1>10 DEF Restart, Unwind
  <1> QED BY <1>3, <1>4, <1>6, <1>7, <1>8, <1>9, <1>10 DEF Next

\* The rows to be replayed are rows of the journals, and between rebuilds
\* nothing waits but the row of the transaction just accepted.
TodoOK ==
    /\ phase \in {"live", "accepted", "replaying"}
    /\ phase = "live" => todo = {}
    /\ phase = "replaying" => todo \subseteq journal20 \cup journal721

LEMMA TodoStep ==
    ASSUME TodoOK, [Next]_vars
    PROVE  TodoOK'
  BY ZenonT(60) DEF TodoOK, Next, vars, PassOver, Arrives, Apply20, Apply721, Record20, Record721, Unwind,
         Restart, Rebuild, Replay20, Replay721, Replayed, journals

LEMMA SupplyInit == Init => SupplyInv /\ TodoOK
  BY NothingHeld DEF Init, SupplyInv, TodoOK

\* A token whose holdings add up is one whose amounts all fit the integer.
LEMMA HoldingsFit ==
    ASSUME NEW t, TokenOK(t), Held(t)
    PROVE  t \in Token
  <1>1. PICK D \in SUBSET Address : t.balances \in [D -> Nat] /\ IsFiniteSet(D)
    BY DEF Held, Holdings
  <1>2. t.minted \in 0..MaxU64
    BY DEF TokenOK, Token20, U64
  <1>3. ASSUME NEW a \in D
        PROVE  t.balances[a] \in U64
    <2>1. /\ Total(t.balances) = BalanceOf(t.balances, a) + Total(Without(t.balances, a))
          /\ Total(Without(t.balances, a)) \in Nat
      BY <1>1, TotalSplits
    <2>2. BalanceOf(t.balances, a) = t.balances[a] /\ t.balances[a] \in Nat
      BY <1>1 DEF BalanceOf
    <2> QED BY <1>2, <2>1, <2>2, InscriptionsAssumption DEF Held, U64
  <1>4. t.balances \in Balances
    BY <1>1, <1>3 DEF Balances
  <1> QED BY <1>4 DEF TokenOK, Token20, Token

LEMMA TheFoldIsTheTotal ==
    ASSUME NEW f
    PROVE  FoldFunction(+, 0, f) = Total(f)
  BY DEF Total

\* Holders of a tick own together exactly what is counted as minted, and never
\* more than the cap, whatever is minted, moved, burned, unwound and replayed
\* (krc20_ledger.rs:131, krc20_ledger.rs:177).
THEOREM SupplyIsAlwaysHeld == Spec => []SupplyIsHeld
  <1>1. ASSUME LInv, SupplyInv PROVE SupplyIsHeld
    <2> SUFFICES ASSUME NEW t \in Tick
                 PROVE  /\ tokens[t].minted = FoldFunction(+, 0, tokens[t].balances)
                        /\ tokens[t].minted <= tokens[t].max
      BY DEF SupplyIsHeld
    <2>1. tokens[t].minted = Total(tokens[t].balances)
      BY <1>1 DEF SupplyInv, Held
    <2>2. tokens[t].minted <= tokens[t].max
      BY <1>1 DEF LInv, CapsAreKept, TokenOK
    <2> QED BY <2>1, <2>2, TheFoldIsTheTotal
  <1> QED BY <1>1, LegacyInit, LegacyStep, SupplyInit, SupplyStep, PTL DEF Spec

\* Every amount of both ledgers and of the journals' rows stays within the
\* integer, and what is to be replayed are rows of the journals
\* (krc20_ledger.rs:29, store lib.rs:1204).
THEOREM LegacyTypes == Spec => []TypeOK
  <1>1. ASSUME LInv, SupplyInv, TodoOK PROVE TypeOK
    <2>1. tokens \in [Tick -> Token]
      <3>1. \A t \in Tick : tokens[t] \in Token
        BY <1>1, HoldingsFit DEF LInv, CapsAreKept, SupplyInv
      <3> QED BY <1>1, <3>1 DEF LInv
    <2> QED BY <1>1, <2>1 DEF LInv, TodoOK, TypeOK
  <1> QED BY <1>1, LegacyInit, LegacyStep, SupplyInit, SupplyStep, TodoStep, PTL DEF Spec

-------------------------------------------------------------------------------
(* The ledgers as functions of the chain.                                    *)

\* The two standards, told apart by their numbers.
Standard == {20, 721}

Start(k)   == IF k = 20 THEN NoToken ELSE NoCollection
Ledger(k, t) == IF k = 20 THEN tokens[t] ELSE collections[t]
Journal(k) == IF k = 20 THEN journal20 ELSE journal721
Parses(k, tx) == IF k = 20 THEN IsKrc20(Envelope[tx]) ELSE IsKrc721(Envelope[tx])
Columns(k, tx) ==
    IF k = 20 THEN Krc20Columns(Krc20OpOf(Envelope[tx])) ELSE Krc721Columns(Krc721OpOf(Envelope[tx]))

Outcome(k, s, tx) ==
    IF k = 20
    THEN Krc20Apply(s, Krc20OpOf(Envelope[tx]), Sender[tx])
    ELSE Krc721Apply(s, Krc721OpOf(Envelope[tx]), Sender[tx])

Concerns(k, t, tx) == Parses(k, tx) /\ TickOf(tx) = t

After(k, t, s, tx) == IF Concerns(k, t, tx) THEN Outcome(k, s, tx).state ELSE s

\* h runs through the ledger of a tick while the first n transactions of a list are applied.
History(k, t, list, n, h) ==
    /\ h[0] = Start(k)
    /\ \A i \in 1..n : h[i] = After(k, t, h[i - 1], list[i].tx)

\* Does the ledger accept the i-th transaction of a list?
Accepts(k, t, list, h, i) ==
    Concerns(k, t, list[i].tx) /\ Outcome(k, h[i - 1], list[i].tx).accepted

LEMMA HistoryExists ==
    ASSUME NEW k, NEW t, NEW list, NEW n \in Nat
    PROVE  \E h : DOMAIN h = 0..n /\ History(k, t, list, n, h)
  <1> DEFINE bad == {m \in Nat : ~\E h : DOMAIN h = 0..m /\ History(k, t, list, m, h)}
  <1>1. ASSUME bad # {} PROVE FALSE
    <2>1. PICK m \in bad : \A x \in bad : m <= x
      <3>1. bad \subseteq Nat OBVIOUS
      <3> HIDE DEF bad
      <3> QED BY <1>1, <3>1, Least
    <2>2. CASE m = 0
      <3> DEFINE g == [i \in 0..0 |-> Start(k)]
      <3>1. DOMAIN g = 0..0 /\ History(k, t, list, 0, g)
        BY DEF History
      <3> QED BY <2>2, <3>1
    <2>3. CASE m # 0
      <3>1. m - 1 \in Nat /\ m - 1 \notin bad
        BY <2>1, <2>3
      <3>2. PICK g : DOMAIN g = 0..m - 1 /\ History(k, t, list, m - 1, g)
        BY <3>1
      <3> DEFINE h == [i \in 0..m |-> IF i = m THEN After(k, t, g[m - 1], list[m].tx) ELSE g[i]]
      <3>3. h[0] = Start(k)
        BY <2>3, <3>1, <3>2 DEF History
      <3>4. ASSUME NEW i \in 1..m PROVE h[i] = After(k, t, h[i - 1], list[i].tx)
        <4>1. i - 1 \in 0..m /\ i - 1 # m /\ h[i - 1] = g[i - 1]
          BY <3>1
        <4>2. CASE i = m
          BY <4>1, <4>2
        <4>3. CASE i # m
          BY <3>1, <3>2, <4>1, <4>3 DEF History
        <4> QED BY <4>2, <4>3
      <3>5. DOMAIN h = 0..m
        OBVIOUS
      <3> HIDE DEF h
      <3>6. History(k, t, list, m, h)
        BY <3>3, <3>4 DEF History
      <3> QED BY <3>5, <3>6
    <2> QED BY <2>2, <2>3
  <1> QED BY <1>1

\* The first n transactions of two lists are the same.
SameTransactions(list, other, n) == \A i \in 1..n : list[i].tx = other[i].tx

\* Two runs over lists that agree agree.
LEMMA OneHistory ==
    ASSUME NEW k, NEW t, NEW n \in Nat, NEW f, NEW g, NEW list, NEW other,
           History(k, t, list, n, f), History(k, t, other, n, g), SameTransactions(list, other, n)
    PROVE  \A i \in 0..n : f[i] = g[i]
  <1> DEFINE bad == {i \in 0..n : f[i] # g[i]}
  <1>1. ASSUME bad # {} PROVE FALSE
    <2>1. PICK m \in bad : \A x \in bad : m <= x
      <3>1. bad \subseteq Nat OBVIOUS
      <3> HIDE DEF bad
      <3> QED BY <1>1, <3>1, Least
    <2>2. m # 0
      BY DEF History
    <2>3. m - 1 \in 0..n /\ m \in 1..n /\ m - 1 \notin bad
      BY <2>1, <2>2
    <2> QED BY <2>1, <2>3 DEF History, SameTransactions
  <1> QED BY <1>1

\* What is accepted depends only on the transactions up to it.
LEMMA AcceptsAlike ==
    ASSUME NEW k, NEW t, NEW m \in Nat, NEW f, NEW g, NEW list, NEW other,
           History(k, t, list, m, f), History(k, t, other, m, g), SameTransactions(list, other, m),
           NEW i \in 1..m
    PROVE  Accepts(k, t, list, f, i) <=> Accepts(k, t, other, g, i)
  <1>1. \A j \in 0..m : f[j] = g[j]
    BY OneHistory
  <1>2. i - 1 \in 0..m
    OBVIOUS
  <1> QED BY <1>1, <1>2 DEF Accepts, SameTransactions

\* What is rejected leaves the ledger as it was.
LEMMA RejectedChangesNothing ==
    ASSUME NEW k \in Standard, NEW s, NEW tx, Parses(k, tx), ~Outcome(k, s, tx).accepted
    PROVE  Outcome(k, s, tx).state = s
  <1>1. CASE k = 20
    <2>1. /\ Outcome(k, s, tx) = Krc20Apply(s, Krc20OpOf(Envelope[tx]), Sender[tx])
          /\ Krc20OpOf(Envelope[tx]).op \in {"deploy", "mint", "transfer", "burn"}
      BY <1>1 DEF Outcome, Parses, IsKrc20, Krc20OpOf
    <2> QED BY <2>1
        DEF Krc20Apply, Krc20Deploy, Krc20Mint, Krc20Transfer, Krc20Burn, Accepted, Rejected
  <1>2. CASE k = 721
    <2>1. /\ Outcome(k, s, tx) = Krc721Apply(s, Krc721OpOf(Envelope[tx]), Sender[tx])
          /\ Krc721OpOf(Envelope[tx]).op \in {"deploy", "mint", "transfer", "burn"}
      BY <1>2 DEF Outcome, Parses, IsKrc721, Krc721OpOf
    <2> QED BY <2>1
        DEF Krc721Apply, Krc721Deploy, Krc721Mint, Krc721Transfer, Krc721Burn, Accepted, Rejected
  <1> QED BY <1>1, <1>2 DEF Standard

\* Nothing from the a-th transaction on, up to the b-th, is accepted.
Idle(k, t, list, h, a, b) == \A i \in (a + 1)..b : ~Accepts(k, t, list, h, i)

\* Between two accepted transactions nothing happens to a ledger.
LEMMA NothingBetween ==
    ASSUME NEW k \in Standard, NEW t, NEW list, NEW n \in Nat, NEW h, History(k, t, list, n, h),
           NEW a \in 0..n, NEW b \in a..n, Idle(k, t, list, h, a, b)
    PROVE  h[b] = h[a]
  <1> DEFINE bad == {i \in a..b : h[i] # h[a]}
  <1>1. ASSUME bad # {} PROVE FALSE
    <2>1. PICK m \in bad : \A x \in bad : m <= x
      <3>1. bad \subseteq Nat OBVIOUS
      <3> HIDE DEF bad
      <3> QED BY <1>1, <3>1, Least
    <2>2. m # a
      OBVIOUS
    <2>3. m - 1 \in a..b /\ m \in 1..n /\ m \in (a + 1)..b /\ m - 1 \notin bad
      BY <2>1, <2>2
    <2>4. h[m - 1] = h[a] /\ h[m] = After(k, t, h[m - 1], list[m].tx)
      BY <2>3 DEF History
    <2>5. h[m] = h[m - 1]
      BY <2>3, <2>4, RejectedChangesNothing DEF After, Accepts, Concerns, Idle
    <2> QED BY <2>1, <2>4, <2>5
  <1>2. b \in a..b
    OBVIOUS
  <1> QED BY <1>1, <1>2

\* The recursion of the property is a history.
LEMMA TokenAfterIs ==
    ASSUME NEW t, chain \in Seq([tx : Tx, daa : 0..MaxDaa])
    PROVE  \E h : History(20, t, chain, Len(chain), h) /\ TokenAfter(t) = h[Len(chain)]
  <1> DEFINE Recurs(h) == h = [n \in 0..Len(chain) |->
                                IF n = 0 THEN NoToken
                                ELSE IF IsKrc20(Envelope[chain[n].tx]) /\ TickOf(chain[n].tx) = t
                                     THEN Krc20Apply(h[n - 1], Krc20OpOf(Envelope[chain[n].tx]),
                                                     Sender[chain[n].tx]).state
                                     ELSE h[n - 1]]
  <1>1. Len(chain) \in Nat
    OBVIOUS
  <1>2. PICK g : DOMAIN g = 0..Len(chain) /\ History(20, t, chain, Len(chain), g)
    BY <1>1, HistoryExists
  <1> DEFINE e == [n \in 0..Len(chain) |-> g[n]]
  <1>3. Recurs(e)
    <2>1. ASSUME NEW n \in 0..Len(chain)
          PROVE  e[n] = IF n = 0 THEN NoToken
                        ELSE IF IsKrc20(Envelope[chain[n].tx]) /\ TickOf(chain[n].tx) = t
                             THEN Krc20Apply(e[n - 1], Krc20OpOf(Envelope[chain[n].tx]),
                                             Sender[chain[n].tx]).state
                             ELSE e[n - 1]
      <3>1. CASE n = 0
        BY <1>2, <3>1 DEF History, Start
      <3>2. CASE n # 0
        <4>1. n \in 1..Len(chain) /\ n - 1 \in 0..Len(chain)
          BY <1>1, <3>2
        <4>2. g[n] = After(20, t, g[n - 1], chain[n].tx)
          BY <1>2, <4>1 DEF History
        <4> QED BY <3>2, <4>1, <4>2 DEF After, Concerns, Parses, Outcome
      <3> QED BY <3>1, <3>2
    <2> HIDE DEF e
    <2>2. e = [n \in 0..Len(chain) |-> e[n]]
      BY DEF e
    <2> QED BY <2>1, <2>2
  <1> DEFINE f == CHOOSE h : Recurs(h)
  <1>4. TokenAfter(t) = f[Len(chain)]
    BY DEF TokenAfter
  <1>5. Recurs(f)
    <2> HIDE DEF Recurs, e
    <2> QED BY <1>3
  <1> HIDE DEF f
  <1>6. History(20, t, chain, Len(chain), f)
    <2>1. f[0] = Start(20)
      BY <1>1, <1>5 DEF Start
    <2>2. ASSUME NEW i \in 1..Len(chain)
          PROVE  f[i] = After(20, t, f[i - 1], chain[i].tx)
      BY <1>1, <1>5 DEF After, Concerns, Parses, Outcome
    <2> QED BY <2>1, <2>2 DEF History
  <1> QED BY <1>4, <1>6

LEMMA CollectionAfterIs ==
    ASSUME NEW t, chain \in Seq([tx : Tx, daa : 0..MaxDaa])
    PROVE  \E h : History(721, t, chain, Len(chain), h) /\ CollectionAfter(t) = h[Len(chain)]
  <1> DEFINE Recurs(h) == h = [n \in 0..Len(chain) |->
                                IF n = 0 THEN NoCollection
                                ELSE IF IsKrc721(Envelope[chain[n].tx]) /\ TickOf(chain[n].tx) = t
                                     THEN Krc721Apply(h[n - 1], Krc721OpOf(Envelope[chain[n].tx]),
                                                     Sender[chain[n].tx]).state
                                     ELSE h[n - 1]]
  <1>1. Len(chain) \in Nat
    OBVIOUS
  <1>2. PICK g : DOMAIN g = 0..Len(chain) /\ History(721, t, chain, Len(chain), g)
    BY <1>1, HistoryExists, ZenonT(60)
  <1> DEFINE e == [n \in 0..Len(chain) |-> g[n]]
  <1>3. Recurs(e)
    <2>1. ASSUME NEW n \in 0..Len(chain)
          PROVE  e[n] = IF n = 0 THEN NoCollection
                        ELSE IF IsKrc721(Envelope[chain[n].tx]) /\ TickOf(chain[n].tx) = t
                             THEN Krc721Apply(e[n - 1], Krc721OpOf(Envelope[chain[n].tx]),
                                             Sender[chain[n].tx]).state
                             ELSE e[n - 1]
      <3>1. CASE n = 0
        BY <1>2, <3>1 DEF History, Start
      <3>2. CASE n # 0
        <4>1. n \in 1..Len(chain) /\ n - 1 \in 0..Len(chain)
          BY <1>1, <3>2
        <4>2. g[n] = After(721, t, g[n - 1], chain[n].tx)
          BY <1>2, <4>1 DEF History
        <4> QED BY <3>2, <4>1, <4>2 DEF After, Concerns, Parses, Outcome
      <3> QED BY <3>1, <3>2
    <2> HIDE DEF e
    <2>2. e = [n \in 0..Len(chain) |-> e[n]]
      BY DEF e
    <2> QED BY <2>1, <2>2
  <1> DEFINE f == CHOOSE h : Recurs(h)
  <1>4. CollectionAfter(t) = f[Len(chain)]
    BY DEF CollectionAfter
  <1>5. Recurs(f)
    <2> HIDE DEF Recurs, e
    <2> QED BY <1>3
  <1> HIDE DEF f
  <1>6. History(721, t, chain, Len(chain), f)
    <2>1. f[0] = Start(721)
      BY <1>1, <1>5 DEF Start
    <2>2. ASSUME NEW i \in 1..Len(chain)
          PROVE  f[i] = After(721, t, f[i - 1], chain[i].tx)
      BY <1>1, <1>5, SMTT(30) DEF After, Concerns, Parses, Outcome
    <2> QED BY <2>1, <2>2 DEF History
  <1> QED BY <1>4, <1>6

-------------------------------------------------------------------------------
(* The invariant.                                                            *)

Entry == [tx : Tx, daa : 0..MaxDaa]

\* The transaction that is applied and not yet journaled.
Pending(i) == phase = "accepted" /\ i = Len(chain)

ChainInv ==
    /\ chain \in Seq(Entry)
    /\ \A i, j \in DOMAIN chain : chain[i].tx = chain[j].tx => i = j
    /\ \A i, j \in DOMAIN chain : i <= j => chain[i].daa <= chain[j].daa

\* A row is that of a transaction on the chain, and the only one.
RowInv ==
    \A k \in Standard : \A r \in Journal(k) :
        /\ r.tx \in Tx /\ Parses(k, r.tx) /\ TickOf(r.tx) = r.tick /\ r.columns = Columns(k, r.tx)
        /\ \E i \in DOMAIN chain : chain[i].tx = r.tx /\ chain[i].daa = r.daa
        /\ \A q \in Journal(k) : q.tx = r.tx => q = r

\* The numbers of a tick follow the chain.
OrderInv ==
    \A k \in Standard : \A r, q \in Journal(k) : r.tick = q.tick =>
        \A i, j \in DOMAIN chain :
            chain[i].tx = r.tx /\ chain[j].tx = q.tx /\ i < j => r.seq < q.seq

Journaled(rows, t, tx) == \E r \in rows : r.tx = tx /\ r.tick = t

\* What has a row, or is about to get one, is what the ledger accepts.
AcceptInv ==
    \A k \in Standard, t \in Tick : \A h : History(k, t, chain, Len(chain), h) =>
        \A i \in DOMAIN chain :
            Accepts(k, t, chain, h, i) <=>
                \/ Journaled(Journal(k), t, chain[i].tx)
                \/ Pending(i) /\ Concerns(k, t, chain[i].tx)

PendingInv ==
    /\ phase \in {"live", "accepted", "replaying"}
    /\ phase = "live" => todo = {}
    /\ phase = "accepted" =>
          /\ chain # <<>> /\ todo = {chain[Len(chain)]}
          /\ \A k \in Standard, t \in Tick : ~Journaled(Journal(k), t, chain[Len(chain)].tx)

LiveInv ==
    phase # "replaying" =>
        \A k \in Standard, t \in Tick : \A h :
            History(k, t, chain, Len(chain), h) => Ledger(k, t) = h[Len(chain)]

\* The rows of a tick up to the n-th transaction are replayed, the others are not.
Cut(k, t, n) ==
    \A i \in DOMAIN chain : \A r \in Journal(k) :
        r.tick = t /\ r.tx = chain[i].tx => (r \in todo <=> i > n)

ReplayInv ==
    phase = "replaying" =>
        /\ todo \subseteq journal20 \cup journal721
        /\ \A k \in Standard, t \in Tick : \A h :
              History(k, t, chain, Len(chain), h) =>
                \E n \in 0..Len(chain) : Ledger(k, t) = h[n] /\ Cut(k, t, n)

ChainLedgerInv ==
    /\ ChainInv /\ RowInv /\ OrderInv /\ AcceptInv /\ PendingInv /\ LiveInv /\ ReplayInv

\* No transaction is of both standards.
LEMMA OneStandard ==
    ASSUME NEW k \in Standard, NEW l \in Standard, NEW tx, Parses(k, tx), Parses(l, tx)
    PROVE  k = l
  BY DEF Standard, Parses, IsKrc20, IsKrc721

LEMMA LedgerInit == Init => ChainLedgerInv
  <1> SUFFICES ASSUME Init PROVE ChainLedgerInv
    OBVIOUS
  <1>1. /\ chain = <<>> /\ phase = "live" /\ todo = {} /\ Len(chain) = 0
        /\ \A k \in Standard : Journal(k) = {}
        /\ \A k \in Standard, t \in Tick : Ledger(k, t) = Start(k)
    BY DEF Init, Standard, Journal, Ledger, Start
  <1>2. LiveInv
    BY <1>1 DEF LiveInv, History
  <1>3. ChainInv /\ RowInv /\ OrderInv /\ AcceptInv /\ PendingInv /\ ReplayInv
    BY <1>1 DEF ChainInv, RowInv, OrderInv, AcceptInv, PendingInv, ReplayInv
  <1> QED BY <1>2, <1>3 DEF ChainLedgerInv

\* A transaction that arrives is applied at the end of the chain.
LEMMA ArrivalStep ==
    ASSUME LInv, ChainLedgerInv, NEW tx \in Tx, NEW daa \in 0..MaxDaa,
           phase = "live", ~OnChain(tx), daa >= LastDaa,
           chain' = Append(chain, [tx |-> tx, daa |-> daa]),
           UNCHANGED <<journals, turns>>,
           \A k \in Standard, t \in Tick : Ledger(k, t)' = After(k, t, Ledger(k, t), tx),
           \/ /\ phase' = "live" /\ todo' = {}
              /\ \A k \in Standard, t \in Tick :
                    Concerns(k, t, tx) => ~Outcome(k, Ledger(k, t), tx).accepted
           \/ /\ phase' = "accepted" /\ todo' = {[tx |-> tx, daa |-> daa]}
              /\ \A k \in Standard, t \in Tick :
                    Concerns(k, t, tx) => Outcome(k, Ledger(k, t), tx).accepted
    PROVE  ChainLedgerInv'
  <1> DEFINE L == Len(chain)
             new == [tx |-> tx, daa |-> daa]
  <1>1. /\ chain \in Seq(Entry) /\ L \in Nat /\ DOMAIN chain = 1..L /\ new \in Entry
        /\ chain' \in Seq(Entry) /\ Len(chain') = L + 1 /\ DOMAIN chain' = 1..(L + 1)
        /\ \A i \in 1..L : chain'[i] = chain[i]
        /\ chain'[L + 1] = new
    BY DEF ChainLedgerInv, ChainInv, Entry
  <1> HIDE DEF L, new
  <1>2. \A k \in Standard : Journal(k)' = Journal(k)
    BY DEF Journal, journals
  <1>3. \A i \in 1..L : chain[i].tx # tx
    BY <1>1 DEF OnChain
  <1>4. \A k \in Standard : \A r \in Journal(k) : r.tx # tx
    BY <1>1, <1>3 DEF ChainLedgerInv, RowInv
  <1>5. ChainInv'
    <2>1. \A i \in 1..L : chain[i].daa <= daa
      <3>1. CASE L = 0
        BY <3>1
      <3>2. CASE L # 0
        <4>1. LastDaa = chain[L].daa /\ L \in DOMAIN chain
          BY <1>1, <3>2 DEF LastDaa, Last, L
        <4>2. \A i \in 1..L : chain[i].daa <= chain[L].daa
          BY <1>1, <4>1 DEF ChainLedgerInv, ChainInv
        <4>3. \A i \in 1..L : chain[i].daa \in 0..MaxDaa
          <5>1. \A i \in 1..L : chain[i] \in Entry
            BY <1>1, ElementOfSeq DEF L
          <5> QED BY <5>1 DEF Entry
        <4> HIDE DEF L
        <4>4. \A i \in 1..L : chain[i].daa \in Int
          BY <4>3, LegacyJournalAssumption
        <4>5. L \in 1..L /\ daa \in Int
          BY <1>1, <3>2
        <4> QED BY <4>1, <4>2, <4>4, <4>5
      <3> QED BY <3>1, <3>2
    <2>2. \A i, j \in 1..L : chain[i].tx = chain[j].tx => i = j
      BY <1>1 DEF ChainLedgerInv, ChainInv
    <2>3. \A i, j \in 1..L : i <= j => chain[i].daa <= chain[j].daa
      BY <1>1 DEF ChainLedgerInv, ChainInv
    <2>4. new.tx = tx /\ new.daa = daa
      BY DEF new
    <2>5. \A i, j \in 1..(L + 1) : chain'[i].tx = chain'[j].tx => i = j
      <3>1. \A i \in 1..(L + 1) : i \in 1..L \/ i = L + 1
        BY <1>1
      <3> QED BY <1>1, <1>3, <2>2, <2>4, <3>1
    <2>6. \A i, j \in 1..(L + 1) : i <= j => chain'[i].daa <= chain'[j].daa
      <3>1. \A i \in 1..(L + 1) : i \in 1..L \/ i = L + 1
        BY <1>1
      <3>2. daa <= daa
        OBVIOUS
      <3>3. \A i \in 1..L : ~(L + 1 <= i)
        BY <1>1
      <3> QED BY <1>1, <2>1, <2>3, <2>4, <3>1, <3>2, <3>3
    <2> QED BY <1>1, <2>5, <2>6 DEF ChainInv
  <1>6. RowInv'
    <2>1. ASSUME NEW k \in Standard, NEW r \in Journal(k)
          PROVE  \E i \in DOMAIN chain' : chain'[i].tx = r.tx /\ chain'[i].daa = r.daa
      <3>1. PICK i \in 1..L : chain[i].tx = r.tx /\ chain[i].daa = r.daa
        BY <1>1 DEF ChainLedgerInv, RowInv
      <3>2. i \in DOMAIN chain'
        BY <1>1
      <3> QED BY <1>1, <3>1, <3>2
    <2> QED BY <1>2, <2>1 DEF ChainLedgerInv, RowInv
  <1>7. OrderInv'
    <2>1. ASSUME NEW i \in DOMAIN chain', NEW k \in Standard, NEW r \in Journal(k), chain'[i].tx = r.tx
          PROVE  i \in DOMAIN chain /\ chain[i] = chain'[i]
      <3>1. i # L + 1
        BY <1>1, <1>4, <2>1 DEF new
      <3> QED BY <1>1, <3>1
    <2> QED BY <1>2, <2>1 DEF ChainLedgerInv, OrderInv
  <1>8. ASSUME NEW k \in Standard, NEW t \in Tick, NEW h, History(k, t, chain', Len(chain'), h)
        PROVE  /\ History(k, t, chain, L, h) /\ Ledger(k, t) = h[L]
               /\ h[L + 1] = After(k, t, h[L], tx)
    <2>1. /\ h[0] = Start(k)
          /\ \A i \in 1..(L + 1) : h[i] = After(k, t, h[i - 1], chain'[i].tx)
      BY <1>1, <1>8 DEF History
    <2>2. \A i \in 1..L : h[i] = After(k, t, h[i - 1], chain[i].tx)
      <3>1. 1..L \subseteq 1..(L + 1)
        BY <1>1
      <3> QED BY <1>1, <2>1, <3>1
    <2>3. History(k, t, chain, L, h)
      BY <2>1, <2>2 DEF History
    <2>4. L + 1 \in 1..(L + 1) /\ (L + 1) - 1 = L
      BY <1>1
    <2>5. h[L + 1] = After(k, t, h[L], tx)
      BY <1>1, <2>1, <2>4 DEF new
    <2> QED BY <2>3, <2>5 DEF ChainLedgerInv, LiveInv, L
  <1>9. AcceptInv'
    <2> SUFFICES ASSUME NEW k \in Standard, NEW t \in Tick, NEW h,
                        History(k, t, chain', Len(chain'), h), NEW i \in DOMAIN chain'
                 PROVE  Accepts(k, t, chain', h, i) <=>
                            \/ Journaled(Journal(k)', t, chain'[i].tx)
                            \/ Pending(i)' /\ Concerns(k, t, chain'[i].tx)
      <3>1. AcceptInv' =
              \A k \in Standard, t \in Tick : \A h : History(k, t, chain', Len(chain'), h) =>
                \A i \in DOMAIN chain' :
                    Accepts(k, t, chain', h, i) <=>
                        \/ Journaled(Journal(k)', t, chain'[i].tx)
                        \/ Pending(i)' /\ Concerns(k, t, chain'[i].tx)
        BY DEF AcceptInv
      <3> QED BY <3>1
    <2>1. \A x : Journaled(Journal(k)', t, x) <=> Journaled(Journal(k), t, x)
      BY <1>2 DEF Journaled
    <2>2. CASE i \in 1..L
      <3>1. /\ chain'[i] = chain[i] /\ ~Pending(i) /\ ~Pending(i)'
            /\ History(k, t, chain, L, h)
        BY <1>1, <1>8, <2>2 DEF Pending
      <3>2. Accepts(k, t, chain, h, i) <=> Journaled(Journal(k), t, chain[i].tx)
        BY <1>1, <2>2, <3>1 DEF ChainLedgerInv, AcceptInv, L
      <3> QED BY <2>1, <3>1, <3>2 DEF Accepts
    <2>3. CASE i = L + 1
      <3>1. /\ chain'[i].tx = tx /\ i - 1 = L
            /\ Ledger(k, t) = h[L] /\ ~Journaled(Journal(k), t, tx)
            /\ Pending(i)' <=> phase' = "accepted"
        BY <1>1, <1>4, <1>8, <2>3 DEF Pending, Journaled, new
      <3>2. Accepts(k, t, chain', h, i) <=> Concerns(k, t, tx) /\ Outcome(k, Ledger(k, t), tx).accepted
        BY <3>1 DEF Accepts
      <3> QED BY <2>1, <3>1, <3>2
    <2> QED BY <1>1, <2>2, <2>3
  <1>10. PendingInv'
    <2>1. \A k \in Standard, t \in Tick : ~Journaled(Journal(k)', t, tx)
      BY <1>2, <1>4 DEF Journaled
    <2>2. chain' # <<>> /\ chain'[Len(chain')] = new
      BY <1>1
    <2>3. ASSUME phase' = "accepted"
          PROVE  /\ todo' = {chain'[Len(chain')]}
                 /\ \A k \in Standard, t \in Tick : ~Journaled(Journal(k)', t, chain'[Len(chain')].tx)
      BY <2>1, <2>2, <2>3 DEF new
    <2>4. phase' \in {"live", "accepted"} /\ (phase' = "live" => todo' = {})
      OBVIOUS
    <2> QED BY <2>2, <2>3, <2>4 DEF PendingInv, Journaled
  <1>11. LiveInv' /\ ReplayInv'
    <2>1. ASSUME NEW k \in Standard, NEW t \in Tick, NEW h, History(k, t, chain', Len(chain'), h)
          PROVE  Ledger(k, t)' = h[Len(chain')]
      BY <1>1, <1>8, <2>1
    <2> QED BY <2>1 DEF LiveInv, ReplayInv
  <1> QED BY <1>5, <1>6, <1>7, <1>9, <1>10, <1>11 DEF ChainLedgerInv


LEMMA LedgerStutter == ASSUME ChainLedgerInv, UNCHANGED vars PROVE ChainLedgerInv'
  BY DEF vars, ChainLedgerInv, ChainInv, RowInv, OrderInv, AcceptInv, PendingInv, LiveInv, ReplayInv,
         Cut, Pending, Journal, Ledger, Journaled


\* A transaction that arrives is new, or is passed over.
LEMMA DeliveryStep ==
    ASSUME LInv, ChainLedgerInv, ~RedeliverRejected, NEW tx \in Tx, NEW daa \in 0..MaxDaa,
           PassOver(tx, daa) \/ Apply20(tx, daa) \/ Apply721(tx, daa)
    PROVE  ChainLedgerInv'
  <1>1. /\ \A r \in journal20 : r.tx = tx => OnChain(tx) /\ IsKrc20(Envelope[tx])
        /\ \A r \in journal721 : r.tx = tx => OnChain(tx) /\ IsKrc721(Envelope[tx])
    <2>1. journal20 = Journal(20) /\ journal721 = Journal(721) /\ 20 \in Standard /\ 721 \in Standard
      BY DEF Journal, Standard
    <2>2. /\ \A r \in journal20 : Parses(20, r.tx) /\ OnChain(r.tx)
          /\ \A r \in journal721 : Parses(721, r.tx) /\ OnChain(r.tx)
      BY <2>1 DEF ChainLedgerInv, RowInv, OnChain
    <2> QED BY <2>2 DEF Parses
  <1>2. IsKrc20(Envelope[tx]) /\ IsKrc721(Envelope[tx]) => FALSE
    BY DEF IsKrc20, IsKrc721
  <1>3. Arrives(tx, daa)
    BY DEF PassOver, Apply20, Apply721
  <1>4. CASE ~OnChain(tx)
    <2>1. /\ phase = "live" /\ daa >= LastDaa
          /\ chain' = Append(chain, [tx |-> tx, daa |-> daa])
          /\ UNCHANGED <<journals, turns>> /\ todo = {}
      BY <1>3, <1>4 DEF Arrives, OnChain, PassOver, Apply20, Apply721, ChainLedgerInv, PendingInv
    <2>2. CASE PassOver(tx, daa)
      <3>1. ~IsKrc20(Envelope[tx]) /\ ~IsKrc721(Envelope[tx])
        BY <1>1, <1>4, <2>2 DEF PassOver, Exists20, Exists721
      <3>2. \A k \in Standard, t \in Tick : ~Concerns(k, t, tx)
        BY <3>1 DEF Concerns, Parses, Standard
      <3>3. \A k \in Standard, t \in Tick : Ledger(k, t)' = Ledger(k, t)
        BY <2>2 DEF PassOver, ledgers, Ledger
      <3>4. \A k \in Standard, t \in Tick : Ledger(k, t)' = After(k, t, Ledger(k, t), tx)
        BY <3>2, <3>3 DEF After
      <3>5. phase' = "live" /\ todo' = {}
        BY <2>1, <2>2 DEF PassOver
      <3> QED BY <1>4, <2>1, <3>2, <3>4, <3>5, ArrivalStep
    <2>3. CASE Apply20(tx, daa)
      <3>1. IsKrc20(Envelope[tx]) /\ ~IsKrc721(Envelope[tx])
        BY <1>2, <2>3 DEF Apply20
      <3>2. \A k \in Standard, t \in Tick : Concerns(k, t, tx) <=> k = 20 /\ t = TickOf(tx)
        BY <3>1 DEF Concerns, Parses, Standard
      <3>3. TickOf(tx) \in Tick /\ tokens \in [Tick -> Token20]
        BY <3>1, Parsed20 DEF LInv
      <3>4. Outcome(20, Ledger(20, TickOf(tx)), tx) = Outcome20(tx)
        BY DEF Outcome, Ledger, Outcome20
      <3>5. \A k \in Standard, t \in Tick : Ledger(k, t)' = After(k, t, Ledger(k, t), tx)
        <4>1. ASSUME NEW k \in Standard, NEW t \in Tick
              PROVE  Ledger(k, t)' = After(k, t, Ledger(k, t), tx)
          <5>1. CASE k = 20
            <6>1. tokens' = [tokens EXCEPT ![TickOf(tx)] = Outcome20(tx).state]
              BY <2>3 DEF Apply20
            <6>2. Ledger(k, t)' = tokens'[t] /\ Ledger(k, t) = tokens[t]
              BY <5>1 DEF Ledger
            <6> QED BY <3>2, <3>3, <3>4, <5>1, <6>1, <6>2 DEF After
          <5>2. CASE k # 20
            <6>1. Ledger(k, t)' = Ledger(k, t)
              BY <2>3, <5>2 DEF Apply20, Ledger
            <6> QED BY <3>2, <5>2, <6>1 DEF After
          <5> QED BY <5>1, <5>2
        <4> QED BY <4>1
      <3>6. \/ /\ phase' = "live" /\ todo' = {} /\ ~Outcome20(tx).accepted
            \/ /\ phase' = "accepted" /\ todo' = {[tx |-> tx, daa |-> daa]} /\ Outcome20(tx).accepted
        BY <2>1, <2>3 DEF Apply20
      <3>7. \A k \in Standard, t \in Tick : Concerns(k, t, tx) =>
                (Outcome(k, Ledger(k, t), tx).accepted <=> Outcome20(tx).accepted)
        BY <3>2, <3>4
      <3> QED BY <1>4, <2>1, <3>5, <3>6, <3>7, ArrivalStep
    <2>4. CASE Apply721(tx, daa)
      <3>1. IsKrc721(Envelope[tx]) /\ ~IsKrc20(Envelope[tx])
        BY <1>2, <2>4 DEF Apply721
      <3>2. \A k \in Standard, t \in Tick : Concerns(k, t, tx) <=> k = 721 /\ t = TickOf(tx)
        BY <3>1 DEF Concerns, Parses, Standard
      <3>3. TickOf(tx) \in Tick /\ collections \in [Tick -> Collection]
        BY <3>1, Parsed721 DEF LInv
      <3>4. Outcome(721, Ledger(721, TickOf(tx)), tx) = Outcome721(tx)
        BY DEF Outcome, Ledger, Outcome721
      <3>5. \A k \in Standard, t \in Tick : Ledger(k, t)' = After(k, t, Ledger(k, t), tx)
        <4>1. ASSUME NEW k \in Standard, NEW t \in Tick
              PROVE  Ledger(k, t)' = After(k, t, Ledger(k, t), tx)
          <5>1. CASE k = 721
            <6>1. collections' = [collections EXCEPT ![TickOf(tx)] = Outcome721(tx).state]
              BY <2>4 DEF Apply721
            <6>2. Ledger(k, t)' = collections'[t] /\ Ledger(k, t) = collections[t]
              BY <5>1 DEF Ledger
            <6> QED BY <3>2, <3>3, <3>4, <5>1, <6>1, <6>2 DEF After
          <5>2. CASE k = 20
            <6>1. Ledger(k, t)' = Ledger(k, t)
              BY <2>4, <5>2 DEF Apply721, Ledger
            <6> QED BY <3>2, <5>2, <6>1 DEF After
          <5> QED BY <5>1, <5>2 DEF Standard
        <4> QED BY <4>1
      <3>6. \/ /\ phase' = "live" /\ todo' = {} /\ ~Outcome721(tx).accepted
            \/ /\ phase' = "accepted" /\ todo' = {[tx |-> tx, daa |-> daa]} /\ Outcome721(tx).accepted
        BY <2>1, <2>4 DEF Apply721
      <3>7. \A k \in Standard, t \in Tick : Concerns(k, t, tx) =>
                (Outcome(k, Ledger(k, t), tx).accepted <=> Outcome721(tx).accepted)
        BY <3>2, <3>4
      <3> QED BY <1>4, <2>1, <3>5, <3>6, <3>7, ArrivalStep
    <2> QED BY <2>2, <2>3, <2>4
  <1>5. CASE OnChain(tx)
    <2>1. chain' = chain /\ (Exists20(tx) \/ Exists721(tx))
      BY <1>3, <1>5 DEF Arrives
    <2>2. ~Apply20(tx, daa) /\ ~Apply721(tx, daa)
      BY <1>1, <1>2, <2>1 DEF Apply20, Apply721, Exists20, Exists721
    <2>3. UNCHANGED vars
      BY <2>1, <2>2 DEF PassOver, vars, ledgers, journals
    <2> QED BY <2>3, LedgerStutter
  <1> QED BY <1>4, <1>5


\* The row of the pending transaction is the last of its tick.
LEMMA RecordingStep ==
    ASSUME LInv, ChainLedgerInv, NEW k \in Standard, phase = "accepted",
           NEW c, c = chain[Len(chain)], Parses(k, c.tx),
           NEW row, row = [tick |-> TickOf(c.tx), seq |-> NextSeq(Journal(k), TickOf(c.tx)), daa |-> c.daa,
                           tx |-> c.tx, columns |-> Columns(k, c.tx)],
           Journal(k)' = Insert(Journal(k), row),
           \A l \in Standard : l # k => Journal(l)' = Journal(l),
           UNCHANGED <<ledgers, chain>>, phase' = "live", todo' = {}
    PROVE  ChainLedgerInv'
  <1> DEFINE L == Len(chain)
             tick == TickOf(c.tx)
  <1>1. /\ chain \in Seq(Entry) /\ L \in Nat /\ DOMAIN chain = 1..L /\ chain # <<>> /\ L \in 1..L
        /\ c \in Entry /\ c.tx \in Tx /\ c.daa \in 0..MaxDaa
    <2>1. chain \in Seq(Entry) /\ chain # <<>>
      BY DEF ChainLedgerInv, ChainInv, PendingInv
    <2>2. L \in 1..L
      BY <2>1, EmptySeq
    <2>3. c \in Entry
      BY <2>1, <2>2, ElementOfSeq
    <2> QED BY <2>1, <2>2, <2>3 DEF Entry
  <1> HIDE DEF L
  <1>2. tick \in Tick
    <2>1. CASE k = 20
      BY <2>1, <1>1, Parsed20 DEF Parses
    <2>2. CASE k = 721
      BY <2>2, <1>1, Parsed721 DEF Parses
    <2> QED BY <2>1, <2>2 DEF Standard
  <1>3. \A r \in Journal(k) : r.tx # c.tx
    <2>1. ~Journaled(Journal(k), tick, c.tx)
      BY <1>2 DEF ChainLedgerInv, PendingInv
    <2>2. \A r \in Journal(k) : r.tick = TickOf(r.tx)
      BY DEF ChainLedgerInv, RowInv
    <2> QED BY <2>1, <2>2 DEF Journaled
  <1>4. /\ Journal(k)' = Journal(k) \cup {row}
        /\ row.tick = tick /\ row.tx = c.tx /\ row.daa = c.daa /\ row.columns = Columns(k, c.tx)
        /\ row.seq = NextSeq(Journal(k), tick)
    BY <1>3 DEF Insert
  <1> HIDE DEF tick
  <1>5. \A r \in Journal(k) : r.tick = tick => r.seq < row.seq
    <2>1. JournalOK(Journal(k)) /\ \A r \in Journal(k) : r.seq \in Nat
      BY DEF LInv, Journal, Row20, Row721
    <2> QED BY <1>4, <2>1, NextSeqFacts
  <1>6. \A i \in DOMAIN chain : chain[i].tx = c.tx => i = L
    BY <1>1 DEF ChainLedgerInv, ChainInv, L
  <1>7. ChainInv'
    BY DEF ChainLedgerInv, ChainInv
  <1>8. RowInv'
    <2>1. ASSUME NEW l \in Standard, NEW r \in Journal(l)'
          PROVE  /\ r.tx \in Tx /\ Parses(l, r.tx) /\ TickOf(r.tx) = r.tick /\ r.columns = Columns(l, r.tx)
                 /\ \E i \in DOMAIN chain : chain[i].tx = r.tx /\ chain[i].daa = r.daa
                 /\ \A q \in Journal(l)' : q.tx = r.tx => q = r
      <3>1. CASE l = k /\ r = row
        <4>1. chain[L].tx = row.tx /\ chain[L].daa = row.daa
          BY <1>4 DEF L
        <4> QED BY <3>1, <4>1, <1>1, <1>3, <1>4 DEF tick
      <3>2. CASE r \in Journal(l)
        BY <3>2, <1>3, <1>4 DEF ChainLedgerInv, RowInv
      <3> QED BY <3>1, <3>2, <1>4
    <2> QED BY <2>1 DEF RowInv
  <1>9. OrderInv'
    <2>1. ASSUME NEW l \in Standard, NEW r \in Journal(l)', NEW q \in Journal(l)', r.tick = q.tick,
                 NEW i \in DOMAIN chain, NEW j \in DOMAIN chain, chain[i].tx = r.tx, chain[j].tx = q.tx, i < j
          PROVE  r.seq < q.seq
      <3>1. CASE r \in Journal(l) /\ q \in Journal(l)
        BY <2>1, <3>1 DEF ChainLedgerInv, OrderInv
      <3>2. CASE l = k /\ r = row
        <4>1. i = L
          BY <2>1, <3>2, <1>4, <1>6
        <4> QED BY <4>1, <2>1, <1>1
      <3>3. CASE l = k /\ r \in Journal(k) /\ q = row
        BY <3>3, <2>1, <1>4, <1>5
      <3> QED BY <3>1, <3>2, <3>3, <1>4
    <2> QED BY <2>1 DEF OrderInv
  <1>10. AcceptInv'
    <2>1. ASSUME NEW l \in Standard, NEW t \in Tick, NEW h, History(l, t, chain, L, h), NEW i \in DOMAIN chain
          PROVE  Accepts(l, t, chain, h, i) <=> Journaled(Journal(l)', t, chain[i].tx)
      <3>1. Accepts(l, t, chain, h, i) <=>
                \/ Journaled(Journal(l), t, chain[i].tx)
                \/ i = L /\ Concerns(l, t, c.tx)
        BY <2>1 DEF ChainLedgerInv, AcceptInv, Pending, L
      <3>2. Concerns(l, t, c.tx) <=> l = k /\ t = tick
        BY OneStandard DEF Concerns, tick
      <3>3. CASE l = k
        <4>1. Journaled(Journal(k)', t, chain[i].tx) <=>
                Journaled(Journal(k), t, chain[i].tx) \/ (chain[i].tx = c.tx /\ t = tick)
          BY <1>4 DEF Journaled
        <4>2. chain[i].tx = c.tx <=> i = L
          BY <1>6 DEF L
        <4> QED BY <3>1, <3>2, <3>3, <4>1, <4>2
      <3>4. CASE l # k
        BY <3>1, <3>2, <3>4
      <3> QED BY <3>3, <3>4
    <2>2. chain' = chain /\ \A i : ~Pending(i)'
      BY DEF Pending
    <2> QED BY <2>1, <2>2 DEF AcceptInv, L
  <1>11. PendingInv' /\ LiveInv' /\ ReplayInv'
    <2>1. \A l \in Standard, t \in Tick : Ledger(l, t)' = Ledger(l, t)
      BY DEF Ledger, ledgers
    <2> QED BY <2>1 DEF PendingInv, ReplayInv, LiveInv, ChainLedgerInv
  <1> QED BY <1>7, <1>8, <1>9, <1>10, <1>11 DEF ChainLedgerInv

LEMMA RecordsStep ==
    ASSUME LInv, ChainLedgerInv, Record20 \/ Record721
    PROVE  ChainLedgerInv'
  <1> DEFINE c == chain[Len(chain)]
  <1>1. phase = "accepted" /\ todo = {c} /\ phase' = "live" /\ todo' = {} /\ UNCHANGED <<ledgers, chain>>
    BY DEF Record20, Record721, ChainLedgerInv, PendingInv
  <1> HIDE DEF c
  <1>2. CASE Record20
    <2>1. /\ IsKrc20(Envelope[c.tx])
          /\ journal20' = Insert(journal20, Recorded20(c.tx, c.daa)) /\ journal721' = journal721
      BY <1>1, <1>2 DEF Record20
    <2>2. /\ Journal(20) = journal20 /\ Journal(20)' = journal20' /\ 20 \in Standard
          /\ \A l \in Standard : l # 20 => Journal(l)' = Journal(l)
          /\ Parses(20, c.tx)
      BY <2>1 DEF Journal, Standard, Parses
    <2>3. Recorded20(c.tx, c.daa) =
              [tick |-> TickOf(c.tx), seq |-> NextSeq(Journal(20), TickOf(c.tx)), daa |-> c.daa,
               tx |-> c.tx, columns |-> Columns(20, c.tx)]
      BY <2>2 DEF Recorded20, NextSeq20, Columns
    <2> QED BY <1>1, <2>1, <2>2, <2>3, RecordingStep DEF c
  <1>3. CASE Record721
    <2>1. /\ IsKrc721(Envelope[c.tx])
          /\ journal721' = Insert(journal721, Recorded721(c.tx, c.daa)) /\ journal20' = journal20
      BY <1>1, <1>3 DEF Record721
    <2>2. /\ Journal(721) = journal721 /\ Journal(721)' = journal721' /\ 721 \in Standard
          /\ \A l \in Standard : l # 721 => Journal(l)' = Journal(l)
          /\ Parses(721, c.tx)
      BY <2>1 DEF Journal, Standard, Parses
    <2>3. Recorded721(c.tx, c.daa) =
              [tick |-> TickOf(c.tx), seq |-> NextSeq(Journal(721), TickOf(c.tx)), daa |-> c.daa,
               tx |-> c.tx, columns |-> Columns(721, c.tx)]
      BY <2>2 DEF Recorded721, NextSeq721, Columns
    <2> QED BY <1>1, <2>1, <2>2, <2>3, RecordingStep DEF c
  <1> QED BY <1>2, <1>3


\* The chain is cut after its first m transactions, and the ledgers start afresh.
LEMMA RewindStep ==
    ASSUME ChainLedgerInv, NEW m \in 0..Len(chain), phase = "accepted" => m < Len(chain),
           chain' = SubSeq(chain, 1, m),
           \A k \in Standard : Journal(k)' \subseteq Journal(k),
           \A k \in Standard : \A r \in Journal(k) : \A i \in DOMAIN chain :
               chain[i].tx = r.tx => (r \in Journal(k)' <=> i <= m),
           Rebuild
    PROVE  ChainLedgerInv'
  <1> DEFINE L == Len(chain)
  <1>1. /\ chain \in Seq(Entry) /\ L \in Nat /\ DOMAIN chain = 1..L /\ m \in Nat /\ m <= L
        /\ chain' \in Seq(Entry) /\ Len(chain') = m /\ DOMAIN chain' = 1..m
        /\ \A i \in 1..m : i \in 1..L /\ chain'[i] = chain[i]
    BY DEF ChainLedgerInv, ChainInv
  <1>2. \A k \in Standard, t \in Tick : Ledger(k, t)' = Start(k)
    BY DEF Rebuild, Ledger, Start
  <1>3. phase' = "replaying" /\ todo' = journal20' \cup journal721'
    BY DEF Rebuild
  <1> HIDE DEF L
  <1>4. ChainInv'
    BY <1>1 DEF ChainLedgerInv, ChainInv
  <1>5. RowInv'
    <2>1. ASSUME NEW k \in Standard, NEW r \in Journal(k)'
          PROVE  \E i \in DOMAIN chain' : chain'[i].tx = r.tx /\ chain'[i].daa = r.daa
      <3>1. PICK i \in DOMAIN chain : chain[i].tx = r.tx /\ chain[i].daa = r.daa
        BY DEF ChainLedgerInv, RowInv
      <3>2. i <= m
        BY <3>1
      <3>3. i \in 1..m
        BY <1>1, <3>2
      <3> QED BY <1>1, <3>1, <3>3
    <2> QED BY <2>1 DEF ChainLedgerInv, RowInv
  <1>6. OrderInv'
    <2>1. ASSUME NEW k \in Standard, NEW r \in Journal(k)', NEW q \in Journal(k)', r.tick = q.tick,
                 NEW i \in DOMAIN chain', NEW j \in DOMAIN chain',
                 chain'[i].tx = r.tx, chain'[j].tx = q.tx, i < j
          PROVE  r.seq < q.seq
      <3>1. i \in DOMAIN chain /\ j \in DOMAIN chain /\ chain[i].tx = r.tx /\ chain[j].tx = q.tx
        BY <1>1, <2>1
      <3>2. r \in Journal(k) /\ q \in Journal(k)
        OBVIOUS
      <3> QED BY <2>1, <3>1, <3>2 DEF ChainLedgerInv, OrderInv
    <2> QED BY <2>1 DEF OrderInv
  <1>7. AcceptInv'
    <2>1. ASSUME NEW k \in Standard, NEW t \in Tick, NEW h, History(k, t, chain', m, h), NEW i \in 1..m
          PROVE  Accepts(k, t, chain', h, i) <=> Journaled(Journal(k)', t, chain'[i].tx)
      <3>1. PICK H : History(k, t, chain, L, H)
        BY <1>1, HistoryExists
      <3>2. History(k, t, chain, m, H)
        <4>1. 1..m \subseteq 1..L
          BY <1>1
        <4> QED BY <3>1, <4>1 DEF History
      <3>3. SameTransactions(chain', chain, m) /\ m \in Nat
        BY <1>1 DEF SameTransactions
      <3>4. i \in DOMAIN chain /\ chain'[i] = chain[i]
        BY <1>1
      <3>5. Accepts(k, t, chain', h, i) <=> Accepts(k, t, chain, H, i)
        <4> DEFINE rest == chain'
                   whole == chain
        <4>1. /\ History(k, t, rest, m, h) /\ History(k, t, whole, m, H)
              /\ SameTransactions(rest, whole, m)
          BY <2>1, <3>2, <3>3
        <4> HIDE DEF rest, whole
        <4>2. Accepts(k, t, rest, h, i) <=> Accepts(k, t, whole, H, i)
          BY <3>3, <4>1, AcceptsAlike
        <4> QED BY <4>2 DEF rest, whole
      <3>6. ~Pending(i)
        <4>1. i \in Nat /\ i <= m
          BY <1>1
        <4>2. phase = "accepted" => m < L
          BY DEF L
        <4>3. phase = "accepted" => i # L
          BY <1>1, <4>1, <4>2
        <4> QED BY <4>3 DEF Pending, L
      <3>7. Accepts(k, t, chain, H, i) <=> Journaled(Journal(k), t, chain[i].tx)
        BY <3>1, <3>4, <3>6 DEF ChainLedgerInv, AcceptInv, L
      <3>8. \A r \in Journal(k) : r.tx = chain[i].tx => r \in Journal(k)'
        BY <3>4, <1>1
      <3> QED BY <3>4, <3>5, <3>7, <3>8 DEF Journaled
    <2>2. \A i : ~Pending(i)'
      BY <1>3 DEF Pending
    <2> QED BY <1>1, <2>1, <2>2 DEF AcceptInv
  <1>8. PendingInv' /\ LiveInv'
    BY <1>3 DEF PendingInv, LiveInv
  <1>9. ReplayInv'
    <2>1. ASSUME NEW k \in Standard, NEW t \in Tick, NEW h, History(k, t, chain', m, h)
          PROVE  Ledger(k, t)' = h[0] /\ Cut(k, t, 0)'
      <3>1. h[0] = Start(k)
        BY <2>1 DEF History
      <3>2. \A r \in Journal(k)' : r \in todo'
        BY <1>3 DEF Journal, Standard
      <3>3. \A i \in DOMAIN chain' : i > 0
        BY <1>1
      <3> QED BY <1>2, <3>1, <3>2, <3>3 DEF Cut
    <2>2. 0 \in 0..Len(chain')
      BY <1>1
    <2>3. \A k \in Standard, t \in Tick : \A h : History(k, t, chain', Len(chain'), h) =>
            \E n \in 0..Len(chain') : Ledger(k, t)' = h[n] /\ Cut(k, t, n)'
      BY <1>1, <2>1, <2>2
    <2> QED BY <1>3, <2>3 DEF ReplayInv
  <1> QED BY <1>4, <1>5, <1>6, <1>7, <1>8, <1>9 DEF ChainLedgerInv

LEMMA UnwindsStep ==
    ASSUME LInv, ChainLedgerInv, NEW from \in 0..MaxDaa, Unwind(from)
    PROVE  ChainLedgerInv'
  <1> DEFINE below == {i \in DOMAIN chain : chain[i].daa < from}
             m == Max({0} \cup below)
             L == Len(chain)
  <1>1. /\ chain \in Seq(Entry) /\ L \in Nat /\ DOMAIN chain = 1..L
    BY DEF ChainLedgerInv, ChainInv
  <1>2. m \in {0} \cup below /\ \A x \in {0} \cup below : x <= m
    <2>1. {0} \cup below \subseteq Nat /\ {0} \cup below # {} /\ \A x \in {0} \cup below : x <= L
      BY <1>1
    <2> HIDE DEF below, L
    <2> QED BY <2>1, <1>1, Largest
  <1>3. chain' = SubSeq(chain, 1, m) /\ phase = "live" /\ Rebuild
    BY DEF Unwind
  <1> HIDE DEF m
  <1>4. m \in 0..L
    BY <1>1, <1>2
  <1>5. \A i \in 1..L : chain[i].daa \in Int
    <2>1. \A i \in 1..L : chain[i] \in Entry
      BY <1>1, ElementOfSeq
    <2> HIDE DEF L
    <2>2. \A i \in 1..L : chain[i].daa \in 0..MaxDaa
      BY <2>1 DEF Entry
    <2> QED BY <2>2, LegacyJournalAssumption
  <1>6. \A i \in DOMAIN chain : chain[i].daa < from <=> i <= m
    <2>1. ASSUME NEW i \in DOMAIN chain, i <= m
          PROVE  chain[i].daa < from
      <3>1. m \in below
        BY <1>1, <1>2, <2>1
      <3>2. chain[i].daa <= chain[m].daa
        BY <2>1, <3>1 DEF ChainLedgerInv, ChainInv
      <3>3. from \in Int /\ chain[i].daa \in Int /\ chain[m].daa \in Int /\ chain[m].daa < from
        BY <1>1, <1>5, <3>1, LegacyJournalAssumption
      <3> QED BY <3>2, <3>3
    <2> QED BY <2>1, <1>2
  <1>7. \A k \in Standard : Journal(k)' = {r \in Journal(k) : r.daa < from}
    BY DEF Unwind, Unwound20, Unwound721, Journal
  <1>8. ASSUME NEW k \in Standard, NEW r \in Journal(k), NEW i \in DOMAIN chain, chain[i].tx = r.tx
        PROVE  r \in Journal(k)' <=> i <= m
    <2>1. chain[i].daa = r.daa
      BY <1>8 DEF ChainLedgerInv, RowInv, ChainInv
    <2> QED BY <2>1, <1>6, <1>7
  <1> HIDE DEF below
  <1> QED BY <1>3, <1>4, <1>7, <1>8, RewindStep DEF L

LEMMA RestartStep ==
    ASSUME LInv, ChainLedgerInv, Restart
    PROVE  ChainLedgerInv'
  <1> DEFINE L == Len(chain)
  <1>1. /\ chain \in Seq(Entry) /\ L \in Nat /\ DOMAIN chain = 1..L /\ chain # <<>> /\ L \in 1..L
    BY EmptySeq DEF ChainLedgerInv, ChainInv, Restart
  <1>2. Rebuild /\ \A k \in Standard : Journal(k)' = Journal(k)
    BY DEF Restart, journals, Journal
  <1>3. CASE phase = "accepted"
    <2>1. todo = {chain[L]}
      BY <1>3 DEF ChainLedgerInv, PendingInv
    <2>2. \A i \in DOMAIN chain : chain[i] \in todo <=> i = L
      BY <1>1, <2>1 DEF ChainLedgerInv, ChainInv
    <2>3. (CHOOSE i \in DOMAIN chain : chain[i] \in todo) = L
      <3> HIDE DEF L
      <3> QED BY <1>1, <2>2
    <2>4. chain' = RemoveAt(chain, L)
      BY <1>3, <2>3 DEF Restart
    <2>5. chain' = SubSeq(chain, 1, L - 1)
      BY <1>1, <2>4 DEF RemoveAt
    <2>6. L - 1 \in 0..L /\ L - 1 < L
      BY <1>1
    <2>7. ASSUME NEW k \in Standard, NEW r \in Journal(k), NEW i \in DOMAIN chain, chain[i].tx = r.tx
          PROVE  i <= L - 1
      <3>1. r.tick \in Tick
        BY DEF LInv, Journal, Row20, Row721
      <3>2. ~Journaled(Journal(k), r.tick, chain[L].tx)
        BY <1>3, <3>1 DEF ChainLedgerInv, PendingInv
      <3>3. i # L
        BY <2>7, <3>2 DEF Journaled
      <3> QED BY <1>1, <3>3
    <2>8. \A k \in Standard : \A r \in Journal(k) : \A i \in DOMAIN chain :
              chain[i].tx = r.tx => (r \in Journal(k)' <=> i <= L - 1)
      BY <1>2, <2>7
    <2> QED BY <1>2, <2>5, <2>6, <2>8, RewindStep
  <1>4. CASE phase # "accepted"
    <2>1. chain' = SubSeq(chain, 1, L)
      BY <1>1, <1>4 DEF Restart
    <2>2. \A k \in Standard : \A r \in Journal(k) : \A i \in DOMAIN chain :
              chain[i].tx = r.tx => (r \in Journal(k)' <=> i <= L)
      BY <1>1, <1>2
    <2>3. L \in 0..L
      BY <1>1
    <2> QED BY <1>2, <1>4, <2>1, <2>2, <2>3, RewindStep
  <1> QED BY <1>3, <1>4


\* The next row of a journal is accepted again, and takes the ledger of its
\* tick to where the chain had it.
LEMMA OneReplay ==
    ASSUME LInv, ChainLedgerInv, phase = "replaying", NEW k \in Standard,
           NEW r \in todo \cap Journal(k), \A q \in todo \cap Journal(k) : ~Before(q, r),
           \A l \in Standard, t \in Tick : Ledger(l, t)' =
               IF l = k /\ t = r.tick THEN Outcome(k, Ledger(k, t), r.tx).state ELSE Ledger(l, t),
           todo' = todo \ {r}, UNCHANGED <<chain, journals, phase>>
    PROVE  ChainLedgerInv' /\ Outcome(k, Ledger(k, r.tick), r.tx).accepted
  <1> DEFINE L == Len(chain)
  <1>1. /\ chain \in Seq(Entry) /\ L \in Nat /\ DOMAIN chain = 1..L
        /\ todo \subseteq journal20 \cup journal721
    BY DEF ChainLedgerInv, ChainInv, ReplayInv
  <1>2. \A l \in Standard : Journal(l)' = Journal(l)
    BY DEF Journal, journals
  <1> HIDE DEF L
  <1>3. /\ r.tick \in Tick /\ r.tick \in Nat
        /\ \A q \in Journal(k) : q.seq \in Nat /\ q.daa \in Int /\ q.tick \in Int
    <2>1. \A q \in Journal(k) : q.tick \in Tick /\ q.seq \in Nat /\ q.daa \in 0..MaxDaa
      BY DEF LInv, Journal, Row20, Row721
    <2>2. Tick \subseteq Int /\ Tick \subseteq Nat /\ 0..MaxDaa \subseteq Int
      BY InscriptionsAssumption
    <2> QED BY <2>1, <2>2
  <1>4. PICK i \in 1..L : chain[i].tx = r.tx /\ chain[i].daa = r.daa
    BY <1>1 DEF ChainLedgerInv, RowInv
  <1>5. \A j \in 1..L : chain[j].tx = r.tx => j = i
    BY <1>1, <1>4 DEF ChainLedgerInv, ChainInv
  <1>6. ASSUME NEW q \in todo \cap Journal(k), q.tick = r.tick, NEW j \in 1..L, chain[j].tx = q.tx, j < i
        PROVE  FALSE
    <2>1. chain[j].daa = q.daa
      BY <1>1, <1>6 DEF ChainLedgerInv, RowInv, ChainInv
    <2>2. chain[j].daa <= chain[i].daa
      <3>1. j <= i
        BY <1>6
      <3> QED BY <1>1, <3>1 DEF ChainLedgerInv, ChainInv
    <2>3. q.seq < r.seq
      BY <1>1, <1>4, <1>6 DEF ChainLedgerInv, OrderInv
    <2>4. q.daa < r.daa \/ q.daa = r.daa
      BY <1>3, <1>4, <2>1, <2>2
    <2>5. Before(q, r)
      BY <1>6, <2>3, <2>4 DEF Before
    <2> QED BY <2>5, <1>6
  <1>7. \A j : ~Pending(j) /\ ~Pending(j)'
    BY DEF Pending
  <1>8. ASSUME NEW h, History(k, r.tick, chain, L, h)
        PROVE  /\ Outcome(k, Ledger(k, r.tick), r.tx).accepted
               /\ Ledger(k, r.tick)' = h[i]
               /\ Cut(k, r.tick, i)'
    <2>1. PICK n \in 0..L : Ledger(k, r.tick) = h[n] /\ Cut(k, r.tick, n)
      BY <1>3, <1>8 DEF ChainLedgerInv, ReplayInv, L
    <2>2. n < i
      <3>1. i > n
        BY <1>1, <1>4, <2>1 DEF Cut
      <3> QED BY <1>1, <2>1, <3>1
    <2>3. \A j \in 1..L : \A q \in Journal(k) :
              q.tick = r.tick /\ q.tx = chain[j].tx => (q \in todo <=> j > n)
      BY <1>1, <2>1 DEF Cut
    <2>4. ASSUME NEW j \in (n + 1)..(i - 1) PROVE ~Accepts(k, r.tick, chain, h, j)
      <3>1. j \in 1..L /\ j > n /\ j < i
        BY <1>1, <2>1
      <3>2. SUFFICES ASSUME Journaled(Journal(k), r.tick, chain[j].tx) PROVE FALSE
        BY <1>1, <1>3, <1>7, <1>8, <3>1 DEF ChainLedgerInv, AcceptInv, L
      <3>3. PICK q \in Journal(k) : q.tx = chain[j].tx /\ q.tick = r.tick
        BY <3>2 DEF Journaled
      <3>4. q \in todo
        BY <2>3, <3>1, <3>3
      <3> QED BY <1>6, <3>1, <3>3, <3>4
    <2>5. h[i - 1] = h[n]
      <3>1. n \in 0..L /\ i - 1 \in n..L
        BY <1>1, <2>1, <2>2
      <3> DEFINE whole == chain
                 last == i - 1
      <3>2. /\ History(k, r.tick, whole, L, h) /\ last \in n..L
            /\ Idle(k, r.tick, whole, h, n, last)
        BY <1>8, <2>4, <3>1 DEF Idle
      <3> HIDE DEF whole, last
      <3>3. h[last] = h[n]
        BY <1>1, <3>1, <3>2, NothingBetween
      <3> QED BY <3>3 DEF last
    <2>6. Accepts(k, r.tick, chain, h, i)
      <3>1. Journaled(Journal(k), r.tick, chain[i].tx)
        BY <1>4 DEF Journaled
      <3> QED BY <1>1, <1>3, <1>8, <3>1 DEF ChainLedgerInv, AcceptInv, L
    <2>7. Outcome(k, Ledger(k, r.tick), r.tx).accepted /\ Concerns(k, r.tick, r.tx)
      BY <1>4, <2>1, <2>5, <2>6 DEF Accepts
    <2>8. h[i] = Outcome(k, h[i - 1], r.tx).state
      <3>1. h[i] = After(k, r.tick, h[i - 1], chain[i].tx)
        BY <1>8 DEF History
      <3> QED BY <1>4, <2>7, <3>1 DEF After
    <2>9. Ledger(k, r.tick)' = h[i]
      BY <1>3, <2>1, <2>5, <2>8
    <2>10. ASSUME NEW j \in 1..L, NEW q \in Journal(k), q.tick = r.tick, q.tx = chain[j].tx
           PROVE  q \in todo' <=> j > i
      <3>1. CASE j < i
        <4>1. q \notin todo
          BY <1>6, <2>10, <3>1
        <4> QED BY <1>1, <3>1, <4>1
      <3>2. CASE j = i
        <4>1. q = r
          BY <1>4, <2>10, <3>2 DEF ChainLedgerInv, RowInv
        <4> QED BY <1>1, <3>2, <4>1
      <3>3. CASE j > i
        <4>1. j > n
          BY <1>1, <2>1, <2>2, <3>3
        <4>2. q # r
          BY <1>5, <2>10, <3>3
        <4> QED BY <2>3, <2>10, <3>3, <4>1, <4>2
      <3> QED BY <1>1, <3>1, <3>2, <3>3
    <2>11. Cut(k, r.tick, i)'
      BY <1>1, <1>2, <2>10 DEF Cut
    <2> QED BY <2>7, <2>9, <2>11
  <1>9. Outcome(k, Ledger(k, r.tick), r.tx).accepted
    BY <1>1, <1>8, HistoryExists
  <1>10. ReplayInv'
    <2>1. ASSUME NEW l \in Standard, NEW t \in Tick, NEW h, History(l, t, chain, L, h)
          PROVE  \E n \in 0..L : Ledger(l, t)' = h[n] /\ Cut(l, t, n)'
      <3>1. CASE l = k /\ t = r.tick
        <4>1. i \in 0..L
          BY <1>1
        <4> QED BY <1>8, <2>1, <3>1, <4>1
      <3>2. CASE ~(l = k /\ t = r.tick)
        <4>1. PICK n \in 0..L : Ledger(l, t) = h[n] /\ Cut(l, t, n)
          BY <2>1 DEF ChainLedgerInv, ReplayInv, L
        <4>2. \A q \in Journal(l) : q.tick = t => q # r
          <5>1. CASE l = k
            BY <3>2, <5>1
          <5>2. CASE l # k
            BY <5>2, OneStandard DEF ChainLedgerInv, RowInv
          <5> QED BY <5>1, <5>2
        <4>3. Cut(l, t, n)'
          BY <1>2, <4>1, <4>2 DEF Cut
        <4>4. Ledger(l, t)' = Ledger(l, t)
          BY <3>2
        <4> QED BY <4>1, <4>3, <4>4
      <3> QED BY <3>1, <3>2
    <2>2. todo' \subseteq (journal20 \cup journal721)'
      BY <1>1 DEF journals
    <2> QED BY <2>1, <2>2 DEF ReplayInv, L
  <1>11. ChainInv' /\ PendingInv' /\ LiveInv'
    BY DEF ChainLedgerInv, ChainInv, PendingInv, LiveInv
  <1>12. RowInv' /\ OrderInv'
    BY <1>2 DEF ChainLedgerInv, RowInv, OrderInv
  <1>13. AcceptInv'
    BY <1>2, <1>7 DEF ChainLedgerInv, AcceptInv
  <1> QED BY <1>9, <1>10, <1>11, <1>12, <1>13 DEF ChainLedgerInv

\* What replaying a row does, in the terms of the ledgers.
LEMMA ReplaysStep ==
    ASSUME LInv, ChainLedgerInv, NEW r \in todo, Replay20(r) \/ Replay721(r)
    PROVE  /\ ChainLedgerInv'
           /\ IF r \in journal20
              THEN Krc20Apply(tokens[r.tick], Krc20OpOf(r.columns), Sender[r.tx]).accepted
              ELSE Krc721Apply(collections[r.tick], Krc721OpOf(r.columns), Sender[r.tx]).accepted
  <1>1. /\ phase = "replaying" /\ todo' = todo \ {r} /\ UNCHANGED <<chain, journals, phase>>
    BY DEF Replay20, Replay721
  <1>2. /\ Journal(20) = journal20 /\ Journal(721) = journal721 /\ 20 \in Standard /\ 721 \in Standard
    BY DEF Journal, Standard
  <1>3. CASE Replay20(r)
    <2>1. r \in todo \cap Journal(20) /\ \A q \in todo \cap Journal(20) : ~Before(q, r)
      BY <1>2, <1>3 DEF Replay20, Next20
    <2>2. /\ r.tick \in Tick /\ r.tx \in Tx /\ IsKrc20(Envelope[r.tx]) /\ r.columns = Columns(20, r.tx)
      BY <1>2, <2>1 DEF LInv, Row20, ChainLedgerInv, RowInv, Parses
    <2>3. Krc20OpOf(r.columns) = Krc20OpOf(Envelope[r.tx])
      BY <2>2, Parsed20, RowsRebuild DEF Columns
    <2>4. Krc20Apply(tokens[r.tick], Krc20OpOf(r.columns), Sender[r.tx]) =
              Outcome(20, Ledger(20, r.tick), r.tx)
      BY <2>3 DEF Outcome, Ledger
    <2>5. /\ tokens \in [Tick -> Token20] /\ UNCHANGED collections
          /\ tokens' = [tokens EXCEPT ![r.tick] =
                    Krc20Apply(@, Krc20OpOf(r.columns), Sender[r.tx]).state]
      BY <1>3 DEF LInv, Replay20
    <2>6. \A l \in Standard, t \in Tick : Ledger(l, t)' =
               IF l = 20 /\ t = r.tick THEN Outcome(20, Ledger(20, t), r.tx).state ELSE Ledger(l, t)
      <3>1. ASSUME NEW l \in Standard, NEW t \in Tick
            PROVE  Ledger(l, t)' =
               IF l = 20 /\ t = r.tick THEN Outcome(20, Ledger(20, t), r.tx).state ELSE Ledger(l, t)
        BY <2>2, <2>4, <2>5 DEF Ledger
      <3> QED BY <3>1
    <2>7. ChainLedgerInv' /\ Outcome(20, Ledger(20, r.tick), r.tx).accepted
      BY <1>1, <1>2, <2>1, <2>6, OneReplay
    <2> QED BY <1>2, <2>1, <2>4, <2>7
  <1>4. CASE Replay721(r)
    <2>1. r \in todo \cap Journal(721) /\ \A q \in todo \cap Journal(721) : ~Before(q, r)
      BY <1>2, <1>4 DEF Replay721, Next721
    <2>2. /\ r.tick \in Tick /\ r.tx \in Tx /\ IsKrc721(Envelope[r.tx]) /\ r.columns = Columns(721, r.tx)
      BY <1>2, <2>1 DEF LInv, Row721, ChainLedgerInv, RowInv, Parses
    <2>3. Krc721OpOf(r.columns) = Krc721OpOf(Envelope[r.tx])
      BY <2>2, Parsed721, RowsRebuild DEF Columns
    <2>4. Krc721Apply(collections[r.tick], Krc721OpOf(r.columns), Sender[r.tx]) =
              Outcome(721, Ledger(721, r.tick), r.tx)
      BY <2>3 DEF Outcome, Ledger
    <2>5. /\ collections \in [Tick -> Collection] /\ UNCHANGED tokens
          /\ collections' = [collections EXCEPT ![r.tick] =
                    Krc721Apply(@, Krc721OpOf(r.columns), Sender[r.tx]).state]
      BY <1>4 DEF LInv, Replay721
    <2>6. \A l \in Standard, t \in Tick : Ledger(l, t)' =
               IF l = 721 /\ t = r.tick THEN Outcome(721, Ledger(721, t), r.tx).state ELSE Ledger(l, t)
      <3>1. ASSUME NEW l \in Standard, NEW t \in Tick
            PROVE  Ledger(l, t)' =
               IF l = 721 /\ t = r.tick THEN Outcome(721, Ledger(721, t), r.tx).state ELSE Ledger(l, t)
        BY <2>2, <2>4, <2>5 DEF Ledger, Standard
      <3> QED BY <3>1
    <2>7. ChainLedgerInv' /\ Outcome(721, Ledger(721, r.tick), r.tx).accepted
      BY <1>1, <1>2, <2>1, <2>6, OneReplay
    <2>8. r \notin journal20
      BY <1>4 DEF Replay721
    <2> QED BY <2>4, <2>7, <2>8
  <1> QED BY <1>3, <1>4


\* When no row is left, nothing the ledgers accepted is missing.
LEMMA ReplayedStep ==
    ASSUME ChainLedgerInv, Replayed
    PROVE  ChainLedgerInv'
  <1> DEFINE L == Len(chain)
  <1>1. /\ chain \in Seq(Entry) /\ L \in Nat /\ DOMAIN chain = 1..L
        /\ phase = "replaying" /\ phase' = "live" /\ todo = {} /\ todo' = {}
        /\ UNCHANGED <<ledgers, journals, chain>>
    BY DEF ChainLedgerInv, ChainInv, Replayed
  <1> HIDE DEF L
  <1>2. \A k \in Standard : Journal(k)' = Journal(k) /\ \A t \in Tick : Ledger(k, t)' = Ledger(k, t)
    BY <1>1 DEF Journal, Ledger, journals, ledgers
  <1>3. \A j : ~Pending(j) /\ ~Pending(j)'
    BY <1>1 DEF Pending
  <1>4. ASSUME NEW k \in Standard, NEW t \in Tick, NEW h, History(k, t, chain, L, h)
        PROVE  Ledger(k, t) = h[L]
    <2>1. PICK n \in 0..L : Ledger(k, t) = h[n] /\ Cut(k, t, n)
      BY <1>1, <1>4 DEF ChainLedgerInv, ReplayInv, L
    <2>2. ASSUME NEW j \in (n + 1)..L PROVE ~Accepts(k, t, chain, h, j)
      <3>1. j \in 1..L /\ j > n
        BY <1>1, <2>1
      <3>2. ~Journaled(Journal(k), t, chain[j].tx)
        BY <1>1, <2>1, <3>1 DEF Cut, Journaled
      <3> QED BY <1>1, <1>3, <1>4, <3>1, <3>2 DEF ChainLedgerInv, AcceptInv, L
    <2> DEFINE whole == chain
               last == L
    <2>3. /\ History(k, t, whole, L, h) /\ last \in n..L /\ L \in Nat
          /\ Idle(k, t, whole, h, n, last)
      BY <1>1, <1>4, <2>1, <2>2 DEF Idle
    <2> HIDE DEF whole, last
    <2>4. h[last] = h[n]
      BY <2>1, <2>3, NothingBetween
    <2> QED BY <2>1, <2>4 DEF last
  <1>5. ChainInv' /\ PendingInv' /\ ReplayInv'
    BY <1>1 DEF ChainLedgerInv, ChainInv, PendingInv, ReplayInv
  <1>6. RowInv' /\ OrderInv'
    BY <1>1, <1>2 DEF ChainLedgerInv, RowInv, OrderInv
  <1>7. AcceptInv'
    BY <1>1, <1>2, <1>3 DEF ChainLedgerInv, AcceptInv
  <1>8. LiveInv'
    BY <1>1, <1>2, <1>4 DEF LiveInv, L
  <1> QED BY <1>5, <1>6, <1>7, <1>8 DEF ChainLedgerInv

\* What replaying may not do: reject a row.
RowsAreAccepted ==
    phase = "replaying" => \A r \in todo \ todo' :
        IF r \in journal20
        THEN Krc20Apply(tokens[r.tick], Krc20OpOf(r.columns), Sender[r.tx]).accepted
        ELSE Krc721Apply(collections[r.tick], Krc721OpOf(r.columns), Sender[r.tx]).accepted

LEMMA LedgerStep ==
    ASSUME LInv, ChainLedgerInv, ~RedeliverRejected, [Next]_vars
    PROVE  ChainLedgerInv'
  <1>1. CASE \E tx \in Tx, daa \in 0..MaxDaa :
                PassOver(tx, daa) \/ Apply20(tx, daa) \/ Apply721(tx, daa)
    BY <1>1, DeliveryStep
  <1>2. CASE Record20 \/ Record721
    BY <1>2, RecordsStep
  <1>3. CASE \E from \in 0..MaxDaa : Unwind(from)
    BY <1>3, UnwindsStep
  <1>4. CASE Restart
    BY <1>4, RestartStep
  <1>5. CASE \E r \in todo : Replay20(r) \/ Replay721(r)
    BY <1>5, ReplaysStep
  <1>6. CASE Replayed
    BY <1>6, ReplayedStep
  <1>7. CASE UNCHANGED vars
    BY <1>7, LedgerStutter
  <1> QED BY <1>1, <1>2, <1>3, <1>4, <1>5, <1>6, <1>7 DEF Next

LEMMA RowsStep ==
    ASSUME LInv, ChainLedgerInv, [Next]_vars
    PROVE  RowsAreAccepted
  <1> SUFFICES ASSUME phase = "replaying", NEW r \in todo \ todo'
               PROVE  IF r \in journal20
                      THEN Krc20Apply(tokens[r.tick], Krc20OpOf(r.columns), Sender[r.tx]).accepted
                      ELSE Krc721Apply(collections[r.tick], Krc721OpOf(r.columns), Sender[r.tx]).accepted
    BY DEF RowsAreAccepted
  <1>1. CASE \E q \in todo : Replay20(q) \/ Replay721(q)
    <2>1. PICK q \in todo : Replay20(q) \/ Replay721(q)
      BY <1>1
    <2>2. q = r
      BY <2>1 DEF Replay20, Replay721
    <2> QED BY <2>1, <2>2, ReplaysStep
  <1>2. CASE Restart \/ \E from \in 0..MaxDaa : Unwind(from)
    <2>1. Restart
      BY <1>2 DEF Unwind
    <2>2. todo' = journal20 \cup journal721
      BY <2>1 DEF Restart, Rebuild, journals
    <2> QED BY <2>2 DEF ChainLedgerInv, ReplayInv
  <1>3. CASE Replayed \/ UNCHANGED vars
    BY <1>3 DEF Replayed, vars
  <1>4. CASE Record20 \/ Record721
    BY <1>4 DEF Record20, Record721
  <1>5. CASE \E tx \in Tx, daa \in 0..MaxDaa :
                PassOver(tx, daa) \/ Apply20(tx, daa) \/ Apply721(tx, daa)
    BY <1>5 DEF PassOver, Apply20, Apply721, Arrives
  <1> QED BY <1>1, <1>2, <1>3, <1>4, <1>5 DEF Next

LEMMA LedgerInductive == ~RedeliverRejected /\ Spec => [](LInv /\ ChainLedgerInv)
  <1>1. Init => LInv /\ ChainLedgerInv
    BY LegacyInit, LedgerInit
  <1>2. ~RedeliverRejected /\ (LInv /\ ChainLedgerInv) /\ [Next]_vars => (LInv /\ ChainLedgerInv)'
    BY LegacyStep, LedgerStep
  <1>3. CASE ~RedeliverRejected
    <2>1. (LInv /\ ChainLedgerInv) /\ [Next]_vars => (LInv /\ ChainLedgerInv)'
      BY <1>2, <1>3
    <2>2. Spec => [](LInv /\ ChainLedgerInv)
      BY <1>1, <2>1, PTL DEF Spec
    <2> QED BY <2>2
  <1>4. CASE RedeliverRejected
    BY <1>4
  <1> QED BY <1>3, <1>4

\* If no rejected inscription arrives again, both ledgers are, outside a
\* rebuild, what applying every transaction of the chain from genesis gives,
\* for every number of transactions, reorganizations and restarts.  With a
\* rejected one arriving again the property is false: nothing remembers what
\* was rejected (krc20_ledger.rs:79, KRC20_KRC721_REFERENCE.md:54).
THEOREM LedgersFollowTheChain == ~RedeliverRejected /\ Spec => []LedgerFollowsChain
  <1>1. ASSUME ChainLedgerInv PROVE LedgerFollowsChain
    <2>1. chain \in Seq([tx : Tx, daa : 0..MaxDaa])
      BY <1>1 DEF ChainLedgerInv, ChainInv, Entry
    <2>2. ASSUME phase # "replaying", NEW t \in Tick
          PROVE  tokens[t] = TokenAfter(t) /\ collections[t] = CollectionAfter(t)
      <3>1. 20 \in Standard /\ 721 \in Standard /\ Ledger(20, t) = tokens[t] /\ Ledger(721, t) = collections[t]
        BY DEF Standard, Ledger
      <3>2. PICK h : History(20, t, chain, Len(chain), h) /\ TokenAfter(t) = h[Len(chain)]
        BY <2>1, TokenAfterIs
      <3>3. PICK g : History(721, t, chain, Len(chain), g) /\ CollectionAfter(t) = g[Len(chain)]
        BY <2>1, CollectionAfterIs
      <3> QED BY <1>1, <2>2, <3>1, <3>2, <3>3 DEF ChainLedgerInv, LiveInv
    <2> QED BY <2>2 DEF LedgerFollowsChain
  <1>2. LInv /\ ChainLedgerInv => LedgerFollowsChain
    BY <1>1
  <1> QED BY <1>2, LedgerInductive, PTL

\* Under the same hypothesis every row that is replayed is accepted again: no
\* reorganization or restart leaves a journal whose rows depend on one that is
\* gone (krc20_ledger.rs:86).
THEOREM ReplayAlwaysAccepts == ~RedeliverRejected /\ Spec => ReplayAccepts
  <1>1. LInv /\ ChainLedgerInv /\ [Next]_vars => [RowsAreAccepted]_vars
    BY RowsStep
  <1>2. ReplayAccepts <=> [][RowsAreAccepted]_vars
    BY PTL DEF ReplayAccepts, RowsAreAccepted
  <1> QED BY <1>1, <1>2, LedgerInductive, PTL DEF Spec
===============================================================================
