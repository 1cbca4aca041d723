---------------------------- MODULE IndexerProofs ----------------------------
(***************************************************************************)
(* Theorems about Indexer, for every set of blocks and scores, every       *)
(* finality depth, every list of chain extensions and any number of chain  *)
(* changes and crashes.                                                    *)
(*                                                                         *)
(* They hold for an upstream that is orderly: it announces no block the    *)
(* chain does not accept next (run side_block shows why), and if the node  *)
(* may crash, no final block is ever dropped (run torn_unwind shows why).  *)
(* A score of 0 counts as final in the code without being so, hence the    *)
(* second conjunct of RespectsFinality; only the genesis block has it.     *)
(*                                                                         *)
(* The inductive invariant says that everything the node holds stands in   *)
(* one ascending line of blocks, the selected chain with the announced     *)
(* block on top: what the store keeps, then what waits to be written,      *)
(* then what is only probabilistic, then what the notification still       *)
(* brings.  Unwound blocks are always above what the store keeps, so that  *)
(* unwinding by hash and by score mean the same.  What the store keeps is  *)
(* then a beginning of the chain, and a second invariant (ReplayInv) says  *)
(* that its rows are those a replay of that beginning computes.            *)
(***************************************************************************)
EXTENDS Indexer, SequenceTheorems, WellFoundedInduction, TLAPS

RespectsFinality == ~DeepReorgs /\ \A b \in Block : DaaScore[b] # 0

Orderly == ~SideBlocks /\ (MaxRestarts = 0 \/ RespectsFinality)

UnwindSteps == {"unwind entities", "unwind utxos", "unwind spends", "unwind lineage", "reseed"}
WriteSteps == {"hits", "utxos", "lineage", "dispatch", "spends", "dispatch spends", "checkpoint"}

Below(low, high) == \A b \in low, c \in high : DaaScore[b] < DaaScore[c]

\* The blocks upstream has told of, those of the notification being applied, and
\* those promoted but not yet written.
Line    == Range(chain) \cup announced
Pending == {todo[i].block : i \in DOMAIN todo}
Queued  == UNION Range(writes)

\* Of the recorded blocks: those about to be unwound, the one being written, the rest.
Doomed  == IF pc = "apply" THEN unwinds ELSE {}
Begun   == IF pc \in WriteSteps THEN {CurrentWrite} ELSE {}
Kept    == recorded \ (Doomed \cup Begun)

\* A table keyed by score, with a highest key.
Keyed(table, Row) ==
    /\ table \in [DOMAIN table -> Row]
    /\ DOMAIN table \subseteq Nat
    /\ \E n \in Nat : \A s \in DOMAIN table : s <= n

TypeOK ==
    /\ committed \subseteq Block /\ probabilistic \subseteq Block /\ finalized = {}
    /\ todo \in Seq(Node!Entry) /\ writes \in Seq(SUBSET Block)
    /\ unwinds \subseteq Block /\ recovery = {}
    /\ chain \in Seq(Block) /\ announced \subseteq Block
    /\ up \in BOOLEAN /\ restarts \in 0 .. MaxRestarts
    /\ pc \in {"apply"} \cup UnwindSteps \cup WriteSteps
    /\ recorded \subseteq Block
    /\ prior \in Seq(Seq(Block)) /\ dispatched \in Seq(Block)
    /\ Keyed(entities, Seq(Block)) /\ Keyed(checkpoints, Seq(Seq(Block)))

\* A stopped node holds nothing.
Stopped ==
    ~up => /\ committed = {} /\ probabilistic = {} /\ todo = <<>> /\ writes = <<>>
           /\ unwinds = {} /\ pc = "apply" /\ restarts # 0

\* At most one block is announced ahead of the chain, and it lies above it.
LineInv ==
    /\ Rising(chain)
    /\ Below(Range(chain), announced)
    /\ \A b, c \in announced : b = c
    /\ \A b \in announced : b \notin UpstreamFinal /\ DaaScore[b] # 0

\* The notification brings the top of the line, in ascending order.
PendingInv ==
    /\ \A i, j \in DOMAIN todo : i < j => DaaScore[todo[i].block] < DaaScore[todo[j].block]
    /\ \A i \in DOMAIN todo : todo[i].final <=> todo[i].block \in UpstreamFinal
    /\ Pending \subseteq Line
    /\ announced # {} => Pending \subseteq announced
    /\ Below(Line \ Pending, Pending)
    /\ todo # <<>> => pc = "apply"

\* Committed blocks lie below probabilistic ones, and together they are the line as far
\* as it has been applied.
MapInv ==
    /\ committed \subseteq Range(chain) \ Pending
    /\ probabilistic \subseteq Line
    /\ Below(committed, probabilistic)
    /\ up /\ restarts = 0 => Line \ Pending \subseteq committed \cup probabilistic

\* Batches wait in ascending order; what the handler works on decides where it is.
QueueInv ==
    /\ \A i \in DOMAIN writes : writes[i] # {}
    /\ \A i, j \in DOMAIN writes : i < j => Below(writes[i], writes[j])
    /\ Queued \subseteq committed
    /\ pc \in WriteSteps => unwinds = {} /\ writes # <<>> /\ CurrentWrite \in recorded
    /\ pc \in UnwindSteps => unwinds # {}

\* What the store keeps lies below everything that is still to be unwound or written.
PileInv ==
    /\ Doomed \subseteq recorded
    /\ Below(Kept, Queued \cup probabilistic \cup Pending \cup unwinds)
    /\ restarts = 0 => Kept = committed \ Queued

\* While upstream respects finality, committed blocks stay on the chain and stay final.
FinalInv ==
    RespectsFinality =>
        /\ unwinds = {}
        /\ \A b \in recorded \cup committed : b \in Range(chain) /\ KnownFinal(b)

\* Checkpoints belong to completed blocks, and the next one continues from the last.
PoiInv ==
    /\ DOMAIN checkpoints \subseteq Scores(Kept \cup Doomed)
    /\ restarts = 0 => Scores(Kept \cup Doomed) \subseteq DOMAIN checkpoints
    /\ PoiChainVerifies
    /\ up /\ unwinds = {} => prior = Latest(checkpoints)

IInv == TypeOK /\ Stopped /\ LineInv /\ PendingInv /\ MapInv /\ QueueInv /\ PileInv
          /\ FinalInv /\ PoiInv

------------------------------------------------------------------------------

\* A set of naturals has a least element.
LEMMA LeastNat ==
    ASSUME NEW S \in SUBSET Nat, S # {}
    PROVE  \E x \in S : \A y \in S : x <= y
  <1>1. PICK x \in S : \A y \in S : ~(<<y, x>> \in OpToRel(<, Nat))
    BY NatLessThanWellFounded, WFMin
  <1>2. \A y \in S : ~(y < x)
    <2> TAKE y \in S
    <2>1. y < x => <<y, x>> \in OpToRel(<, Nat) BY DEF OpToRel
    <2> QED BY <1>1, <2>1
  <1> QED BY <1>2

\* A bounded set of naturals has a greatest element.
LEMMA GreatestNat ==
    ASSUME NEW S \in SUBSET Nat, S # {}, NEW n \in Nat, \A s \in S : s <= n
    PROVE  \E x \in S : \A y \in S : y <= x
  <1> DEFINE Bounds == {m \in Nat : \A s \in S : s <= m}
  <1>1. PICK m \in Bounds : \A k \in Bounds : m <= k
    <2>1. Bounds \in SUBSET Nat /\ n \in Bounds OBVIOUS
    <2> HIDE DEF Bounds
    <2> QED BY <2>1, LeastNat
  <1>2. m \in S
    <2>1. SUFFICES ASSUME m \notin S PROVE FALSE OBVIOUS
    <2>2. \A s \in S : s \in Nat /\ s < m BY <1>1, <2>1
    <2>3. m \in Nat /\ m - 1 \in Int /\ \A s \in S : s <= m - 1 BY <1>1, <2>2
    <2>4. m - 1 \in Nat
      <3>1. PICK s \in S : TRUE OBVIOUS
      <3>2. s \in Nat /\ s <= m - 1 BY <2>2, <2>3
      <3> QED BY <2>3, <3>2
    <2>5. m - 1 \in Bounds BY <2>3, <2>4
    <2> QED BY <1>1, <2>3, <2>5
  <1> QED BY <1>1, <1>2

\* What Min of the community modules chooses.
LEMMA MinFacts ==
    ASSUME NEW S \in SUBSET Nat, S # {}
    PROVE  Min(S) \in S /\ \A y \in S : Min(S) <= y
  BY LeastNat DEF Min

\* What Max of the community modules chooses.
LEMMA MaxFacts ==
    ASSUME NEW S \in SUBSET Nat, S # {}, NEW n \in Nat, \A s \in S : s <= n
    PROVE  Max(S) \in S /\ \A y \in S : y <= Max(S)
  <1>1. \E x \in S : \A y \in S : x >= y
    <2>1. PICK x \in S : \A y \in S : y <= x BY GreatestNat
    <2>2. \A y \in S : x >= y BY <2>1
    <2> QED BY <2>2
  <1>2. Max(S) \in S /\ \A y \in S : Max(S) >= y
    BY <1>1 DEF Max
  <1> QED BY <1>2

\* The latest row of a table is one of its rows.
LEMMA LatestFacts ==
    ASSUME NEW Row, NEW table, Keyed(table, Row), <<>> \in Row
    PROVE  /\ Latest(table) \in Row
           /\ DOMAIN table # {} => /\ Max(DOMAIN table) \in DOMAIN table
                                   /\ \A s \in DOMAIN table : s <= Max(DOMAIN table)
  <1>1. ASSUME DOMAIN table # {}
        PROVE  /\ Max(DOMAIN table) \in DOMAIN table
               /\ \A s \in DOMAIN table : s <= Max(DOMAIN table)
    BY <1>1, MaxFacts DEF Keyed
  <1> QED BY <1>1 DEF Latest, Keyed

\* An upsert sets one row, which is the latest if its key is the highest.
LEMMA UpsertFacts ==
    ASSUME NEW Row, NEW table, Keyed(table, Row), NEW score \in Nat, NEW row \in Row
    PROVE  /\ Keyed(Upsert(table, score, row), Row)
           /\ DOMAIN Upsert(table, score, row) = DOMAIN table \cup {score}
           /\ Upsert(table, score, row)[score] = row
           /\ \A s \in DOMAIN table : s # score => Upsert(table, score, row)[s] = table[s]
           /\ (\A s \in DOMAIN table : s < score) => Latest(Upsert(table, score, row)) = row
  <1> DEFINE new == Upsert(table, score, row)
  <1>1. /\ DOMAIN new = DOMAIN table \cup {score}
        /\ \A s \in DOMAIN new : new[s] = IF s = score THEN row ELSE table[s]
    BY DEF Upsert
  <1>2. new \in [DOMAIN new -> Row]
    BY DEF Upsert, Keyed
  <1>3. PICK n \in Nat : \A s \in DOMAIN table : s <= n BY DEF Keyed
  <1>4. \E m \in Nat : \A s \in DOMAIN new : s <= m
    <2>1. n + score \in Nat /\ \A s \in DOMAIN new : s <= n + score
      BY <1>1, <1>3 DEF Keyed
    <2> HIDE DEF new
    <2> QED BY <2>1
  <1>5. DOMAIN new \subseteq Nat BY <1>1 DEF Keyed
  <1>6. ASSUME \A s \in DOMAIN table : s < score
        PROVE  Latest(new) = row
    <2> HIDE DEF new
    <2>1. DOMAIN new # {} BY <1>1
    <2>2. Max(DOMAIN new) \in DOMAIN new /\ \A s \in DOMAIN new : s <= Max(DOMAIN new)
      BY <1>4, <1>5, <2>1, MaxFacts
    <2>3. Max(DOMAIN new) = score BY <1>1, <1>5, <1>6, <2>2
    <2> QED BY <1>1, <2>1, <2>2, <2>3 DEF Latest
  <1> HIDE DEF new
  <1> QED BY <1>1, <1>2, <1>4, <1>5, <1>6 DEF Keyed, new

\* Clearing a table down to some keys keeps the rows of those keys.
LEMMA RestrictFacts ==
    ASSUME NEW Row, NEW table, Keyed(table, Row), NEW D \in SUBSET DOMAIN table
    PROVE  /\ Keyed(Restrict(table, D), Row)
           /\ DOMAIN Restrict(table, D) = D
           /\ \A s \in D : Restrict(table, D)[s] = table[s]
  <1>1. DOMAIN Restrict(table, D) = D BY DEF Restrict
  <1>2. Restrict(table, D) \in [D -> Row] BY DEF Restrict, Keyed
  <1> QED BY <1>1, <1>2 DEF Keyed, Restrict

------------------------------------------------------------------------------

USE IndexerAssumption

\* No block of an ascending chain is above its tip.
LEMMA TipFacts ==
    ASSUME NEW seq \in Seq(Block), Rising(seq), NEW b \in Range(seq)
    PROVE  /\ seq # <<>> /\ Tip(seq) \in Nat /\ DaaScore[b] <= Tip(seq)
           /\ seq[Len(seq)] \in Range(seq) /\ Tip(seq) = DaaScore[seq[Len(seq)]]
  <1>1. PICK i \in DOMAIN seq : b = seq[i] BY DEF Range
  <1>2. DOMAIN seq = 1 .. Len(seq) /\ Len(seq) \in Nat /\ i \in 1 .. Len(seq)
    BY <1>1
  <1>3. /\ Len(seq) \in DOMAIN seq /\ i <= Len(seq)
        /\ seq[Len(seq)] \in Block /\ seq[i] \in Block /\ seq # <<>>
    BY <1>2
  <1>4. DaaScore[b] <= DaaScore[seq[Len(seq)]]
    BY <1>1, <1>3 DEF Rising
  <1> QED BY <1>3, <1>4 DEF Tip, Range

\* Replacing the suffix of an ascending chain: what stays lies below what is dropped and
\* below what is added.
LEMMA NextChain ==
    ASSUME chain \in Seq(Block), Rising(chain),
           NEW keep \in 0 .. Len(chain), NEW suffix \in Seq(Block),
           Rising(SubSeq(chain, 1, keep) \o suffix)
    PROVE  LET next    == SubSeq(chain, 1, keep) \o suffix
               dropped == {chain[i] : i \in keep + 1 .. Len(chain)}
           IN  /\ next \in Seq(Block)
               /\ Range(next) = (Range(chain) \ dropped) \cup Range(suffix)
               /\ Below(Range(chain) \ dropped, Range(suffix) \cup dropped)
               /\ Rising(suffix)
  <1> DEFINE low     == SubSeq(chain, 1, keep)
             next    == low \o suffix
             dropped == {chain[i] : i \in keep + 1 .. Len(chain)}
  <1>1. /\ low \in Seq(Block) /\ Len(low) = keep /\ DOMAIN low = 1 .. keep
        /\ \A i \in 1 .. keep : low[i] = chain[i]
    OBVIOUS
  <1>2. /\ next \in Seq(Block) /\ Len(next) = keep + Len(suffix)
        /\ \A i \in 1 .. keep : next[i] = chain[i]
        /\ \A i \in DOMAIN suffix : keep + i \in DOMAIN next /\ next[keep + i] = suffix[i]
        /\ \A i \in DOMAIN next : i \in 1 .. keep \/ i - keep \in DOMAIN suffix
    <2> HIDE DEF low
    <2> QED BY <1>1, SMTT(30)
  <1> HIDE DEF next, low
  <1>3. /\ DOMAIN chain = 1 .. Len(chain) /\ DOMAIN next = 1 .. keep + Len(suffix)
        /\ DOMAIN suffix = 1 .. Len(suffix) /\ Len(suffix) \in Nat /\ keep \in Nat
    BY <1>2
  <1>4. Range(chain) \ dropped = {chain[i] : i \in 1 .. keep}
    <2>1. \A i \in 1 .. keep : chain[i] \notin dropped
      <3> SUFFICES ASSUME NEW i \in 1 .. keep, NEW j \in keep + 1 .. Len(chain),
                          chain[i] = chain[j]
                   PROVE  FALSE
        OBVIOUS
      <3>1. i \in DOMAIN chain /\ j \in DOMAIN chain /\ i < j BY <1>3
      <3>2. DaaScore[chain[i]] < DaaScore[chain[j]] BY <3>1 DEF Rising
      <3>3. chain[i] \in Block BY <3>1
      <3> QED BY <3>2, <3>3
    <2>2. \A i \in DOMAIN chain : i \in 1 .. keep \/ chain[i] \in dropped
      BY <1>3
    <2>3. \A i \in 1 .. keep : i \in DOMAIN chain BY <1>3
    <2> HIDE DEF dropped
    <2> QED BY <2>1, <2>2, <2>3 DEF Range
  <1>5. Range(next) = {chain[i] : i \in 1 .. keep} \cup Range(suffix)
    <2>1. ASSUME NEW i \in DOMAIN next
          PROVE  next[i] \in {chain[j] : j \in 1 .. keep} \cup Range(suffix)
      <3>1. CASE i \in 1 .. keep BY <1>2, <3>1
      <3>2. CASE i - keep \in DOMAIN suffix
        <4>1. next[keep + (i - keep)] = suffix[i - keep] BY <1>2, <3>2
        <4>2. keep + (i - keep) = i BY <1>3
        <4> QED BY <3>2, <4>1, <4>2 DEF Range
      <3> QED BY <1>2, <3>1, <3>2
    <2>2. \A i \in 1 .. keep : i \in DOMAIN next /\ chain[i] = next[i] BY <1>2, <1>3
    <2>3. \A i \in DOMAIN suffix : keep + i \in DOMAIN next /\ suffix[i] = next[keep + i]
      BY <1>2
    <2> QED BY <2>1, <2>2, <2>3, SMTT(30) DEF Range
  <1>6. Below({chain[i] : i \in 1 .. keep}, Range(suffix))
    <2> SUFFICES ASSUME NEW i \in 1 .. keep, NEW j \in DOMAIN suffix
                 PROVE  DaaScore[chain[i]] < DaaScore[suffix[j]]
      BY DEF Below, Range
    <2>1. i \in DOMAIN next /\ keep + j \in DOMAIN next /\ i < keep + j BY <1>2, <1>3, SMTT(30)
    <2>2. DaaScore[next[i]] < DaaScore[next[keep + j]]
      BY <2>1 DEF Rising, next, low
    <2> QED BY <1>2, <2>2
  <1>7. Below({chain[i] : i \in 1 .. keep}, dropped)
    <2> SUFFICES ASSUME NEW i \in 1 .. keep, NEW j \in keep + 1 .. Len(chain)
                 PROVE  DaaScore[chain[i]] < DaaScore[chain[j]]
      BY DEF Below
    <2>1. i \in DOMAIN chain /\ j \in DOMAIN chain /\ i < j BY <1>3
    <2> QED BY <2>1 DEF Rising
  <1>8. Rising(suffix)
    <2> SUFFICES ASSUME NEW i \in DOMAIN suffix, NEW j \in DOMAIN suffix, i < j
                 PROVE  DaaScore[suffix[i]] < DaaScore[suffix[j]]
      BY DEF Rising
    <2>1. keep + i \in DOMAIN next /\ keep + j \in DOMAIN next /\ keep + i < keep + j
      BY <1>2, <1>3
    <2>2. DaaScore[next[keep + i]] < DaaScore[next[keep + j]]
      BY <2>1 DEF Rising, next, low
    <2> QED BY <1>2, <2>2
  <1> QED BY <1>2, <1>4, <1>5, <1>6, <1>7, <1>8 DEF Below, next, low

\* No two blocks of the line share a score.
LEMMA LineUnique ==
    ASSUME TypeOK, LineInv
    PROVE  /\ Line \subseteq Block
           /\ \A b, c \in Line : DaaScore[b] = DaaScore[c] => b = c
  <1>1. Line \subseteq Block
    BY DEF TypeOK, Line, Range
  <1>2. \A b, c \in Range(chain) : DaaScore[b] = DaaScore[c] => b = c
    <2> SUFFICES ASSUME NEW i \in DOMAIN chain, NEW j \in DOMAIN chain,
                        DaaScore[chain[i]] = DaaScore[chain[j]]
                 PROVE  chain[i] = chain[j]
      BY DEF Range
    <2>1. i \in Nat /\ j \in Nat /\ chain[i] \in Block /\ chain[j] \in Block
      BY DEF TypeOK
    <2>2. ~(i < j) /\ ~(j < i) BY <2>1 DEF LineInv, Rising
    <2> QED BY <2>1, <2>2
  <1>3. \A b \in Range(chain), c \in announced : DaaScore[b] # DaaScore[c]
    <2>1. Range(chain) \subseteq Block /\ announced \subseteq Block BY <1>1 DEF Line
    <2> QED BY <2>1 DEF LineInv, Below
  <1> QED BY <1>1, <1>2, <1>3 DEF Line, LineInv

\* Taking the next block of a notification.
LEMMA NextPending ==
    ASSUME TypeOK, PendingInv, todo # <<>>, todo' = Tail(todo)
    PROVE  LET x == Head(todo).block
           IN  /\ x \in Pending /\ x \in Block
               /\ Head(todo).final \in BOOLEAN
               /\ Head(todo).final <=> x \in UpstreamFinal
               /\ todo' \in Seq(Node!Entry)
               /\ Pending' = Pending \ {x}
               /\ Below({x}, Pending')
               /\ \A i, j \in DOMAIN todo' :
                     i < j => DaaScore[todo'[i].block] < DaaScore[todo'[j].block]
               /\ \A i \in DOMAIN todo' : todo'[i].final <=> todo'[i].block \in UpstreamFinal
  <1> DEFINE x == Head(todo).block
  <1>1. /\ todo \in Seq(Node!Entry) /\ Len(todo) \in Nat /\ 1 \in DOMAIN todo
        /\ DOMAIN todo = 1 .. Len(todo) /\ Head(todo) = todo[1]
    BY DEF TypeOK
  <1>2. /\ todo' \in Seq(Node!Entry) /\ DOMAIN todo' = 1 .. Len(todo) - 1
        /\ \A i \in DOMAIN todo' : i + 1 \in DOMAIN todo /\ todo'[i] = todo[i + 1]
    BY <1>1
  <1>3. /\ \A i \in DOMAIN todo : todo[i].block \in Block /\ todo[i].final \in BOOLEAN
        /\ x = todo[1].block
    <2>1. \A i \in DOMAIN todo : todo[i] \in Node!Entry BY <1>1
    <2> QED BY <1>1, <2>1 DEF Node!Entry
  <1>4. \A i \in DOMAIN todo' : DaaScore[x] < DaaScore[todo'[i].block]
    BY <1>1, <1>2, <1>3 DEF PendingInv
  <1>5. \A i \in DOMAIN todo : i # 1 => i - 1 \in DOMAIN todo' /\ todo[i] = todo'[i - 1]
    BY <1>1, <1>2
  <1>6. Pending' = Pending \ {x}
    <2>1. Pending' = {todo'[i].block : i \in DOMAIN todo'} BY DEF Pending
    <2>2. \A i \in DOMAIN todo' : todo'[i].block \in Pending /\ todo'[i].block # x
      <3> TAKE i \in DOMAIN todo'
      <3>1. todo'[i].block = todo[i + 1].block /\ i + 1 \in DOMAIN todo BY <1>2
      <3>2. todo'[i].block \in Block BY <3>1, <1>3
      <3>3. DaaScore[x] \in Nat BY <1>1, <1>3
      <3> QED BY <1>4, <3>1, <3>2, <3>3 DEF Pending
    <2>3. \A b \in Pending : b = x \/ \E i \in DOMAIN todo' : b = todo'[i].block
      BY <1>3, <1>5 DEF Pending
    <2> HIDE DEF x
    <2> QED BY <2>1, <2>2, <2>3
  <1>7. \A i, j \in DOMAIN todo' :
           i < j => DaaScore[todo'[i].block] < DaaScore[todo'[j].block]
    <2> SUFFICES ASSUME NEW i \in DOMAIN todo', NEW j \in DOMAIN todo', i < j
                 PROVE  DaaScore[todo'[i].block] < DaaScore[todo'[j].block]
      OBVIOUS
    <2>1. i + 1 \in DOMAIN todo /\ j + 1 \in DOMAIN todo /\ i + 1 < j + 1 BY <1>1, <1>2
    <2>2. DaaScore[todo[i + 1].block] < DaaScore[todo[j + 1].block]
      BY <2>1 DEF PendingInv
    <2> QED BY <1>2, <2>2
  <1>8. Below({x}, Pending')
    <2>1. Pending' = {todo'[i].block : i \in DOMAIN todo'} BY DEF Pending
    <2> QED BY <1>4, <2>1 DEF Below
  <1>9. x \in Pending /\ x \in Block /\ Head(todo).final \in BOOLEAN
    BY <1>1, <1>3 DEF Pending
  <1>10. \A i \in DOMAIN todo' : todo'[i].final <=> todo'[i].block \in UpstreamFinal
    BY <1>2 DEF PendingInv
  <1>11. Head(todo).final <=> x \in UpstreamFinal
    BY <1>1 DEF PendingInv
  <1> QED BY <1>2, <1>6, <1>7, <1>8, <1>9, <1>10, <1>11

\* Taking the lowest block off the queue of writes.
LEMMA RestFacts ==
    ASSUME TypeOK, LineInv, MapInv, QueueInv, writes # <<>>
    PROVE  /\ CurrentWrite \in Queued /\ CurrentWrite \in Block
           /\ Below({CurrentWrite}, Queued \ {CurrentWrite})
           /\ RestOfWrites \in Seq(SUBSET Block)
           /\ UNION Range(RestOfWrites) = Queued \ {CurrentWrite}
           /\ \A i \in DOMAIN RestOfWrites : RestOfWrites[i] # {}
           /\ \A i, j \in DOMAIN RestOfWrites :
                 i < j => Below(RestOfWrites[i], RestOfWrites[j])
  <1> DEFINE head == Head(writes)
             cw   == CurrentWrite
             rest == RestOfWrites
  <1>1. /\ writes \in Seq(SUBSET Block) /\ 1 \in DOMAIN writes /\ Len(writes) \in Nat
        /\ DOMAIN writes = 1 .. Len(writes) /\ head = writes[1] /\ head \subseteq Block
        /\ head # {}
    BY DEF TypeOK, QueueInv
  <1>2. cw \in head /\ \A c \in head : DaaScore[cw] <= DaaScore[c]
    <2>1. PICK n \in Scores(head) : \A m \in Scores(head) : n <= m
      <3>1. Scores(head) \in SUBSET Nat /\ Scores(head) # {} BY <1>1 DEF Scores
      <3> QED BY <3>1, LeastNat
    <2>2. \E b \in head : \A c \in head : DaaScore[b] <= DaaScore[c]
      BY <2>1 DEF Scores
    <2> HIDE DEF head
    <2> QED BY <2>2 DEF CurrentWrite, head
  <1>3. head \subseteq Queued /\ cw \in Queued /\ cw \in Block
    BY <1>1, <1>2 DEF Queued, Range
  <1> HIDE DEF head, cw, rest
  <1>4. Queued \subseteq Line /\ Queued \subseteq Block
    <2>1. Queued \subseteq Line BY DEF QueueInv, MapInv, Line
    <2> QED BY <2>1, LineUnique
  <1>5. \A i \in DOMAIN writes : i = 1 \/ Below(head, writes[i])
    BY <1>1 DEF QueueInv
  <1>6. Below({cw}, Queued \ {cw})
    <2> SUFFICES ASSUME NEW c \in Queued, c # cw
                 PROVE  DaaScore[cw] < DaaScore[c]
      BY DEF Below
    <2>1. PICK i \in DOMAIN writes : c \in writes[i] BY DEF Queued, Range
    <2>2. CASE i = 1
      <3>1. DaaScore[cw] <= DaaScore[c] /\ DaaScore[cw] # DaaScore[c]
        BY <1>1, <1>2, <1>3, <1>4, <2>1, <2>2, LineUnique
      <3>2. DaaScore[cw] \in Nat /\ DaaScore[c] \in Nat BY <1>3, <1>4
      <3> QED BY <3>1, <3>2
    <2>3. CASE i # 1
      BY <1>2, <1>5, <2>1, <2>3 DEF Below
    <2> QED BY <2>2, <2>3
  <1>7. /\ Tail(writes) \in Seq(SUBSET Block)
        /\ DOMAIN Tail(writes) = 1 .. Len(writes) - 1
        /\ \A i \in DOMAIN Tail(writes) :
              i + 1 \in DOMAIN writes /\ Tail(writes)[i] = writes[i + 1]
        /\ \A i \in DOMAIN writes : i # 1 => /\ i - 1 \in DOMAIN Tail(writes)
                                             /\ writes[i] = Tail(writes)[i - 1]
    BY <1>1
  <1>8. UNION Range(Tail(writes)) = Queued \ head
    <2>1. \A i \in DOMAIN Tail(writes) : \A b \in Tail(writes)[i] : b \in Queued /\ b \notin head
      <3> SUFFICES ASSUME NEW i \in DOMAIN Tail(writes), NEW b \in Tail(writes)[i]
                   PROVE  b \in Queued /\ b \notin head
        OBVIOUS
      <3>1. i + 1 \in DOMAIN writes /\ b \in writes[i + 1] /\ i + 1 # 1 BY <1>7
      <3>2. b \in Queued BY <3>1 DEF Queued, Range
      <3>3. b \notin head
        <4>1. Below(head, writes[i + 1]) BY <3>1, <1>5
        <4>2. DaaScore[b] \in Nat BY <1>4, <3>2
        <4> QED BY <3>1, <4>1, <4>2 DEF Below
      <3> QED BY <3>2, <3>3
    <2>2. \A b \in Queued : b \in head \/ \E i \in DOMAIN Tail(writes) : b \in Tail(writes)[i]
      <3> TAKE b \in Queued
      <3>1. PICK i \in DOMAIN writes : b \in writes[i] BY DEF Queued, Range
      <3> QED BY <1>1, <1>7, <3>1
    <2> QED BY <2>1, <2>2 DEF Range
  <1>9. CASE head = {cw}
    <2>1. rest = Tail(writes) BY <1>9 DEF rest, RestOfWrites, head, cw
    <2>2. \A i \in DOMAIN rest : rest[i] # {} BY <1>7, <2>1 DEF QueueInv
    <2>3. \A i, j \in DOMAIN rest : i < j => Below(rest[i], rest[j])
      <3> SUFFICES ASSUME NEW i \in DOMAIN rest, NEW j \in DOMAIN rest, i < j
                   PROVE  Below(rest[i], rest[j])
        OBVIOUS
      <3>1. i + 1 \in DOMAIN writes /\ j + 1 \in DOMAIN writes /\ i + 1 < j + 1
        BY <1>1, <1>7, <2>1
      <3> QED BY <3>1, <1>7, <2>1 DEF QueueInv
    <2> QED BY <1>3, <1>6, <1>7, <1>8, <1>9, <2>1, <2>2, <2>3 DEF cw, rest
  <1>10. CASE head # {cw}
    <2> DEFINE left == head \ {cw}
    <2>1. rest = <<left>> \o Tail(writes) BY <1>10 DEF rest, RestOfWrites, head, cw
    <2>2. /\ rest \in Seq(SUBSET Block) /\ DOMAIN rest = DOMAIN writes
          /\ rest[1] = left
          /\ \A i \in DOMAIN writes : i # 1 => rest[i] = writes[i]
      <3>1. left \in SUBSET Block BY <1>1
      <3> HIDE DEF left
      <3>2. /\ rest \in Seq(SUBSET Block) /\ rest[1] = left /\ Len(rest) = Len(writes)
            /\ \A i \in 1 .. Len(writes) - 1 : rest[i + 1] = Tail(writes)[i]
        BY <1>1, <1>7, <2>1, <3>1
      <3>3. ASSUME NEW i \in DOMAIN writes, i # 1 PROVE rest[i] = writes[i]
        <4>1. i - 1 \in 1 .. Len(writes) - 1 /\ (i - 1) + 1 = i BY <1>1, <3>3
        <4>2. rest[(i - 1) + 1] = Tail(writes)[i - 1] BY <3>2, <4>1
        <4> QED BY <1>7, <3>3, <4>1, <4>2
      <3>4. DOMAIN rest = DOMAIN writes BY <1>1, <3>2
      <3> QED BY <3>2, <3>3, <3>4
    <2>3. \A i \in DOMAIN rest : rest[i] # {}
      BY <1>2, <1>10, <2>2 DEF QueueInv
    <2>4. \A i \in DOMAIN rest : rest[i] \subseteq writes[i] BY <1>1, <2>2
    <2>5. \A i, j \in DOMAIN rest : i < j => Below(rest[i], rest[j])
      BY <2>2, <2>4 DEF QueueInv, Below
    <2>6. UNION Range(rest) = Queued \ {cw}
      <3>1. \A i \in DOMAIN rest : \A b \in rest[i] : b \in Queued /\ b # cw
        <4> SUFFICES ASSUME NEW i \in DOMAIN rest, NEW b \in rest[i]
                     PROVE  b \in Queued /\ b # cw
          OBVIOUS
        <4>1. b \in Queued BY <2>2, <2>4 DEF Queued, Range
        <4>2. CASE i = 1 BY <2>2, <4>1, <4>2
        <4>3. CASE i # 1
          <5>1. Below(head, writes[i]) /\ b \in writes[i] BY <1>5, <2>2, <4>3
          <5>2. DaaScore[b] \in Nat BY <1>4, <4>1
          <5>3. DaaScore[cw] < DaaScore[b] BY <1>2, <5>1 DEF Below
          <5> QED BY <4>1, <5>2, <5>3
        <4> QED BY <4>2, <4>3
      <3>2. \A b \in Queued : b = cw \/ \E i \in DOMAIN rest : b \in rest[i]
        BY <1>1, <2>2 DEF Queued, Range
      <3> QED BY <3>1, <3>2 DEF Range
    <2> QED BY <1>3, <1>6, <2>2, <2>3, <2>5, <2>6 DEF cw, rest
  <1> QED BY <1>9, <1>10

Buffered(x) == {p \in probabilistic : DaaScore[p] < DaaScore[x]} \cup {x}

\* What apply_block does to the maps when no two blocks of the line share a score:
\* nothing is overwritten, no flag outlives the step, and what is promoted is
\* a prefix of what is buffered.
LEMMA PromoteFacts ==
    ASSUME TypeOK, LineInv, PendingInv, MapInv, Node!BufferAndPromote
    PROVE  \E promoted \in SUBSET Block :
              /\ promoted \subseteq Buffered(Head(todo).block)
              /\ probabilistic' = Buffered(Head(todo).block) \ promoted
              /\ finalized' = {}
              /\ committed' = committed \cup promoted
              /\ writes' = IF promoted = {} THEN writes ELSE Append(writes, promoted)
              /\ Below(promoted, probabilistic')
              /\ \A c \in promoted :
                    \/ DaaScore[c] = 0
                    \/ Head(todo).final /\ DaaScore[c] <= DaaScore[Head(todo).block]
                    \/ Node!BelowCutoff(c, Head(todo).block)
  <1> DEFINE x        == Head(todo).block
             final    == Head(todo).final
             buffered == Node!Put(Node!Survivors(x), {x})
             flags    == {p \in buffered : \/ p # x /\ p \in finalized
                                           \/ p = x /\ final
                                           \/ Node!BelowCutoff(p, x)}
             highest  == Node!Promotable(buffered, flags)
             promoted == IF final \/ FinalityDepth # 0 THEN highest ELSE {}
  <1>1. /\ probabilistic' = buffered \ promoted
        /\ finalized' = flags \ promoted
        /\ committed' = Node!Put(committed, promoted)
        /\ writes' = IF promoted = {} THEN writes ELSE Append(writes, promoted)
        /\ todo # <<>> /\ todo' = Tail(todo)
    BY DEF Node!BufferAndPromote
  <1>2. x \in Block /\ x \in Pending /\ final \in BOOLEAN
    BY <1>1, NextPending
  <1>3. finalized = {} /\ probabilistic \subseteq Block /\ committed \subseteq Block
    BY DEF TypeOK
  <1> HIDE DEF x, final
  <1>4. buffered = Buffered(x)
    BY <1>2, <1>3 DEF Node!Put, Node!Survivors, Node!SameScore, Buffered
  <1>5. buffered \subseteq Block BY <1>2, <1>3, <1>4 DEF Buffered
  <1>6. promoted \subseteq highest /\ highest \subseteq buffered
    BY DEF Node!Promotable
  <1>7. flags \subseteq buffered OBVIOUS
  <1>8. flags \subseteq highest
    <2> HIDE DEF buffered, flags
    <2>1. \A q \in flags : q \in buffered /\ DaaScore[q] <= DaaScore[q] BY <1>5, <1>7
    <2> QED BY <2>1 DEF Node!Promotable
  <1>9. Below(highest, buffered \ highest)
    <2> SUFFICES ASSUME NEW c \in highest, NEW p \in buffered \ highest
                 PROVE  DaaScore[c] < DaaScore[p]
      BY DEF Below
    <2>1. DaaScore[p] # 0 /\ \A q \in flags : ~(DaaScore[p] <= DaaScore[q])
      BY DEF Node!Promotable
    <2>2. DaaScore[c] = 0 \/ \E q \in flags : DaaScore[c] <= DaaScore[q]
      BY DEF Node!Promotable
    <2>3. /\ DaaScore[c] \in Nat /\ DaaScore[p] \in Nat
          /\ \A q \in flags : DaaScore[q] \in Nat
      BY <1>5, <1>6, <1>7
    <2> HIDE DEF buffered, flags, highest
    <2> QED BY <2>1, <2>2, <2>3
  <1>10. ASSUME NEW c \in highest, DaaScore[c] # 0
         PROVE  \/ final /\ DaaScore[c] <= DaaScore[x]
                \/ Node!BelowCutoff(c, x)
    <2>1. PICK q \in flags : DaaScore[c] <= DaaScore[q]
      BY <1>10 DEF Node!Promotable
    <2>2. CASE q = x /\ final
      BY <2>1, <2>2
    <2>3. CASE Node!BelowCutoff(q, x)
      <3>1. DaaScore[c] \in Nat /\ DaaScore[q] \in Nat /\ DaaScore[x] \in Nat
        BY <1>2, <1>5, <1>6, <1>7
      <3>2. Node!BelowCutoff(c, x)
        BY <2>1, <2>3, <3>1 DEF Node!BelowCutoff
      <3> QED BY <3>2
    <2> QED BY <1>3, <2>1, <2>2, <2>3
  <1>11. \/ promoted = highest
         \/ promoted = {} /\ flags = {}
    BY <1>3 DEF Node!BelowCutoff
  <1> HIDE DEF buffered, flags, highest, promoted
  <1>12. finalized' = {} BY <1>1, <1>8, <1>11
  <1>13. Below(promoted, probabilistic') BY <1>1, <1>9, <1>11 DEF Below
  <1>14. committed' = committed \cup promoted
    <2>1. \A c \in committed, p \in buffered : DaaScore[c] # DaaScore[p]
      <3> SUFFICES ASSUME NEW c \in committed, NEW p \in buffered
                   PROVE  DaaScore[c] < DaaScore[p]
        BY <1>3, <1>5
      <3>1. CASE p \in probabilistic BY <3>1 DEF MapInv, Below
      <3>2. CASE p = x
        <4>1. c \in Line \ Pending BY DEF MapInv, Line
        <4> QED BY <1>2, <3>2, <4>1 DEF PendingInv, Below
      <3> QED BY <1>4, <3>1, <3>2 DEF Buffered
    <2>2. \A c \in committed, n \in promoted : ~Node!SameScore(n, c)
      BY <1>6, <2>1 DEF Node!SameScore
    <2> QED BY <1>1, <2>2 DEF Node!Put
  <1>15. promoted \in SUBSET Block /\ promoted \subseteq Buffered(x)
    BY <1>4, <1>5, <1>6
  <1>16. \A c \in promoted : \/ DaaScore[c] = 0
                             \/ final /\ DaaScore[c] <= DaaScore[x]
                             \/ Node!BelowCutoff(c, x)
    BY <1>6, <1>10
  <1> QED BY <1>1, <1>4, <1>12, <1>13, <1>14, <1>15, <1>16 DEF x, final

\* Store calls do not disturb what memory holds.
LEMMA MemoryKept ==
    ASSUME LineInv, PendingInv, MapInv,
           UNCHANGED <<committed, probabilistic, todo, upstreamVars, up, restarts>>,
           todo # <<>> => pc' = "apply"
    PROVE  LineInv' /\ PendingInv' /\ MapInv'
  <1>1. UNCHANGED <<Line, Pending, Range(chain), Rising(chain)>>
    BY DEF Line, Pending, upstreamVars, Range, Rising
  <1>2. LineInv' BY <1>1 DEF LineInv, upstreamVars, Below, Range
  <1>3. PendingInv' BY <1>1 DEF PendingInv, upstreamVars, Below
  <1>4. MapInv' BY <1>1 DEF MapInv, upstreamVars, Below
  <1> QED BY <1>2, <1>3, <1>4

\* FinalInv survives a step that records and commits nothing new.
LEMMA FinalKept ==
    ASSUME FinalInv, UNCHANGED <<chain, announced>>,
           RespectsFinality => /\ unwinds' = {}
                              /\ recorded' \cup committed' \subseteq recorded \cup committed
    PROVE  FinalInv'
  BY DEF FinalInv, KnownFinal

\* The chain of checkpoints verifies as long as it is not touched.
LEMMA VerifiesKept ==
    ASSUME PoiChainVerifies, checkpoints' = checkpoints
    PROVE  PoiChainVerifies'
  BY DEF PoiChainVerifies

\* The head of the chain of checkpoints stays as long as it is not touched.
LEMMA LatestKept ==
    ASSUME checkpoints' = checkpoints
    PROVE  Latest(checkpoints)' = Latest(checkpoints)
  BY DEF Latest

\* A store call that touches only derived tables keeps the invariant.
LEMMA SilentStep ==
    ASSUME IInv, up,
           UNCHANGED <<committed, probabilistic, finalized, todo, writes, unwinds, recovery,
                       upstreamVars, up, restarts, prior, recorded, checkpoints>>,
           \/ pc \in UnwindSteps /\ pc' \in UnwindSteps
           \/ pc \in WriteSteps /\ pc' \in WriteSteps,
           Keyed(entities', Seq(Block)), dispatched' \in Seq(Block)
    PROVE  IInv'
  <1>1. pc # "apply" /\ pc' # "apply" BY DEF UnwindSteps, WriteSteps
  <1>2. UNCHANGED <<Queued, CurrentWrite, Doomed, Begun>>
    BY <1>1 DEF Queued, CurrentWrite, Doomed, Begun, UnwindSteps, WriteSteps
  <1>3. Kept' = Kept BY <1>2 DEF Kept
  <1>4. TypeOK'
    <2>1. Keyed(checkpoints, Seq(Seq(Block)))' BY DEF IInv, TypeOK, Keyed
    <2> QED BY <2>1 DEF IInv, TypeOK, upstreamVars
  <1>5. Stopped' BY DEF Stopped
  <1>6. LineInv' /\ PendingInv' /\ MapInv'
    BY <1>1, MemoryKept DEF IInv, PendingInv
  <1>7. QueueInv'
    BY <1>1, <1>2 DEF IInv, QueueInv, Below, UnwindSteps, WriteSteps
  <1>8. PileInv'
    BY <1>2, <1>3 DEF IInv, PileInv, Below, Pending
  <1>9. FinalInv' BY FinalKept DEF IInv, FinalInv, upstreamVars
  <1>10. PoiInv'
    <2>1. PoiChainVerifies' /\ Latest(checkpoints)' = Latest(checkpoints)
      BY VerifiesKept, LatestKept DEF IInv, PoiInv
    <2> QED BY <1>2, <1>3, <2>1 DEF IInv, PoiInv, Scores
  <1> QED BY <1>4, <1>5, <1>6, <1>7, <1>8, <1>9, <1>10 DEF IInv

\* Unwinding takes a part off the top of the recorded blocks, with its checkpoints.
LEMMA UnwindCommittedStep ==
    ASSUME IInv, UnwindCommitted
    PROVE  /\ IInv'
           /\ unwinds # {} /\ unwinds \subseteq recorded
           /\ recorded' = recorded \ unwinds
           /\ Below(recorded', unwinds)
           /\ checkpoints' = Restrict(checkpoints, DOMAIN checkpoints \ Scores(unwinds))
  <1>1. /\ up /\ pc = "apply" /\ pc' = "unwind entities" /\ todo = <<>> /\ unwinds # {}
        /\ UNCHANGED <<committed, probabilistic, finalized, todo, recovery, chain, announced,
                       up, restarts, writes, unwinds, prior, dispatched, entities>>
        /\ UNCHANGED upstreamVars
    BY DEF UnwindCommitted, Step, upstreamVars
  <1>2. /\ Doomed = unwinds /\ Begun = {} /\ Kept = recorded \ unwinds
        /\ Doomed' = {} /\ Begun' = {}
    BY <1>1 DEF Doomed, Begun, Kept, WriteSteps
  <1>3. unwinds \subseteq recorded BY <1>2 DEF IInv, PileInv
  <1>4. recorded' = recorded \ unwinds /\ Kept' = Kept
    BY <1>2, <1>3 DEF UnwindCommitted, Kept
  <1>5. checkpoints' = Restrict(checkpoints, DOMAIN checkpoints \ Scores(unwinds))
    <2>1. unwinds \cap recorded = unwinds BY <1>3
    <2> QED BY <2>1 DEF UnwindCommitted
  <1>6. /\ Keyed(checkpoints', Seq(Seq(Block)))
        /\ DOMAIN checkpoints' = DOMAIN checkpoints \ Scores(unwinds)
        /\ \A s \in DOMAIN checkpoints' : checkpoints'[s] = checkpoints[s]
    <2>1. Keyed(checkpoints, Seq(Seq(Block))) BY DEF IInv, TypeOK
    <2> QED BY <1>5, <2>1, RestrictFacts
  <1>7. Below(Kept, unwinds) BY DEF IInv, PileInv, Below
  <1>8. \A b \in Kept \cup unwinds : DaaScore[b] \in Nat
    BY DEF IInv, TypeOK, Kept
  <1>9. TypeOK'
    <2>1. Keyed(entities, Seq(Block))' BY <1>1 DEF IInv, TypeOK, Keyed
    <2> QED BY <1>1, <1>4, <1>6, <2>1 DEF IInv, TypeOK, UnwindSteps
  <1>10. Stopped' BY <1>1 DEF Stopped
  <1>11. LineInv' /\ PendingInv' /\ MapInv'
    BY <1>1, MemoryKept DEF IInv
  <1>12. QueueInv'
    BY <1>1 DEF IInv, QueueInv, Queued, Below, WriteSteps
  <1>13. PileInv'
    <2>1. Pending' = Pending /\ Queued' = Queued BY <1>1 DEF Pending, Queued
    <2> QED BY <1>1, <1>2, <1>4, <2>1 DEF IInv, PileInv, Below
  <1>14. FinalInv' BY <1>1, FinalKept DEF IInv, FinalInv
  <1>15. PoiInv'
    <2>1. DOMAIN checkpoints' \subseteq Scores(Kept)
      BY <1>2, <1>6 DEF IInv, PoiInv, Scores
    <2>2. restarts = 0 => Scores(Kept) \subseteq DOMAIN checkpoints'
      <3> SUFFICES ASSUME restarts = 0, NEW b \in Kept
                   PROVE  DaaScore[b] \in DOMAIN checkpoints'
        BY DEF Scores
      <3>1. DaaScore[b] \in DOMAIN checkpoints BY DEF IInv, PoiInv, Scores
      <3>2. DaaScore[b] \notin Scores(unwinds) BY <1>7, <1>8 DEF Below, Scores
      <3> QED BY <1>6, <3>1, <3>2
    <2>3. ASSUME NEW s \in DOMAIN checkpoints'
          PROVE  {r \in DOMAIN checkpoints' : r < s} = {r \in DOMAIN checkpoints : r < s}
      <3>1. PICK b \in Kept : s = DaaScore[b] BY <2>1 DEF Scores
      <3>2. \A u \in unwinds : DaaScore[b] < DaaScore[u] BY <1>7 DEF Below
      <3>3. \A r \in Scores(unwinds) : ~(r < s) BY <1>8, <3>1, <3>2 DEF Scores
      <3> QED BY <1>6, <3>3
    <2>4. PoiChainVerifies'
      <3>1. ASSUME NEW s \in DOMAIN checkpoints',
                   {r \in DOMAIN checkpoints : r < s} # {}
            PROVE  /\ Max({r \in DOMAIN checkpoints : r < s}) \in DOMAIN checkpoints'
        <4> DEFINE below == {r \in DOMAIN checkpoints : r < s}
        <4>1. below = {r \in DOMAIN checkpoints' : r < s} BY <2>3
        <4>2. below \in SUBSET Nat /\ s \in Nat /\ \A r \in below : r <= s
          BY <1>6, SMTT(30) DEF IInv, TypeOK, Keyed
        <4> HIDE DEF below
        <4>3. Max(below) \in below BY <3>1, <4>2, MaxFacts DEF below
        <4> QED BY <4>1, <4>3 DEF below
      <3>2. PoiChainVerifies BY DEF IInv, PoiInv
      <3> QED BY <1>6, <2>3, <3>1, <3>2 DEF PoiChainVerifies
    <2> QED BY <1>1, <1>2, <1>4, <2>1, <2>2, <2>4 DEF PoiInv, Scores
  <1> QED BY <1>1, <1>2, <1>3, <1>4, <1>5, <1>7, <1>9, <1>10, <1>11, <1>12, <1>13, <1>14, <1>15
          DEF IInv

\* After an unwind the POI chain continues from the highest checkpoint left.
LEMMA ReseedStep ==
    ASSUME IInv, Reseed
    PROVE  IInv' /\ UNCHANGED <<recorded, checkpoints>>
  <1>1. /\ up /\ pc = "reseed" /\ pc' = "apply"
        /\ prior' = Latest(checkpoints) /\ unwinds' = {}
        /\ UNCHANGED <<committed, probabilistic, finalized, todo, recovery, chain, announced,
                       up, restarts, writes, dispatched, recorded, entities, checkpoints>>
        /\ UNCHANGED upstreamVars
    BY DEF Reseed, Step, upstreamVars, storeVars
  <1>2. /\ Doomed = {} /\ Begun = {} /\ Doomed' = {} /\ Begun' = {} /\ Kept' = Kept
    BY <1>1 DEF Doomed, Begun, Kept, WriteSteps
  <1>3. TypeOK'
    <2>1. Keyed(entities, Seq(Block))' /\ Keyed(checkpoints, Seq(Seq(Block)))'
      BY <1>1 DEF IInv, TypeOK, Keyed
    <2>2. Latest(checkpoints) \in Seq(Seq(Block))
      <3>1. Keyed(checkpoints, Seq(Seq(Block))) /\ <<>> \in Seq(Seq(Block))
        BY DEF IInv, TypeOK
      <3> QED BY <3>1, LatestFacts
    <2> QED BY <1>1, <2>1, <2>2 DEF IInv, TypeOK
  <1>4. Stopped' BY <1>1 DEF Stopped
  <1>5. LineInv' /\ PendingInv' /\ MapInv' BY <1>1, MemoryKept DEF IInv
  <1>6. QueueInv' BY <1>1 DEF IInv, QueueInv, Queued, Below, WriteSteps, UnwindSteps
  <1>7. PileInv' BY <1>1, <1>2 DEF IInv, PileInv, Below, Pending, Queued
  <1>8. FinalInv' BY <1>1, FinalKept DEF IInv, FinalInv
  <1>9. PoiInv'
    <2>1. PoiChainVerifies' /\ Latest(checkpoints)' = Latest(checkpoints)
      BY <1>1, VerifiesKept, LatestKept DEF IInv, PoiInv
    <2> QED BY <1>1, <1>2, <2>1 DEF IInv, PoiInv, Scores
  <1> QED BY <1>1, <1>3, <1>4, <1>5, <1>6, <1>7, <1>8, <1>9 DEF IInv

\* A block is recorded on top of all others, when the one before it is complete.
LEMMA RecordBlockStep ==
    ASSUME IInv, RecordBlock
    PROVE  /\ IInv'
           /\ CurrentWrite \in Block /\ recorded' = recorded \cup {CurrentWrite}
           /\ Below(recorded, {CurrentWrite}) /\ Kept = recorded /\ Doomed = {}
           /\ checkpoints' = checkpoints
  <1>1. /\ up /\ pc = "apply" /\ pc' = "hits" /\ todo = <<>> /\ unwinds = {} /\ writes # <<>>
        /\ recorded' = recorded \cup {CurrentWrite}
        /\ UNCHANGED <<committed, probabilistic, finalized, todo, recovery, chain, announced,
                       up, restarts, writes, unwinds, prior, dispatched, entities, checkpoints>>
        /\ UNCHANGED upstreamVars
    BY DEF RecordBlock, Step, upstreamVars
  <1>2. CurrentWrite \in Queued /\ CurrentWrite \in Block
    BY <1>1, RestFacts DEF IInv
  <1>3. /\ Doomed = {} /\ Begun = {} /\ Kept = recorded
        /\ CurrentWrite' = CurrentWrite
    BY <1>1 DEF Doomed, Begun, Kept, WriteSteps, CurrentWrite
  <1>4. Below(recorded, {CurrentWrite})
    BY <1>2, <1>3 DEF IInv, PileInv, Below
  <1>5. CurrentWrite \notin recorded
    <2>1. DaaScore[CurrentWrite] \in Nat BY <1>2
    <2> QED BY <1>4, <2>1 DEF Below
  <1>6. Doomed' = {} /\ Begun' = {CurrentWrite} /\ Kept' = Kept
    BY <1>1, <1>3, <1>5 DEF Doomed, Begun, Kept, WriteSteps
  <1>7. TypeOK'
    <2>1. Keyed(entities, Seq(Block))' /\ Keyed(checkpoints, Seq(Seq(Block)))'
      BY <1>1 DEF IInv, TypeOK, Keyed
    <2> QED BY <1>1, <1>2, <2>1 DEF IInv, TypeOK, WriteSteps
  <1>8. Stopped' BY <1>1 DEF Stopped
  <1>9. LineInv' /\ PendingInv' /\ MapInv' BY <1>1, MemoryKept DEF IInv
  <1>10. QueueInv'
    BY <1>1, <1>3 DEF IInv, QueueInv, Queued, Below, UnwindSteps
  <1>11. PileInv' BY <1>1, <1>3, <1>6 DEF IInv, PileInv, Below, Pending, Queued
  <1>12. FinalInv'
    <2>1. CurrentWrite \in committed BY <1>2 DEF IInv, QueueInv
    <2> QED BY <1>1, <2>1, FinalKept DEF IInv, FinalInv
  <1>13. PoiInv'
    <2>1. PoiChainVerifies' /\ Latest(checkpoints)' = Latest(checkpoints)
      BY <1>1, VerifiesKept, LatestKept DEF IInv, PoiInv
    <2> QED BY <1>1, <1>3, <1>6, <2>1 DEF IInv, PoiInv, Scores
  <1> QED BY <1>1, <1>2, <1>3, <1>4, <1>7, <1>8, <1>9, <1>10, <1>11, <1>12, <1>13 DEF IInv

\* The front of a sequence with an element appended is the sequence.
LEMMA AppendFacts ==
    ASSUME NEW Row, NEW seq \in Seq(Row), NEW row \in Row
    PROVE  /\ Append(seq, row) \in Seq(Row) /\ Append(seq, row) # <<>>
           /\ SubSeq(Append(seq, row), 1, Len(Append(seq, row)) - 1) = seq
  <1> DEFINE longer == Append(seq, row)
  <1>1. longer \in Seq(Row) /\ Len(longer) = Len(seq) + 1 /\ Len(seq) \in Nat
    OBVIOUS
  <1>2. \A i \in 1 .. Len(seq) : longer[i] = seq[i] OBVIOUS
  <1>3. Len(longer) - 1 = Len(seq) BY <1>1
  <1> HIDE DEF longer
  <1>4. SubSeq(longer, 1, Len(seq)) = seq
    <2>1. /\ SubSeq(longer, 1, Len(seq)) \in Seq(Row)
          /\ Len(SubSeq(longer, 1, Len(seq))) = Len(seq)
          /\ \A i \in 1 .. Len(seq) : SubSeq(longer, 1, Len(seq))[i] = longer[i]
      BY <1>1
    <2> QED BY <1>1, <1>2, <2>1
  <1>5. longer # <<>> BY <1>1
  <1> QED BY <1>1, <1>3, <1>4, <1>5 DEF longer

\* A checkpoint is published on top of all others and hashes onto the highest of them.
LEMMA WriteCheckpointStep ==
    ASSUME IInv, WriteCheckpoint
    PROVE  /\ IInv'
           /\ CurrentWrite \in recorded /\ DaaScore[CurrentWrite] \notin DOMAIN checkpoints
           /\ \A s \in DOMAIN checkpoints : s < DaaScore[CurrentWrite]
           /\ DOMAIN checkpoints' = DOMAIN checkpoints \cup {DaaScore[CurrentWrite]}
           /\ \A s \in DOMAIN checkpoints : checkpoints'[s] = checkpoints[s]
           /\ Front(checkpoints'[DaaScore[CurrentWrite]]) = Latest(checkpoints)
           /\ recorded' = recorded
  <1> DEFINE cw    == CurrentWrite
             score == DaaScore[cw]
  <1>1. /\ up /\ pc = "checkpoint" /\ pc' = "apply"
        /\ prior' = Append(prior, dispatched)
        /\ checkpoints' = Upsert(checkpoints, score, prior')
        /\ writes' = RestOfWrites /\ dispatched' = <<>>
        /\ UNCHANGED <<committed, probabilistic, finalized, todo, recovery, chain, announced,
                       up, restarts, unwinds, recorded, entities>>
        /\ UNCHANGED upstreamVars
    BY DEF WriteCheckpoint, Step, upstreamVars
  <1>2. /\ unwinds = {} /\ writes # <<>> /\ cw \in recorded
    BY <1>1 DEF IInv, QueueInv, WriteSteps
  <1>3. todo = <<>> /\ Pending = {}
    BY <1>1 DEF IInv, PendingInv, Pending
  <1>4. /\ cw \in Queued /\ cw \in Block /\ Below({cw}, Queued \ {cw})
        /\ writes' \in Seq(SUBSET Block) /\ Queued' = Queued \ {cw}
        /\ \A i \in DOMAIN writes' : writes'[i] # {}
        /\ \A i, j \in DOMAIN writes' : i < j => Below(writes'[i], writes'[j])
    BY <1>1, <1>2, RestFacts DEF IInv, Queued
  <1>5. /\ Doomed = {} /\ Begun = {cw} /\ Kept = recorded \ {cw}
        /\ Doomed' = {} /\ Begun' = {} /\ Kept' = Kept \cup {cw}
    BY <1>1, <1>2 DEF Doomed, Begun, Kept, WriteSteps
  <1>6. cw \in committed BY <1>4 DEF IInv, QueueInv
  <1> HIDE DEF cw
  <1>7. score \in Nat /\ Below(Kept, {cw}) BY <1>4 DEF IInv, PileInv, Below
  <1>8. \A s \in DOMAIN checkpoints : s < score
    BY <1>5, <1>7 DEF IInv, PoiInv, Scores, Below
  <1>9. /\ prior' \in Seq(Seq(Block)) /\ prior' # <<>>
        /\ SubSeq(prior', 1, Len(prior') - 1) = prior
    BY <1>1, AppendFacts DEF IInv, TypeOK
  <1>10. /\ Keyed(checkpoints', Seq(Seq(Block)))
         /\ DOMAIN checkpoints' = DOMAIN checkpoints \cup {score}
         /\ checkpoints'[score] = prior'
         /\ \A s \in DOMAIN checkpoints : checkpoints'[s] = checkpoints[s]
         /\ Latest(checkpoints') = prior'
    <2>1. Keyed(checkpoints, Seq(Seq(Block))) BY DEF IInv, TypeOK
    <2>2. \A s \in DOMAIN checkpoints : s # score
      BY <1>7, <1>8, <2>1 DEF Keyed
    <2> DEFINE new == Upsert(checkpoints, score, prior')
    <2>3. /\ Keyed(new, Seq(Seq(Block)))
          /\ DOMAIN new = DOMAIN checkpoints \cup {score}
          /\ new[score] = prior'
          /\ \A s \in DOMAIN checkpoints : s # score => new[s] = checkpoints[s]
          /\ (\A s \in DOMAIN checkpoints : s < score) => Latest(new) = prior'
      <3> HIDE DEF score
      <3> QED BY <1>7, <1>9, <2>1, UpsertFacts
    <2>4. checkpoints' = new BY <1>1
    <2> HIDE DEF new
    <2> QED BY <1>8, <2>2, <2>3, <2>4
  <1>11. score \notin DOMAIN checkpoints BY <1>7, <1>8
  <1>12. prior = Latest(checkpoints) BY <1>1, <1>2 DEF IInv, PoiInv
  <1>13. TypeOK'
    <2>1. Keyed(entities, Seq(Block))' BY <1>1 DEF IInv, TypeOK, Keyed
    <2> QED BY <1>1, <1>4, <1>9, <1>10, <2>1 DEF IInv, TypeOK
  <1>14. Stopped' BY <1>1 DEF Stopped
  <1>15. LineInv' /\ PendingInv' /\ MapInv' BY <1>1, MemoryKept DEF IInv
  <1>16. QueueInv'
    <2>1. Queued' \subseteq committed' BY <1>1, <1>4 DEF IInv, QueueInv
    <2>2. pc' \notin WriteSteps /\ pc' \notin UnwindSteps
      BY <1>1 DEF WriteSteps, UnwindSteps
    <2> QED BY <1>4, <2>1, <2>2 DEF QueueInv, Below
  <1>17. PileInv'
    <2>1. Below({cw}, probabilistic) BY <1>6 DEF IInv, MapInv, Below
    <2>2. Pending' = {} BY <1>1, <1>3 DEF Pending
    <2>3. Below(Kept', Queued' \cup probabilistic' \cup Pending' \cup unwinds')
      BY <1>1, <1>2, <1>4, <1>5, <2>1, <2>2 DEF IInv, PileInv, Below
    <2>4. restarts = 0 => Kept' = committed' \ Queued'
      BY <1>1, <1>4, <1>5, <1>6 DEF IInv, PileInv
    <2> QED BY <1>1, <1>5, <2>3, <2>4 DEF PileInv
  <1>18. FinalInv' BY <1>1, FinalKept DEF IInv, FinalInv
  <1>19. PoiInv'
    <2>1. Kept' \cup Doomed' = Kept \cup Doomed \cup {cw} BY <1>5
    <2>2. /\ DOMAIN checkpoints' \subseteq Scores(Kept' \cup Doomed')
          /\ restarts = 0 => Scores(Kept' \cup Doomed') \subseteq DOMAIN checkpoints'
      BY <1>10, <2>1 DEF IInv, PoiInv, Scores
    <2>3. PoiChainVerifies'
      <3> SUFFICES ASSUME NEW s \in DOMAIN checkpoints'
                   PROVE  LET below == {r \in DOMAIN checkpoints' : r < s}
                          IN  /\ checkpoints'[s] # <<>>
                              /\ SubSeq(checkpoints'[s], 1, Len(checkpoints'[s]) - 1)
                                   = IF below = {} THEN <<>> ELSE checkpoints'[Max(below)]
        BY DEF PoiChainVerifies
      <3> DEFINE below == {r \in DOMAIN checkpoints' : r < s}
                 was   == {r \in DOMAIN checkpoints : r < s}
      <3>1. /\ DOMAIN checkpoints \subseteq Nat /\ s \in Nat
        BY <1>7, <1>10 DEF IInv, TypeOK, Keyed
      <3>2. below = was
        BY <1>7, <1>8, <1>10, <3>1
      <3>3. was # {} => Max(was) \in was
        <4>1. was \in SUBSET Nat /\ \A r \in was : r <= s BY <3>1
        <4> HIDE DEF was
        <4> QED BY <3>1, <4>1, MaxFacts
      <3>4. CASE s \in DOMAIN checkpoints
        <4>1. /\ checkpoints[s] # <<>>
              /\ SubSeq(checkpoints[s], 1, Len(checkpoints[s]) - 1)
                   = IF was = {} THEN <<>> ELSE checkpoints[Max(was)]
          BY <3>4 DEF IInv, PoiInv, PoiChainVerifies
        <4>2. was # {} => checkpoints'[Max(was)] = checkpoints[Max(was)]
          BY <1>10, <3>3
        <4>3. checkpoints'[s] = checkpoints[s] BY <1>10, <3>4
        <4> HIDE DEF was, below
        <4> QED BY <3>2, <4>1, <4>2, <4>3 DEF below
      <3>5. CASE s = score
        <4>1. was = DOMAIN checkpoints BY <1>8, <3>5
        <4>2. was # {} => checkpoints'[Max(was)] = checkpoints[Max(was)]
          BY <1>10, <3>3
        <4>3. prior = IF was = {} THEN <<>> ELSE checkpoints[Max(was)]
          BY <1>12, <4>1 DEF Latest
        <4> HIDE DEF was, below
        <4> QED BY <1>9, <1>10, <3>2, <3>5, <4>2, <4>3 DEF below
      <3> QED BY <1>10, <3>4, <3>5
    <2>4. prior' = Latest(checkpoints)' BY <1>10 DEF Latest
    <2>5. Scores(Kept \cup Doomed)' = Scores(Kept' \cup Doomed') BY DEF Scores
    <2> QED BY <1>1, <2>2, <2>3, <2>4, <2>5 DEF PoiInv
  <1>20. Front(checkpoints'[score]) = Latest(checkpoints)
    BY <1>9, <1>10, <1>12 DEF Front
  <1> QED BY <1>1, <1>2, <1>8, <1>10, <1>11, <1>13, <1>14, <1>15, <1>16, <1>17, <1>18, <1>19,
             <1>20 DEF IInv, cw

\* A crash loses memory and leaves the store.
LEMMA CrashStep ==
    ASSUME IInv, Crash
    PROVE  IInv' /\ UNCHANGED <<recorded, checkpoints>>
  <1>1. /\ up' = FALSE /\ restarts < MaxRestarts /\ restarts' = restarts + 1
        /\ committed' = {} /\ probabilistic' = {} /\ finalized' = {}
        /\ todo' = <<>> /\ writes' = <<>> /\ unwinds' = {} /\ recovery' = {}
        /\ pc' = "apply" /\ prior' = <<>> /\ dispatched' = <<>>
        /\ UNCHANGED <<chain, announced, recorded, rows, entities, checkpoints>>
    BY DEF Crash, upstreamVars, storeVars
  <1>2. /\ Queued' = {} /\ Pending' = {} /\ Doomed' = {} /\ Begun' = {} /\ Kept' = recorded
        /\ Line' = Line
    BY <1>1 DEF Queued, Pending, Doomed, Begun, Kept, Line, WriteSteps, Range
  <1>3. restarts' \in 0 .. MaxRestarts /\ restarts' # 0 /\ MaxRestarts # 0
    BY <1>1 DEF IInv, TypeOK
  <1>4. TypeOK'
    <2>1. Keyed(entities, Seq(Block))' /\ Keyed(checkpoints, Seq(Seq(Block)))'
      BY <1>1 DEF IInv, TypeOK, Keyed
    <2>2. /\ todo' \in Seq(Node!Entry) /\ writes' \in Seq(SUBSET Block)
          /\ prior' \in Seq(Seq(Block)) /\ dispatched' \in Seq(Block)
      BY <1>1
    <2> QED BY <1>1, <1>3, <2>1, <2>2 DEF IInv, TypeOK
  <1>5. Stopped' BY <1>1, <1>3 DEF Stopped
  <1>6. LineInv' BY <1>1 DEF IInv, LineInv, Below, Range, Rising
  <1>7. PendingInv' BY <1>1, <1>2 DEF PendingInv, Below
  <1>8. MapInv' BY <1>1, <1>3 DEF MapInv, Below
  <1>9. QueueInv' BY <1>1, <1>2 DEF QueueInv, UnwindSteps, WriteSteps
  <1>10. PileInv' BY <1>1, <1>2, <1>3 DEF PileInv, Below
  <1>11. FinalInv' BY <1>1, FinalKept DEF IInv
  <1>12. PoiInv'
    <2>1. PoiChainVerifies' BY <1>1, VerifiesKept DEF IInv, PoiInv
    <2>2. Kept \cup Doomed \subseteq recorded BY DEF Kept, IInv, PileInv
    <2> QED BY <1>1, <1>2, <1>3, <2>1, <2>2 DEF IInv, PoiInv, Scores
  <1> QED BY <1>1, <1>4, <1>5, <1>6, <1>7, <1>8, <1>9, <1>10, <1>11, <1>12 DEF IInv

\* A restart reads back the head of the POI chain.
LEMMA RestartStep ==
    ASSUME IInv, Restart
    PROVE  IInv' /\ UNCHANGED <<recorded, checkpoints>>
  <1>1. /\ ~up /\ up' = TRUE /\ prior' = Latest(checkpoints)
        /\ UNCHANGED <<committed, probabilistic, finalized, todo, recovery, chain, announced,
                       restarts, writes, unwinds, pc, dispatched, recorded, entities,
                       checkpoints>>
    BY DEF Restart, ingestionVars, upstreamVars, storeVars
  <1>2. restarts # 0 /\ pc = "apply" BY <1>1 DEF IInv, Stopped
  <1>3. UNCHANGED <<Line, Pending, Queued, Doomed, Begun, Kept>>
    BY <1>1, <1>2 DEF Line, Pending, Queued, Doomed, Begun, Kept, Range, WriteSteps
  <1>4. TypeOK'
    <2>1. Keyed(entities, Seq(Block))' /\ Keyed(checkpoints, Seq(Seq(Block)))'
      BY <1>1 DEF IInv, TypeOK, Keyed
    <2>2. Latest(checkpoints) \in Seq(Seq(Block))
      <3>1. Keyed(checkpoints, Seq(Seq(Block))) /\ <<>> \in Seq(Seq(Block))
        BY DEF IInv, TypeOK
      <3> QED BY <3>1, LatestFacts
    <2> QED BY <1>1, <2>1, <2>2 DEF IInv, TypeOK
  <1>5. Stopped' BY <1>1 DEF Stopped
  <1>6. LineInv' BY <1>1 DEF IInv, LineInv, Below, Range, Rising
  <1>7. PendingInv' BY <1>1, <1>3 DEF IInv, PendingInv, Below
  <1>8. MapInv' BY <1>1, <1>2, <1>3 DEF IInv, MapInv, Below, Range
  <1>9. QueueInv' BY <1>1, <1>2, <1>3 DEF IInv, QueueInv, Below, UnwindSteps, WriteSteps
  <1>10. PileInv' BY <1>1, <1>3 DEF IInv, PileInv, Below
  <1>11. FinalInv' BY <1>1, FinalKept DEF IInv, FinalInv
  <1>12. PoiInv'
    <2>1. PoiChainVerifies' /\ Latest(checkpoints)' = Latest(checkpoints)
      BY <1>1, VerifiesKept, LatestKept DEF IInv, PoiInv
    <2> QED BY <1>1, <1>3, <2>1 DEF IInv, PoiInv, Scores
  <1> QED BY <1>1, <1>4, <1>5, <1>6, <1>7, <1>8, <1>9, <1>10, <1>11, <1>12 DEF IInv

\* A batch of promoted blocks joins the end of the queue.
LEMMA AppendBatch ==
    ASSUME NEW batch \in SUBSET Block, batch # {},
           writes \in Seq(SUBSET Block), QueueInv, Below(Queued, batch),
           writes' = Append(writes, batch)
    PROVE  /\ writes' \in Seq(SUBSET Block)
           /\ Queued' = Queued \cup batch
           /\ \A i \in DOMAIN writes' : writes'[i] # {}
           /\ \A i, j \in DOMAIN writes' : i < j => Below(writes'[i], writes'[j])
  <1>1. /\ writes' \in Seq(SUBSET Block) /\ Len(writes) \in Nat
        /\ DOMAIN writes = 1 .. Len(writes) /\ DOMAIN writes' = 1 .. Len(writes) + 1
        /\ \A i \in DOMAIN writes : writes'[i] = writes[i]
        /\ writes'[Len(writes) + 1] = batch
    OBVIOUS
  <1>2. \A i \in DOMAIN writes' : i \in DOMAIN writes \/ i = Len(writes) + 1 BY <1>1
  <1>3. Range(writes') = Range(writes) \cup {batch}
    <2>1. DOMAIN writes' = DOMAIN writes \cup {Len(writes) + 1} BY <1>1
    <2> QED BY <1>1, <2>1 DEF Range
  <1>4. \A i \in DOMAIN writes' : writes'[i] # {} BY <1>1, <1>2 DEF QueueInv
  <1>5. \A i \in DOMAIN writes : Below(writes[i], batch)
    BY DEF Queued, Range, Below
  <1>6. \A i, j \in DOMAIN writes' : i < j => Below(writes'[i], writes'[j])
    <2> SUFFICES ASSUME NEW i \in DOMAIN writes', NEW j \in DOMAIN writes', i < j
                 PROVE  Below(writes'[i], writes'[j])
      OBVIOUS
    <2>1. i \in DOMAIN writes BY <1>1
    <2>2. CASE j \in DOMAIN writes BY <1>1, <2>1, <2>2 DEF QueueInv
    <2>3. CASE j = Len(writes) + 1 BY <1>1, <1>5, <2>1, <2>3
    <2> QED BY <1>2, <2>2, <2>3
  <1> QED BY <1>1, <1>3, <1>4, <1>6 DEF Queued

\* Applying one block of a notification.
LEMMA ApplyBlockStep ==
    ASSUME Orderly, IInv, ApplyBlock
    PROVE  IInv' /\ UNCHANGED <<recorded, checkpoints>>
  <1> DEFINE x == Head(todo).block
  <1>1. /\ up /\ pc = "apply" /\ todo # <<>> /\ todo' = Tail(todo)
        /\ UNCHANGED <<unwinds, recovery, chain, announced, up, restarts, pc, prior,
                       dispatched, recorded, entities, checkpoints>>
        /\ Node!IgnoreBlock \/ Node!BufferAndPromote
    BY DEF ApplyBlock, Node!ApplyBlock, Node!IgnoreBlock, Node!BufferAndPromote,
           upstreamVars, handlerVars, storeVars
  <1>2. /\ x \in Pending /\ x \in Block /\ Pending' = Pending \ {x}
        /\ Head(todo).final <=> x \in UpstreamFinal
        /\ Below({x}, Pending')
    BY <1>1, NextPending DEF IInv
  <1>3. /\ committed \subseteq Block /\ probabilistic \subseteq Block /\ finalized = {}
        /\ committed \subseteq Range(chain) \ Pending /\ probabilistic \subseteq Line
        /\ Pending \subseteq Line /\ Below(Line \ Pending, Pending)
        /\ Range(chain) \subseteq Line /\ Line' = Line /\ Line \subseteq Block
    <2>1. Line' = Line BY <1>1 DEF Line, Range
    <2> QED BY <2>1, LineUnique DEF IInv, TypeOK, MapInv, PendingInv, Line
  <1>4. Below(committed, {x}) BY <1>2, <1>3 DEF Below
  <1>5. ~Node!Taken(x)
    <2>1. \A c \in committed : DaaScore[c] # DaaScore[x] BY <1>2, <1>3, <1>4 DEF Below
    <2> QED BY <2>1 DEF Node!Taken, Node!SameScore
  <1>6. PICK promoted \in SUBSET Block :
              /\ promoted \subseteq Buffered(x)
              /\ probabilistic' = Buffered(x) \ promoted
              /\ finalized' = {}
              /\ committed' = committed \cup promoted
              /\ writes' = IF promoted = {} THEN writes ELSE Append(writes, promoted)
              /\ Below(promoted, probabilistic')
              /\ \A c \in promoted : \/ DaaScore[c] = 0
                                     \/ Head(todo).final /\ DaaScore[c] <= DaaScore[x]
                                     \/ Node!BelowCutoff(c, x)
    BY <1>1, <1>5, PromoteFacts DEF IInv, Node!IgnoreBlock
  <1> HIDE DEF x
  <1>7. Buffered(x) \subseteq probabilistic \cup {x} BY DEF Buffered
  <1>8. Below(committed, Buffered(x))
    BY <1>4, <1>7 DEF IInv, MapInv, Below
  <1>9. Below(Buffered(x), Pending')
    <2> SUFFICES ASSUME NEW b \in Buffered(x), NEW c \in Pending'
                 PROVE  DaaScore[b] < DaaScore[c]
      BY DEF Below
    <2>1. DaaScore[x] < DaaScore[c] BY <1>2 DEF Below
    <2>2. /\ DaaScore[b] \in Nat /\ DaaScore[c] \in Nat /\ DaaScore[x] \in Nat
          /\ DaaScore[b] <= DaaScore[x]
      BY <1>2, <1>3, <1>7 DEF Buffered
    <2> QED BY <2>1, <2>2
  <1>10. promoted \subseteq Range(chain) \ Pending'
    <2>1. ASSUME NEW b \in promoted, b \in announced PROVE FALSE
      <3>1. x \in announced BY <1>2, <2>1 DEF IInv, PendingInv
      <3>2. x = b BY <2>1, <3>1 DEF IInv, LineInv
      <3>3. x \notin UpstreamFinal /\ DaaScore[x] # 0 BY <3>1 DEF IInv, LineInv
      <3>4. ~Node!BelowCutoff(x, x) BY <1>2 DEF Node!BelowCutoff
      <3> QED BY <1>2, <1>6, <3>2, <3>3, <3>4
    <2>2. promoted \subseteq Line BY <1>2, <1>3, <1>6, <1>7
    <2>3. ASSUME NEW b \in promoted, b \in Pending' PROVE FALSE
      <3>1. DaaScore[b] < DaaScore[b] BY <1>6, <1>9, <2>3 DEF Below
      <3> QED BY <1>6, <3>1
    <2> QED BY <2>1, <2>2, <2>3 DEF Line
  <1>11. UNCHANGED <<Doomed, Begun, Kept>> /\ Begun = {}
    BY <1>1 DEF Doomed, Begun, Kept, WriteSteps
  <1>12. /\ writes' \in Seq(SUBSET Block)
         /\ Queued' = Queued \cup promoted
         /\ \A i \in DOMAIN writes' : writes'[i] # {}
         /\ \A i, j \in DOMAIN writes' : i < j => Below(writes'[i], writes'[j])
    <2>1. CASE promoted = {}
      <3>1. writes' = writes BY <1>6, <2>1
      <3> QED BY <2>1, <3>1 DEF IInv, TypeOK, QueueInv, Queued
    <2>2. CASE promoted # {}
      <3>1. Below(Queued, promoted) BY <1>6, <1>8 DEF IInv, QueueInv, Below
      <3> QED BY <1>6, <2>2, <3>1, AppendBatch DEF IInv, TypeOK
    <2> QED BY <2>1, <2>2
  <1>13. promoted \cap committed = {}
    <2>1. ASSUME NEW b \in promoted, b \in committed PROVE FALSE
      <3>1. DaaScore[b] < DaaScore[b] BY <1>6, <1>8, <2>1 DEF Below
      <3> QED BY <1>6, <3>1
    <2> QED BY <2>1
  <1>14. TypeOK'
    <2>1. Keyed(entities, Seq(Block))' /\ Keyed(checkpoints, Seq(Seq(Block)))'
      BY <1>1 DEF IInv, TypeOK, Keyed
    <2>2. todo' \in Seq(Node!Entry) BY <1>1, NextPending DEF IInv
    <2>3. committed' \subseteq Block /\ probabilistic' \subseteq Block
      BY <1>2, <1>3, <1>6, <1>7
    <2> QED BY <1>1, <1>6, <1>12, <2>1, <2>2, <2>3 DEF IInv, TypeOK
  <1>15. Stopped' BY <1>1 DEF Stopped
  <1>16. LineInv' BY <1>1 DEF IInv, LineInv, Below, Range, Rising
  <1>17. PendingInv'
    <2>1. /\ \A i, j \in DOMAIN todo' :
                i < j => DaaScore[todo'[i].block] < DaaScore[todo'[j].block]
          /\ \A i \in DOMAIN todo' : todo'[i].final <=> todo'[i].block \in UpstreamFinal
      BY <1>1, NextPending DEF IInv
    <2>2. Below((Line \ Pending)', Pending') BY <1>2, <1>3 DEF Below
    <2> QED BY <1>1, <1>2, <1>3, <2>1, <2>2 DEF IInv, PendingInv
  <1>18. MapInv'
    <2>1. committed' \subseteq Range(chain') \ Pending'
      BY <1>1, <1>2, <1>3, <1>6, <1>10
    <2>2. probabilistic' \subseteq Line' BY <1>2, <1>3, <1>6, <1>7
    <2>3. Below(committed', probabilistic') BY <1>6, <1>8 DEF Below
    <2>4. ASSUME restarts = 0, NEW b \in Line', b \notin Pending'
          PROVE  b \in committed' \cup probabilistic'
      <3>1. CASE b = x BY <1>6, <3>1 DEF Buffered
      <3>2. CASE b # x
        <4>1. b \in Line \ Pending BY <1>2, <1>3, <2>4, <3>2
        <4>2. b \in committed \cup probabilistic BY <1>1, <2>4, <4>1 DEF IInv, MapInv
        <4>3. DaaScore[b] < DaaScore[x] BY <1>2, <1>3, <4>1 DEF Below
        <4> QED BY <1>6, <4>2, <4>3 DEF Buffered
      <3> QED BY <3>1, <3>2
    <2>5. Range(chain)' = Range(chain') BY DEF Range
    <2> QED BY <1>1, <2>1, <2>2, <2>3, <2>4, <2>5 DEF MapInv, Below
  <1>19. QueueInv'
    <2>1. Queued' \subseteq committed' BY <1>6, <1>12 DEF IInv, QueueInv
    <2> QED BY <1>1, <1>12, <2>1 DEF QueueInv, UnwindSteps, WriteSteps, Below
  <1>20. PileInv'
    <2>1. Queued' \cup probabilistic' \cup Pending' \cup unwinds'
             \subseteq Queued \cup probabilistic \cup Pending \cup unwinds
      BY <1>1, <1>2, <1>6, <1>7, <1>12
    <2>2. Below(Kept', Queued' \cup probabilistic' \cup Pending' \cup unwinds')
      BY <1>11, <2>1 DEF IInv, PileInv, Below
    <2>3. restarts = 0 => Kept' = committed' \ Queued'
      BY <1>6, <1>11, <1>12, <1>13 DEF IInv, PileInv
    <2> QED BY <1>1, <1>11, <2>2, <2>3 DEF IInv, PileInv, Below
  <1>21. FinalInv'
    <2> SUFFICES ASSUME RespectsFinality
                 PROVE  /\ unwinds' = {}
                        /\ \A b \in recorded' \cup committed' :
                              b \in Range(chain) /\ KnownFinal(b)
      BY <1>1 DEF FinalInv, KnownFinal, Range
    <2>1. ASSUME NEW c \in promoted PROVE KnownFinal(c)
      <3>1. DaaScore[c] # 0 BY <1>6, <2>1 DEF RespectsFinality
      <3>2. \/ x \in UpstreamFinal /\ DaaScore[c] <= DaaScore[x]
            \/ Node!BelowCutoff(c, x)
        BY <1>2, <1>6, <3>1
      <3> QED BY <1>2, <1>3, <3>2 DEF KnownFinal, Line
    <2> QED BY <1>1, <1>6, <1>10, <2>1 DEF IInv, FinalInv
  <1>22. PoiInv'
    <2>1. PoiChainVerifies' /\ Latest(checkpoints)' = Latest(checkpoints)
      BY <1>1, VerifiesKept, LatestKept DEF IInv, PoiInv
    <2> QED BY <1>1, <1>11, <2>1 DEF IInv, PoiInv, Scores
  <1> QED BY <1>1, <1>14, <1>15, <1>16, <1>17, <1>18, <1>19, <1>20, <1>21, <1>22, SMTT(30) DEF IInv

\* Between two notifications the store is on the chain, and equals memory if the node
\* never stopped.
LEMMA IdleFacts ==
    ASSUME Orderly, IInv, todo = <<>>, writes = <<>>, unwinds = {}, pc = "apply"
    PROVE  /\ Queued = {} /\ Pending = {} /\ Doomed = {} /\ Begun = {} /\ Kept = recorded
           /\ recorded \subseteq Range(chain)
           /\ restarts = 0 => recorded = committed
           /\ committed \subseteq Range(chain)
           /\ Range(chain) \subseteq Block /\ announced \subseteq Block
  <1>1. /\ Queued = {} /\ Pending = {} /\ Doomed = {} /\ Begun = {} /\ Kept = recorded
    BY DEF Queued, Pending, Doomed, Begun, Kept, Range, WriteSteps
  <1>2. committed \subseteq Range(chain) BY <1>1 DEF IInv, MapInv
  <1>3. restarts = 0 => recorded = committed BY <1>1 DEF IInv, PileInv
  <1>4. restarts # 0 => RespectsFinality BY DEF IInv, TypeOK, Orderly
  <1>5. recorded \subseteq Range(chain) BY <1>2, <1>3, <1>4 DEF IInv, FinalInv
  <1>6. Range(chain) \subseteq Block /\ announced \subseteq Block
    BY LineUnique DEF IInv, Line
  <1> QED BY <1>1, <1>2, <1>3, <1>5, <1>6

\* A block announced ahead of the chain.
LEMMA AnnounceStep ==
    ASSUME Orderly, IInv, Announce
    PROVE  IInv' /\ UNCHANGED <<recorded, checkpoints>>
  <1>1. /\ up /\ pc = "apply" /\ todo = <<>> /\ writes = <<>> /\ unwinds = {}
        /\ UNCHANGED <<committed, probabilistic, finalized, writes, unwinds, recovery, chain,
                       up, restarts, pc, prior, dispatched, recorded, entities, checkpoints>>
    BY DEF Announce, Ready, Node!Idle, Node!BlockAdded, handlerVars, storeVars
  <1>2. PICK b \in Block \ Range(chain) :
              /\ announced = {} /\ DaaScore[b] > Tip(chain) /\ b \notin UpstreamFinal
              /\ announced' = {b}
              /\ todo' = <<[block |-> b, final |-> b \in UpstreamFinal]>>
    BY DEF Announce, Node!BlockAdded, Orderly
  <1>3. /\ Queued = {} /\ Pending = {} /\ Doomed = {} /\ Begun = {} /\ Kept = recorded
        /\ recorded \subseteq Range(chain)
        /\ committed \subseteq Range(chain)
        /\ Range(chain) \subseteq Block /\ announced \subseteq Block
    BY <1>1, IdleFacts
  <1>4. /\ todo' \in Seq(Node!Entry) /\ DOMAIN todo' = {1}
        /\ todo'[1].block = b /\ todo'[1].final = (b \in UpstreamFinal)
    <2>1. [block |-> b, final |-> b \in UpstreamFinal] \in Node!Entry BY DEF Node!Entry
    <2> QED BY <1>2, <2>1
  <1>5. /\ Queued' = {} /\ Pending' = {b} /\ Doomed' = {} /\ Begun' = {} /\ Kept' = recorded
        /\ Range(chain)' = Range(chain) /\ Line' = Range(chain) \cup {b}
        /\ Line = Range(chain)
    BY <1>1, <1>2, <1>3, <1>4 DEF Queued, Pending, Doomed, Begun, Kept, Range, WriteSteps, Line
  <1>6. chain \in Seq(Block) /\ Rising(chain) BY DEF IInv, TypeOK, LineInv
  <1>7. Below(Range(chain), {b})
    <2> SUFFICES ASSUME NEW c \in Range(chain) PROVE DaaScore[c] < DaaScore[b]
      BY DEF Below
    <2>1. Tip(chain) \in Nat /\ DaaScore[c] <= Tip(chain) BY <1>6, TipFacts
    <2>2. DaaScore[c] \in Nat /\ DaaScore[b] \in Nat BY <1>3
    <2> QED BY <1>2, <2>1, <2>2
  <1>8. DaaScore[b] # 0
    <2>1. Tip(chain) \in Nat BY <1>6 DEF Tip
    <2> QED BY <1>2, <2>1
  <1>9. TypeOK'
    <2>1. Keyed(entities, Seq(Block))' /\ Keyed(checkpoints, Seq(Seq(Block)))'
      BY <1>1 DEF IInv, TypeOK, Keyed
    <2> QED BY <1>1, <1>2, <1>4, <2>1 DEF IInv, TypeOK
  <1>10. Stopped' BY <1>1 DEF Stopped
  <1>11. LineInv'
    <2>1. Rising(chain)' BY <1>1, <1>6 DEF Rising
    <2> QED BY <1>2, <1>5, <1>7, <1>8, <2>1 DEF LineInv, Below
  <1>12. PendingInv'
    <2>1. Line' \ Pending' = Range(chain) BY <1>2, <1>5
    <2>2. \A i, j \in DOMAIN todo' : ~(i < j) BY <1>4
    <2>3. \A i \in DOMAIN todo' : todo'[i].final <=> todo'[i].block \in UpstreamFinal
      BY <1>4
    <2> QED BY <1>1, <1>2, <1>5, <1>7, <2>1, <2>2, <2>3 DEF PendingInv, Below
  <1>13. MapInv'
    <2>1. committed' \subseteq Range(chain)' \ Pending' BY <1>1, <1>2, <1>3, <1>5
    <2> QED BY <1>1, <1>2, <1>3, <1>5, <2>1 DEF IInv, MapInv, Below
  <1>14. QueueInv' BY <1>1, <1>5 DEF QueueInv, UnwindSteps, WriteSteps
  <1>15. PileInv'
    <2>1. Below(recorded, {b}) BY <1>3, <1>7 DEF Below
    <2>2. Below(recorded, probabilistic) BY <1>3 DEF IInv, PileInv, Below
    <2>3. restarts = 0 => recorded = committed BY <1>1, IdleFacts
    <2> QED BY <1>1, <1>5, <2>1, <2>2, <2>3 DEF PileInv, Below
  <1>16. FinalInv'
    <2>1. \A c \in Block : KnownFinal(c) => KnownFinal(c)'
      <3> TAKE c \in Block
      <3> HAVE KnownFinal(c)
      <3>1. PICK z \in Range(chain) : \/ z \in UpstreamFinal /\ DaaScore[c] <= DaaScore[z]
                                      \/ Node!BelowCutoff(c, z)
        BY <1>2 DEF KnownFinal
      <3>2. z \in (Range(chain) \cup announced)' BY <1>5
      <3> QED BY <3>1, <3>2 DEF KnownFinal, Node!BelowCutoff
    <2> QED BY <1>1, <1>3, <1>5, <2>1 DEF IInv, FinalInv
  <1>17. PoiInv'
    <2>1. PoiChainVerifies' /\ Latest(checkpoints)' = Latest(checkpoints)
      BY <1>1, VerifiesKept, LatestKept DEF IInv, PoiInv
    <2> QED BY <1>1, <1>3, <1>5, <2>1 DEF IInv, PoiInv, Scores
  <1> QED BY <1>1, <1>9, <1>10, <1>11, <1>12, <1>13, <1>14, <1>15, <1>16, <1>17 DEF IInv

Dropped(keep) == {chain[i] : i \in keep + 1 .. Len(chain)}

\* A chain change: the line afterwards, and that final blocks survive it.
LEMMA ReplaceSuffixFacts ==
    ASSUME Orderly, IInv, todo = <<>>, writes = <<>>, unwinds = {}, pc = "apply",
           NEW keep \in 0 .. Len(chain), NEW suffix \in Extensions, ReplaceSuffix(keep, suffix)
    PROVE  /\ chain' \in Seq(Block) /\ Rising(chain)' /\ announced' = {}
           /\ suffix \in Seq(Block) /\ Rising(suffix) /\ Range(suffix) \subseteq Block
           /\ Range(chain)' = (Range(chain) \ Dropped(keep)) \cup Range(suffix)
           /\ Below(Range(chain) \ Dropped(keep), Range(suffix) \cup Dropped(keep))
           /\ announced \subseteq Range(suffix)
           /\ RespectsFinality => \A b \in recorded \cup committed :
                                    b \notin Dropped(keep) /\ KnownFinal(b)'
  <1> DEFINE next == SubSeq(chain, 1, keep) \o suffix
  <1>1. /\ suffix # <<>> /\ suffix \in Seq(Block) /\ Rising(next)
        /\ announced \subseteq Range(suffix)
        /\ chain' = next /\ announced' = {}
        /\ DeepReorgs \/ /\ Tip(next) >= Tip(chain)
                         /\ \A b \in Dropped(keep) : ~KnownFinal(b)
    BY DEF ReplaceSuffix, Orderly, Dropped
  <1>2. chain \in Seq(Block) /\ Rising(chain) BY DEF IInv, TypeOK, LineInv
  <1>3. /\ next \in Seq(Block)
        /\ Range(next) = (Range(chain) \ Dropped(keep)) \cup Range(suffix)
        /\ Below(Range(chain) \ Dropped(keep), Range(suffix) \cup Dropped(keep))
        /\ Rising(suffix)
    BY <1>1, <1>2, NextChain DEF Dropped
  <1> HIDE DEF next
  <1>4. Range(chain)' = Range(next) /\ Rising(chain)' BY <1>1 DEF Range, Rising
  <1>5. Range(suffix) \subseteq Block BY <1>1 DEF Range
  <1>6. Range(chain) \subseteq Block /\ announced \subseteq Block BY LineUnique DEF IInv, Line
  <1>7. ASSUME RespectsFinality, NEW b \in recorded \cup committed
        PROVE  b \notin Dropped(keep) /\ KnownFinal(b)'
    <2>1. b \in Range(chain) /\ KnownFinal(b) BY <1>7 DEF IInv, FinalInv
    <2>2. /\ Tip(next) >= Tip(chain)
          /\ \A c \in Dropped(keep) : ~KnownFinal(c)
      BY <1>1, <1>7 DEF RespectsFinality
    <2>3. PICK z \in Range(chain) \cup announced :
              \/ z \in UpstreamFinal /\ DaaScore[b] <= DaaScore[z]
              \/ Node!BelowCutoff(b, z)
      BY <2>1 DEF KnownFinal
    <2>4. \E t \in Range(next) : \/ t \in UpstreamFinal /\ DaaScore[b] <= DaaScore[t]
                                 \/ Node!BelowCutoff(b, t)
      <3>1. CASE z \in announced BY <1>1, <1>3, <2>3, <3>1
      <3>2. CASE z \in Range(chain) /\ z \in UpstreamFinal /\ DaaScore[b] <= DaaScore[z]
        <4>1. DaaScore[z] <= DaaScore[z] BY <1>6, <3>2
        <4>2. KnownFinal(z) BY <3>2, <4>1 DEF KnownFinal
        <4> QED BY <1>3, <2>2, <3>2, <4>2
      <3>3. CASE z \in Range(chain) /\ Node!BelowCutoff(b, z)
        <4>1. \E y \in Range(suffix) : TRUE
          <5>1. 1 \in DOMAIN suffix BY <1>1
          <5> QED BY <5>1 DEF Range
        <4>2. /\ Tip(next) \in Nat /\ next[Len(next)] \in Range(next)
              /\ Tip(next) = DaaScore[next[Len(next)]]
          BY <1>1, <1>3, <4>1, TipFacts
        <4>3. Tip(chain) \in Nat /\ DaaScore[z] <= Tip(chain) BY <1>2, <3>3, TipFacts
        <4>4. DaaScore[b] \in Nat /\ DaaScore[z] \in Nat BY <1>6, <2>1, <3>3
        <4>5. DaaScore[z] <= DaaScore[next[Len(next)]] BY <2>2, <4>2, <4>3, <4>4
        <4>6. Node!BelowCutoff(b, next[Len(next)])
          BY <3>3, <4>2, <4>4, <4>5 DEF Node!BelowCutoff
        <4> QED BY <4>2, <4>6
      <3> QED BY <2>3, <3>1, <3>2, <3>3
    <2>5. KnownFinal(b)' BY <1>4, <2>4 DEF KnownFinal, Node!BelowCutoff
    <2> QED BY <2>1, <2>2, <2>5
  <1> QED BY <1>1, <1>3, <1>4, <1>5, <1>7

\* The notification of a chain change.
LEMMA ReportFacts ==
    ASSUME NEW suffix \in Seq(Block), Rising(suffix), todo' = Report(suffix)
    PROVE  /\ todo' \in Seq(Node!Entry) /\ Pending' = Range(suffix)
           /\ \A i, j \in DOMAIN todo' :
                 i < j => DaaScore[todo'[i].block] < DaaScore[todo'[j].block]
           /\ \A i \in DOMAIN todo' : todo'[i].final <=> todo'[i].block \in UpstreamFinal
  <1>1. /\ Len(suffix) \in Nat /\ DOMAIN suffix = 1 .. Len(suffix)
        /\ todo' = [i \in 1 .. Len(suffix) |->
                       [block |-> suffix[i], final |-> suffix[i] \in UpstreamFinal]]
    BY DEF Report
  <1>2. \A i \in DOMAIN suffix :
           [block |-> suffix[i], final |-> suffix[i] \in UpstreamFinal] \in Node!Entry
    BY DEF Node!Entry
  <1>3. todo' \in Seq(Node!Entry) BY <1>1, <1>2
  <1>4. /\ DOMAIN todo' = DOMAIN suffix
        /\ \A i \in DOMAIN suffix : /\ todo'[i].block = suffix[i]
                                    /\ todo'[i].final = (suffix[i] \in UpstreamFinal)
    BY <1>1
  <1>5. Pending' = Range(suffix) BY <1>4 DEF Pending, Range
  <1>6. \A i, j \in DOMAIN todo' :
           i < j => DaaScore[todo'[i].block] < DaaScore[todo'[j].block]
    BY <1>4 DEF Rising
  <1>7. \A i \in DOMAIN todo' : todo'[i].final <=> todo'[i].block \in UpstreamFinal
    BY <1>4
  <1> QED BY <1>3, <1>5, <1>6, <1>7

\* A chain change the node is told of.
LEMMA ChainChangedStep ==
    ASSUME Orderly, IInv, ChainChanged
    PROVE  IInv' /\ UNCHANGED <<recorded, checkpoints>>
  <1>1. /\ up /\ pc = "apply" /\ todo = <<>> /\ writes = <<>> /\ unwinds = {}
        /\ UNCHANGED <<writes, recovery, up, restarts, pc, prior, dispatched, recorded,
                       entities, checkpoints>>
    BY DEF ChainChanged, Ready, Node!Idle, Node!VirtualChainChanged, handlerVars, storeVars
  <1>2. PICK keep \in 0 .. Len(chain), suffix \in Extensions :
              /\ ReplaceSuffix(keep, suffix)
              /\ probabilistic' = probabilistic \ Dropped(keep)
              /\ finalized' = finalized \ Dropped(keep)
              /\ committed' = committed \ Dropped(keep)
              /\ unwinds' = committed \cap Dropped(keep)
              /\ todo' = Report(suffix)
    BY DEF ChainChanged, Node!VirtualChainChanged, Dropped
  <1> DEFINE dropped == Dropped(keep)
  <1>3. /\ chain' \in Seq(Block) /\ Rising(chain)' /\ announced' = {}
        /\ suffix \in Seq(Block) /\ Rising(suffix) /\ Range(suffix) \subseteq Block
        /\ Range(chain)' = (Range(chain) \ dropped) \cup Range(suffix)
        /\ Below(Range(chain) \ dropped, Range(suffix) \cup dropped)
        /\ announced \subseteq Range(suffix)
        /\ RespectsFinality => \A b \in recorded \cup committed :
                                 b \notin dropped /\ KnownFinal(b)'
    BY <1>1, <1>2, ReplaceSuffixFacts
  <1>4. /\ Queued = {} /\ Pending = {} /\ Doomed = {} /\ Begun = {} /\ Kept = recorded
        /\ recorded \subseteq Range(chain)
        /\ restarts = 0 => recorded = committed
        /\ committed \subseteq Range(chain)
        /\ Range(chain) \subseteq Block /\ announced \subseteq Block
    BY <1>1, IdleFacts
  <1>5. /\ todo' \in Seq(Node!Entry) /\ Pending' = Range(suffix)
        /\ \A i, j \in DOMAIN todo' :
              i < j => DaaScore[todo'[i].block] < DaaScore[todo'[j].block]
        /\ \A i \in DOMAIN todo' : todo'[i].final <=> todo'[i].block \in UpstreamFinal
    BY <1>2, <1>3, ReportFacts
  <1> HIDE DEF dropped
  <1>6. /\ probabilistic' = probabilistic \ dropped /\ committed' = committed \ dropped
        /\ unwinds' = committed \cap dropped
        /\ finalized' = {}
    BY <1>2 DEF IInv, TypeOK, dropped
  <1>7. restarts # 0 => RespectsFinality BY DEF IInv, TypeOK, Orderly
  <1>8. unwinds' \subseteq recorded /\ recorded \ unwinds' = recorded \ dropped
    BY <1>3, <1>4, <1>6, <1>7
  <1>9. /\ Queued' = {} /\ Doomed' = unwinds' /\ Begun' = {} /\ Kept' = recorded \ dropped
        /\ Line' = Range(chain)' /\ Line = Range(chain) \cup announced
    BY <1>1, <1>3, <1>8 DEF Queued, Doomed, Begun, Kept, Range, WriteSteps, Line
  <1>10. (Range(chain) \ dropped) \cap Range(suffix) = {}
    <2>1. ASSUME NEW b \in Range(chain) \ dropped, b \in Range(suffix) PROVE FALSE
      <3>1. DaaScore[b] < DaaScore[b] BY <1>3, <2>1 DEF Below
      <3> QED BY <1>4, <3>1
    <2> QED BY <2>1
  <1>11. TypeOK'
    <2>1. Keyed(entities, Seq(Block))' /\ Keyed(checkpoints, Seq(Seq(Block)))'
      BY <1>1 DEF IInv, TypeOK, Keyed
    <2> QED BY <1>1, <1>3, <1>5, <1>6, <2>1 DEF IInv, TypeOK
  <1>12. Stopped' BY <1>1 DEF Stopped
  <1>13. LineInv' BY <1>3 DEF LineInv, Below
  <1>14. PendingInv'
    <2>1. Line' \ Pending' \subseteq Range(chain) \ dropped BY <1>3, <1>5, <1>9
    <2>2. Below(Line' \ Pending', Pending') BY <1>3, <1>5, <2>1 DEF Below
    <2>3. Pending' \subseteq Line' BY <1>3, <1>5, <1>9
    <2> QED BY <1>1, <1>3, <1>5, <2>2, <2>3 DEF PendingInv, Below
  <1>15. MapInv'
    <2>1. committed' \subseteq Range(chain)' \ Pending'
      BY <1>3, <1>4, <1>5, <1>6, <1>10
    <2>2. probabilistic' \subseteq Line' BY <1>3, <1>6, <1>9 DEF IInv, MapInv
    <2>3. Below(committed', probabilistic') BY <1>6 DEF IInv, MapInv, Below
    <2>4. restarts = 0 => Line' \ Pending' \subseteq committed' \cup probabilistic'
      BY <1>1, <1>3, <1>4, <1>5, <1>6, <1>9 DEF IInv, MapInv
    <2> QED BY <1>1, <2>1, <2>2, <2>3, <2>4 DEF MapInv, Below
  <1>16. QueueInv' BY <1>1, <1>9 DEF QueueInv, UnwindSteps, WriteSteps
  <1>17. PileInv'
    <2>1. Below(recorded \ dropped, Range(suffix) \cup dropped) BY <1>3, <1>4 DEF Below
    <2>2. Below(recorded, probabilistic) BY <1>4 DEF IInv, PileInv, Below
    <2>3. Below(Kept', Queued' \cup probabilistic' \cup Pending' \cup unwinds')
      BY <1>5, <1>6, <1>9, <2>1, <2>2 DEF Below
    <2> QED BY <1>1, <1>4, <1>6, <1>8, <1>9, <2>3 DEF PileInv, Below
  <1>18. FinalInv'
    <2> SUFFICES ASSUME RespectsFinality
                 PROVE  /\ unwinds' = {}
                        /\ \A b \in recorded' \cup committed' :
                              b \in Range(chain)' /\ KnownFinal(b)'
      BY DEF FinalInv
    <2> QED BY <1>1, <1>3, <1>4, <1>6
  <1>19. PoiInv'
    <2>1. PoiChainVerifies' /\ Latest(checkpoints)' = Latest(checkpoints)
      BY <1>1, VerifiesKept, LatestKept DEF IInv, PoiInv
    <2>2. Kept' \cup Doomed' = Kept \cup Doomed BY <1>4, <1>8, <1>9
    <2>3. Scores(Kept \cup Doomed)' = Scores(Kept \cup Doomed) BY <2>2 DEF Scores
    <2> QED BY <1>1, <2>1, <2>3 DEF IInv, PoiInv
  <1> QED BY <1>1, <1>11, <1>12, <1>13, <1>14, <1>15, <1>16, <1>17, <1>18, <1>19 DEF IInv

\* A chain change while the node is down.
LEMMA ChainChangedUnseenStep ==
    ASSUME Orderly, IInv, ChainChangedUnseen
    PROVE  IInv' /\ UNCHANGED <<recorded, checkpoints>>
  <1>1. /\ ~up
        /\ UNCHANGED <<committed, probabilistic, finalized, todo, writes, unwinds, recovery,
                       up, restarts, pc, prior, dispatched, recorded, entities, checkpoints>>
    BY DEF ChainChangedUnseen, ingestionVars, handlerVars, storeVars
  <1>2. /\ committed = {} /\ probabilistic = {} /\ todo = <<>> /\ writes = <<>>
        /\ unwinds = {} /\ pc = "apply" /\ restarts # 0 /\ RespectsFinality
    BY <1>1 DEF IInv, Stopped, TypeOK, Orderly
  <1>3. PICK keep \in 0 .. Len(chain), suffix \in Extensions : ReplaceSuffix(keep, suffix)
    BY DEF ChainChangedUnseen
  <1>4. /\ chain' \in Seq(Block) /\ Rising(chain)' /\ announced' = {}
        /\ Range(chain)' = (Range(chain) \ Dropped(keep)) \cup Range(suffix)
        /\ \A b \in recorded \cup committed : b \notin Dropped(keep) /\ KnownFinal(b)'
    BY <1>2, <1>3, ReplaceSuffixFacts
  <1>5. /\ Queued = {} /\ Pending = {} /\ Doomed = {} /\ Begun = {} /\ Kept = recorded
        /\ recorded \subseteq Range(chain)
    BY <1>2, IdleFacts
  <1>6. /\ Queued' = {} /\ Pending' = {} /\ Doomed' = {} /\ Begun' = {} /\ Kept' = recorded
    BY <1>1, <1>2, <1>5 DEF Queued, Pending, Doomed, Begun, Kept, Range, WriteSteps
  <1>7. TypeOK'
    <2>1. Keyed(entities, Seq(Block))' /\ Keyed(checkpoints, Seq(Seq(Block)))'
      BY <1>1 DEF IInv, TypeOK, Keyed
    <2> QED BY <1>1, <1>4, <2>1 DEF IInv, TypeOK
  <1>8. Stopped' BY <1>1, <1>2 DEF Stopped
  <1>9. LineInv' BY <1>4 DEF LineInv, Below
  <1>10. PendingInv' BY <1>1, <1>2, <1>6 DEF PendingInv, Below
  <1>11. MapInv' BY <1>1, <1>2 DEF MapInv, Below
  <1>12. QueueInv' BY <1>1, <1>2, <1>6 DEF QueueInv, UnwindSteps, WriteSteps
  <1>13. PileInv' BY <1>1, <1>2, <1>6 DEF PileInv, Below
  <1>14. FinalInv'
    <2>1. \A b \in recorded' \cup committed' : b \in Range(chain)' /\ KnownFinal(b)'
      BY <1>1, <1>2, <1>4, <1>5
    <2> QED BY <1>1, <1>2, <2>1 DEF FinalInv
  <1>15. PoiInv'
    <2>1. PoiChainVerifies' /\ Latest(checkpoints)' = Latest(checkpoints)
      BY <1>1, VerifiesKept, LatestKept DEF IInv, PoiInv
    <2> QED BY <1>1, <1>5, <1>6, <2>1 DEF IInv, PoiInv, Scores
  <1> QED BY <1>1, <1>7, <1>8, <1>9, <1>10, <1>11, <1>12, <1>13, <1>14, <1>15 DEF IInv

\* The mapping's next version of an entity.
LEMMA EntitiesUpserted ==
    ASSUME IInv, pc \in WriteSteps
    PROVE  /\ NextVersion \in Seq(Block)
           /\ UpsertVersion => Keyed(entities', Seq(Block))
  <1>1. CurrentWrite \in Block /\ DaaScore[CurrentWrite] \in Nat
    BY RestFacts DEF IInv, QueueInv
  <1>2. Keyed(entities, Seq(Block)) /\ <<>> \in Seq(Block) BY DEF IInv, TypeOK
  <1>3. Latest(entities) \in Seq(Block) BY <1>2, LatestFacts
  <1>4. NextVersion \in Seq(Block) BY <1>1, <1>3, AppendFacts DEF NextVersion
  <1>5. Keyed(Upsert(entities, DaaScore[CurrentWrite], NextVersion), Seq(Block))
    <2> HIDE DEF NextVersion
    <2> QED BY <1>1, <1>2, <1>4, UpsertFacts
  <1> QED BY <1>4, <1>5 DEF UpsertVersion

\* The store calls that touch only derived tables.
LEMMA SilentSteps ==
    ASSUME IInv,
           \/ UnwindEntities \/ UnwindUtxos \/ UnwindSpends \/ UnwindLineage
           \/ WritePatterns \/ WriteUtxos \/ WriteLineage \/ Dispatch
           \/ WriteSpends \/ DispatchSpends
    PROVE  IInv' /\ UNCHANGED <<recorded, checkpoints>>
  <1>1. /\ up
        /\ UNCHANGED <<committed, probabilistic, finalized, todo, writes, unwinds, recovery,
                       upstreamVars, up, restarts, prior, recorded, checkpoints>>
        /\ \/ pc \in UnwindSteps /\ pc' \in UnwindSteps
           \/ pc \in WriteSteps /\ pc' \in WriteSteps
    BY DEF UnwindEntities, UnwindUtxos, UnwindSpends, UnwindLineage, WritePatterns, WriteUtxos,
           WriteLineage, Dispatch, WriteSpends, DispatchSpends, Step, UnwindRows,
           UnwindSteps, WriteSteps
  <1>2. Keyed(entities, Seq(Block)) /\ dispatched \in Seq(Block) /\ <<>> \in Seq(Block)
    BY DEF IInv, TypeOK
  <1>3. Keyed(entities', Seq(Block)) /\ dispatched' \in Seq(Block)
    <2>1. CASE UnwindEntities
      <3>1. {s \in DOMAIN entities : s < Cutoff} \in SUBSET DOMAIN entities OBVIOUS
      <3>2. Keyed(Restrict(entities, {s \in DOMAIN entities : s < Cutoff}), Seq(Block))
        BY <1>2, <3>1, RestrictFacts
      <3> QED BY <1>2, <2>1, <3>2 DEF UnwindEntities
    <2>2. CASE Dispatch \/ DispatchSpends
      <3>1. pc \in WriteSteps BY <2>2 DEF Dispatch, DispatchSpends, Step, WriteSteps
      <3>2. NextVersion \in Seq(Block) /\ (UpsertVersion => Keyed(entities', Seq(Block)))
        BY <3>1, EntitiesUpserted
      <3>3. entities' = entities \/ UpsertVersion BY <2>2 DEF Dispatch, DispatchSpends
      <3>4. Keyed(entities', Seq(Block)) BY <1>2, <3>2, <3>3
      <3>5. dispatched' \in Seq(Block) BY <1>2, <2>2, <3>2 DEF Dispatch, DispatchSpends
      <3> QED BY <3>4, <3>5
    <2>3. CASE UNCHANGED <<entities, dispatched>> BY <1>2, <2>3
    <2> QED BY <2>1, <2>2, <2>3
          DEF UnwindUtxos, UnwindSpends, UnwindLineage, WritePatterns, WriteUtxos,
              WriteLineage, WriteSpends, UnwindRows
  <1> QED BY <1>1, <1>3, SilentStep

\* Stuttering.
LEMMA StutterStep ==
    ASSUME IInv, UNCHANGED vars
    PROVE  IInv' /\ UNCHANGED <<recorded, checkpoints>>
  <1>1. UNCHANGED <<committed, probabilistic, finalized, todo, writes, unwinds, recovery, chain,
                    announced, up, restarts, pc, prior, dispatched, recorded, entities,
                    checkpoints>>
    BY DEF vars, ingestionVars, upstreamVars, handlerVars, storeVars
  <1>2. UNCHANGED <<Line, Pending, Queued, Doomed, Begun, Kept, Range(chain), Rising(chain)>>
    BY <1>1 DEF Line, Pending, Queued, Doomed, Begun, Kept, CurrentWrite, Range, Rising
  <1>3. TypeOK' BY <1>1 DEF IInv, TypeOK, Keyed
  <1>4. Stopped' BY <1>1 DEF IInv, Stopped
  <1>5. LineInv' BY <1>1, <1>2 DEF IInv, LineInv, Below
  <1>6. PendingInv' BY <1>1, <1>2 DEF IInv, PendingInv, Below
  <1>7. MapInv' BY <1>1, <1>2 DEF IInv, MapInv, Below
  <1>8. QueueInv' BY <1>1, <1>2 DEF IInv, QueueInv, Below, CurrentWrite
  <1>9. PileInv' BY <1>1, <1>2 DEF IInv, PileInv, Below
  <1>10. FinalInv' BY <1>1, FinalKept DEF IInv, FinalInv
  <1>11. PoiInv'
    <2>1. PoiChainVerifies' /\ Latest(checkpoints)' = Latest(checkpoints)
      BY <1>1, VerifiesKept, LatestKept DEF IInv, PoiInv
    <2> QED BY <1>1, <1>2, <2>1 DEF IInv, PoiInv, Scores
  <1> QED BY <1>1, <1>3, <1>4, <1>5, <1>6, <1>7, <1>8, <1>9, <1>10, <1>11 DEF IInv

\* The initial state.
LEMMA InitFacts ==
    ASSUME Init
    PROVE  IInv
  <1>1. /\ committed = {} /\ probabilistic = {} /\ finalized = {} /\ todo = <<>>
        /\ writes = <<>> /\ unwinds = {} /\ recovery = {} /\ chain = <<>> /\ announced = {}
        /\ up = TRUE /\ restarts = 0 /\ pc = "apply" /\ prior = <<>> /\ dispatched = <<>>
        /\ recorded = {} /\ entities = <<>> /\ checkpoints = <<>>
    BY DEF Init, Node!Init
  <1>2. \A Row : Keyed(<<>>, Row) /\ DOMAIN <<>> = {}
    <2> TAKE Row
    <2>1. <<>> \in [DOMAIN <<>> -> Row] /\ DOMAIN <<>> = {} OBVIOUS
    <2>2. \A s \in DOMAIN <<>> : s <= 0 BY <2>1
    <2> QED BY <2>1, <2>2 DEF Keyed
  <1>3. /\ Range(chain) = {} /\ Pending = {} /\ Queued = {} /\ Line = {} /\ Doomed = {}
        /\ Begun = {} /\ Kept = {}
    BY <1>1 DEF Range, Pending, Queued, Line, Doomed, Begun, Kept, WriteSteps
  <1>4. TypeOK
    <2>1. Keyed(entities, Seq(Block)) /\ Keyed(checkpoints, Seq(Seq(Block)))
      BY <1>1, <1>2
    <2> QED BY <1>1, <2>1 DEF TypeOK
  <1>5. LineInv BY <1>1, <1>3 DEF LineInv, Rising, Below
  <1>6. PendingInv BY <1>1, <1>3 DEF PendingInv, Below
  <1>7. MapInv BY <1>1, <1>3 DEF MapInv, Below
  <1>8. QueueInv BY <1>1, <1>3 DEF QueueInv, WriteSteps, UnwindSteps
  <1>9. PileInv BY <1>1, <1>3 DEF PileInv, Below
  <1>10. FinalInv BY <1>1 DEF FinalInv
  <1>11. PoiInv BY <1>1, <1>2, <1>3 DEF PoiInv, PoiChainVerifies, Scores, Latest
  <1> QED BY <1>1, <1>4, <1>5, <1>6, <1>7, <1>8, <1>9, <1>10, <1>11 DEF IInv, Stopped

\* The invariant is inductive.
LEMMA NextStep ==
    ASSUME Orderly, IInv, [Next]_vars
    PROVE  IInv'
  <1>1. CASE ChainChanged BY <1>1, ChainChangedStep
  <1>2. CASE ChainChangedUnseen BY <1>2, ChainChangedUnseenStep
  <1>3. CASE Announce BY <1>3, AnnounceStep
  <1>4. CASE ApplyBlock BY <1>4, ApplyBlockStep
  <1>5. CASE UnwindCommitted BY <1>5, UnwindCommittedStep
  <1>6. CASE Reseed BY <1>6, ReseedStep
  <1>7. CASE RecordBlock BY <1>7, RecordBlockStep
  <1>8. CASE WriteCheckpoint BY <1>8, WriteCheckpointStep
  <1>9. CASE \/ UnwindEntities \/ UnwindUtxos \/ UnwindSpends \/ UnwindLineage
             \/ WritePatterns \/ WriteUtxos \/ WriteLineage \/ Dispatch
             \/ WriteSpends \/ DispatchSpends
    BY <1>9, SilentSteps
  <1>10. CASE Crash BY <1>10, CrashStep
  <1>11. CASE Restart BY <1>11, RestartStep
  <1>12. CASE UNCHANGED vars BY <1>12, StutterStep
  <1> QED BY <1>1, <1>2, <1>3, <1>4, <1>5, <1>6, <1>7, <1>8, <1>9, <1>10, <1>11, <1>12
          DEF Next, NodeStep, Persist

\* Every reachable state satisfies the inductive invariant: whatever the reorganizations
\* and crashes, memory, queue and store of apply_and_persist_notification stand in line.
THEOREM InvariantHolds ==
    ASSUME Orderly
    PROVE  Spec => []IInv
  <1>1. Init => IInv BY InitFacts
  <1>2. IInv /\ [Next]_vars => IInv' BY NextStep
  <1> QED BY <1>1, <1>2, PTL DEF Spec

\* verify_poi_chain succeeds on the stored checkpoints in every state, in the middle of an
\* unwind or of a block too, and after every crash.
THEOREM PoiChainAlwaysVerifies ==
    ASSUME Orderly
    PROVE  Spec => []PoiChainVerifies
  <1>1. IInv => PoiChainVerifies BY DEF IInv, PoiInv
  <1> QED BY <1>1, InvariantHolds, PTL

\* When every notification has been handled, the two maps of IngestionState hold the
\* selected chain, committed blocks below probabilistic ones, however deep the
\* reorganizations were.
THEOREM IndexAlwaysFollowsSelectedChain ==
    ASSUME ~SideBlocks, MaxRestarts = 0
    PROVE  Spec => []IndexFollowsSelectedChain
  <1>1. Orderly BY DEF Orderly
  <1>2. IInv => IndexFollowsSelectedChain
    <2> SUFFICES ASSUME IInv, Ready, announced = {}
                 PROVE  /\ committed \cup probabilistic = Range(chain)
                        /\ \A c \in committed, p \in probabilistic : DaaScore[c] < DaaScore[p]
      BY DEF IndexFollowsSelectedChain
    <2>1. up /\ restarts = 0 BY DEF Ready, IInv, TypeOK
    <2>2. Pending = {} BY DEF Ready, Node!Idle, Pending
    <2>3. Line = Range(chain) BY DEF Line
    <2> QED BY <2>1, <2>2, <2>3 DEF IInv, MapInv, Below
  <1> QED BY <1>1, <1>2, InvariantHolds, PTL


\* Every step is one of SelectedChainIndex or leaves its variables unchanged.
LEMMA StepMapsToPile ==
    ASSUME ~SideBlocks, MaxRestarts = 0, IInv, [Next]_vars
    PROVE  [Index!Next]_<<recorded, checkpoints>>
  <1>1. Orderly BY DEF Orderly
  <1>2. restarts = 0 BY DEF IInv, TypeOK
  <1>3. pc = "apply" => Index!Complete
    <2> SUFFICES ASSUME pc = "apply" PROVE DOMAIN checkpoints = Scores(recorded)
      BY DEF Index!Complete, Index!Covered, Scores
    <2>1. Kept \cup Doomed = recorded
      BY DEF Kept, Doomed, Begun, WriteSteps, IInv, PileInv
    <2> QED BY <1>2, <2>1 DEF IInv, PoiInv
  <1>4. CASE UnwindCommitted
    <2>1. /\ unwinds # {} /\ unwinds \subseteq recorded
          /\ recorded' = recorded \ unwinds
          /\ Below(recorded', unwinds)
          /\ checkpoints' = Restrict(checkpoints, DOMAIN checkpoints \ Scores(unwinds))
      BY <1>4, UnwindCommittedStep
    <2>2. recorded \subseteq Block BY DEF IInv, TypeOK
    <2>3. PICK u \in unwinds : \A v \in unwinds : DaaScore[u] <= DaaScore[v]
      <3>1. Scores(unwinds) \in SUBSET Nat /\ Scores(unwinds) # {}
        BY <2>1, <2>2 DEF Scores
      <3>2. PICK n \in Scores(unwinds) : \A m \in Scores(unwinds) : n <= m
        BY <3>1, LeastNat
      <3> QED BY <3>2 DEF Scores
    <2>4. u \in Block /\ DaaScore[u] \in Nat BY <2>1, <2>2
    <2>5. Index!Complete BY <1>3, <1>4 DEF UnwindCommitted, Step
    <2>6. \A b \in recorded : b \in recorded' <=> DaaScore[b] < DaaScore[u]
      BY <2>1, <2>2, <2>3, <2>4 DEF Below
    <2>7. recorded' = {b \in recorded : DaaScore[b] < DaaScore[u]} BY <2>1, <2>6
    <2>8. DOMAIN checkpoints \ Scores(unwinds) = {s \in DOMAIN checkpoints : s < DaaScore[u]}
      <3>1. ASSUME NEW s \in DOMAIN checkpoints
            PROVE  s \notin Scores(unwinds) <=> s < DaaScore[u]
        <4>1. PICK b \in recorded : s = DaaScore[b]
          BY <2>5 DEF Index!Complete, Index!Covered
        <4>2. DaaScore[b] \in Nat BY <2>2
        <4>3. s \notin Scores(unwinds) => s < DaaScore[u]
          BY <2>1, <2>6, <4>1 DEF Scores
        <4>4. s < DaaScore[u] => s \notin Scores(unwinds)
          BY <2>1, <2>2, <2>3, <2>4, <4>1, <4>2 DEF Scores
        <4> QED BY <4>3, <4>4
      <3> QED BY <3>1
    <2>9. Index!TakeAway(DaaScore[u])
      BY <2>1, <2>5, <2>7, <2>8 DEF Index!TakeAway, Index!Restrict, Restrict
    <2> QED BY <2>4, <2>9 DEF Index!Next
  <1>5. CASE RecordBlock
    <2>1. /\ CurrentWrite \in Block /\ recorded' = recorded \cup {CurrentWrite}
          /\ Below(recorded, {CurrentWrite}) /\ checkpoints' = checkpoints
      BY <1>5, RecordBlockStep
    <2>2. Index!Complete BY <1>3, <1>5 DEF RecordBlock, Step
    <2>3. Index!Begin(CurrentWrite) BY <2>1, <2>2 DEF Index!Begin, Below
    <2> QED BY <2>1, <2>3 DEF Index!Next
  <1>6. CASE WriteCheckpoint
    <2>1. /\ CurrentWrite \in recorded /\ DaaScore[CurrentWrite] \notin DOMAIN checkpoints
          /\ DOMAIN checkpoints' = DOMAIN checkpoints \cup {DaaScore[CurrentWrite]}
          /\ \A s \in DOMAIN checkpoints : checkpoints'[s] = checkpoints[s]
          /\ Front(checkpoints'[DaaScore[CurrentWrite]]) = Latest(checkpoints)
          /\ recorded' = recorded
      BY <1>6, WriteCheckpointStep
    <2>2. CurrentWrite \in Block BY <2>1 DEF IInv, TypeOK
    <2>3. Index!Restrict(checkpoints', DOMAIN checkpoints) = checkpoints
      <3>1. checkpoints = [s \in DOMAIN checkpoints |-> checkpoints[s]]
        BY DEF IInv, TypeOK, Keyed
      <3>2. [s \in DOMAIN checkpoints |-> checkpoints'[s]]
               = [s \in DOMAIN checkpoints |-> checkpoints[s]]
        BY <2>1
      <3> QED BY <3>1, <3>2 DEF Index!Restrict
    <2>4. Index!Front(checkpoints'[DaaScore[CurrentWrite]]) = Index!Top
      BY <2>1 DEF Index!Front, Front, Index!Top, Latest, Index!Max, Max
    <2>5. Index!Publish(CurrentWrite) BY <2>1, <2>3, <2>4 DEF Index!Publish
    <2> QED BY <2>2, <2>5 DEF Index!Next
  <1>7. CASE UNCHANGED <<recorded, checkpoints>> BY <1>7
  <1>8. CASE ChainChanged BY <1>1, <1>7, <1>8, ChainChangedStep
  <1>9. CASE ChainChangedUnseen BY <1>1, <1>7, <1>9, ChainChangedUnseenStep
  <1>10. CASE Announce BY <1>1, <1>7, <1>10, AnnounceStep
  <1>11. CASE ApplyBlock BY <1>1, <1>7, <1>11, ApplyBlockStep
  <1>12. CASE Reseed BY <1>7, <1>12, ReseedStep
  <1>13. CASE \/ UnwindEntities \/ UnwindUtxos \/ UnwindSpends \/ UnwindLineage
              \/ WritePatterns \/ WriteUtxos \/ WriteLineage \/ Dispatch
              \/ WriteSpends \/ DispatchSpends
    BY <1>7, <1>13, SilentSteps
  <1>14. CASE Crash BY <1>7, <1>14, CrashStep
  <1>15. CASE Restart BY <1>7, <1>15, RestartStep
  <1>16. CASE UNCHANGED vars BY <1>7, <1>16, StutterStep
  <1> QED BY <1>4, <1>5, <1>6, <1>8, <1>9, <1>10, <1>11, <1>12, <1>13, <1>14, <1>15, <1>16
          DEF Next, NodeStep, Persist

\* The recorded blocks and their checkpoints implement SelectedChainIndex: blocks are laid
\* and completed one on top of the other, and an unwind takes away a part of the top
\* at once, although the code promotes in batches and unwinds by hash.
THEOREM IndexImplementsPile ==
    ASSUME ~SideBlocks, MaxRestarts = 0
    PROVE  Spec => IndexIsAPile
  <1>1. Orderly BY DEF Orderly
  <1>2. Init => Index!Init BY DEF Init, Index!Init
  <1>3. IInv /\ [Next]_vars => [Index!Next]_(Index!pile)
    BY StepMapsToPile DEF Index!pile
  <1> QED BY <1>1, <1>2, <1>3, InvariantHolds, PTL DEF Spec, IndexIsAPile, Index!Spec

\* While upstream respects finality nothing is unwound, and checkpoints are only added.
LEMMA CheckpointsKept ==
    ASSUME ~SideBlocks, RespectsFinality, IInv, [Next]_vars
    PROVE  \A s \in DOMAIN checkpoints :
              /\ s \in DOMAIN checkpoints' /\ checkpoints'[s] = checkpoints[s]
              /\ \A r \in DOMAIN checkpoints' \ DOMAIN checkpoints : s < r
  <1>1. Orderly BY DEF Orderly
  <1>2. ~UnwindCommitted BY DEF UnwindCommitted, IInv, FinalInv
  <1>3. CASE RecordBlock BY <1>3, RecordBlockStep
  <1>4. CASE WriteCheckpoint BY <1>4, WriteCheckpointStep
  <1>5. CASE UNCHANGED <<recorded, checkpoints>> BY <1>5
  <1>6. CASE ChainChanged BY <1>1, <1>5, <1>6, ChainChangedStep
  <1>7. CASE ChainChangedUnseen BY <1>1, <1>5, <1>7, ChainChangedUnseenStep
  <1>8. CASE Announce BY <1>1, <1>5, <1>8, AnnounceStep
  <1>9. CASE ApplyBlock BY <1>1, <1>5, <1>9, ApplyBlockStep
  <1>10. CASE Reseed BY <1>5, <1>10, ReseedStep
  <1>11. CASE \/ UnwindEntities \/ UnwindUtxos \/ UnwindSpends \/ UnwindLineage
              \/ WritePatterns \/ WriteUtxos \/ WriteLineage \/ Dispatch
              \/ WriteSpends \/ DispatchSpends
    BY <1>5, <1>11, SilentSteps
  <1>12. CASE Crash BY <1>5, <1>12, CrashStep
  <1>13. CASE Restart BY <1>5, <1>13, RestartStep
  <1>14. CASE UNCHANGED vars BY <1>5, <1>14, StutterStep
  <1> QED BY <1>2, <1>3, <1>4, <1>6, <1>7, <1>8, <1>9, <1>10, <1>11, <1>12, <1>13, <1>14
          DEF Next, NodeStep, Persist

\* While upstream respects finality a published checkpoint is never changed or removed, and
\* new ones appear only above it, whenever and however often the node crashes.
THEOREM CheckpointsStayStable ==
    ASSUME ~SideBlocks, RespectsFinality
    PROVE  Spec => CheckpointsAreStable
  <1>1. Orderly BY DEF Orderly
  <1>2. IInv /\ [Next]_vars =>
            [ \A s \in DOMAIN checkpoints :
                  /\ s \in DOMAIN checkpoints' /\ checkpoints'[s] = checkpoints[s]
                  /\ \A r \in DOMAIN checkpoints' \ DOMAIN checkpoints : s < r ]_vars
    BY CheckpointsKept
  <1> QED BY <1>1, <1>2, InvariantHolds, PTL DEF Spec, CheckpointsAreStable

\* The blocks of the selected chain have all been accepted.
LEMMA ChainAccepted ==
    ASSUME TypeOK, Range(chain) \subseteq accepted, [Next]_vars
    PROVE  Range(chain)' \subseteq accepted'
  <1>1. CASE UNCHANGED <<chain, accepted>> BY <1>1 DEF Range
  <1>2. ASSUME NEW keep \in 0 .. Len(chain), NEW suffix \in Extensions,
               ReplaceSuffix(keep, suffix)
        PROVE  Range(chain)' \subseteq accepted'
    <2> DEFINE low  == SubSeq(chain, 1, keep)
               next == low \o suffix
    <2>1. chain' = next /\ accepted' = accepted \cup Range(suffix)
      BY <1>2 DEF ReplaceSuffix
    <2>2. /\ low \in Seq(Block) /\ DOMAIN low = 1 .. keep
          /\ \A i \in DOMAIN low : i \in DOMAIN chain /\ low[i] = chain[i]
      BY SMTT(30) DEF TypeOK
    <2>3. suffix \in Seq(Block) OBVIOUS
    <2> HIDE DEF low
    <2>4. \A i \in DOMAIN next : \/ i \in DOMAIN low /\ next[i] = low[i]
                                 \/ /\ i - Len(low) \in DOMAIN suffix
                                    /\ next[i] = suffix[i - Len(low)]
      BY <2>2, <2>3
    <2> HIDE DEF next
    <2>5. Range(next) \subseteq Range(chain) \cup Range(suffix)
      BY <2>2, <2>4 DEF Range
    <2>6. Range(chain)' = Range(next) BY <2>1 DEF Range
    <2> QED BY <2>1, <2>5, <2>6
  <1>3. CASE ChainChanged \/ ChainChangedUnseen
    BY <1>2, <1>3 DEF ChainChanged, ChainChangedUnseen
  <1>4. CASE Announce \/ ApplyBlock \/ Persist \/ Crash \/ Restart \/ UNCHANGED vars
    <2>1. UNCHANGED <<chain, accepted>>
      BY <1>4 DEF Announce, ApplyBlock, Crash, Restart, vars, upstreamVars, Persist,
                  UnwindCommitted, UnwindEntities, UnwindUtxos, UnwindSpends, UnwindLineage,
                  UnwindRows, Reseed, RecordBlock, WritePatterns, WriteUtxos, WriteLineage,
                  Dispatch, WriteSpends, DispatchSpends, WriteCheckpoint, Step
    <2> QED BY <1>1, <2>1
  <1> QED BY <1>3, <1>4 DEF Next, NodeStep

\* A block is committed only after a VirtualChainChanged accepted it, as long as no side
\* block is announced: what run side_block shows to fail with side blocks.
THEOREM CommittedWasAlwaysAccepted ==
    ASSUME Orderly
    PROVE  Spec => []CommittedWasAccepted
  <1> DEFINE Accepted == Range(chain) \subseteq accepted
  <1>1. Init => Accepted BY DEF Init, Range
  <1>2. IInv /\ Accepted /\ [Next]_vars => Accepted'
    <2>1. ASSUME IInv, Accepted, [Next]_vars PROVE Accepted'
      <3>1. Range(chain)' \subseteq accepted' BY <2>1, ChainAccepted DEF IInv
      <3> QED BY <3>1
    <2> QED BY <2>1
  <1>3. IInv /\ Accepted => CommittedWasAccepted
    BY DEF IInv, MapInv, CommittedWasAccepted
  <1> HIDE DEF Accepted
  <1> QED BY <1>1, <1>2, <1>3, InvariantHolds, PTL DEF Spec

------------------------------------------------------------------------------

(***************************************************************************)
(* What the tables of the store hold.                                      *)
(*                                                                         *)
(* Each table lags behind kasgraph_committed_block by the store calls that *)
(* are still to come: while an unwind runs it may hold the unwound blocks  *)
(* still, while a block is written it may lack that one.  Unwinding by     *)
(* hash and by score agree because what is kept lies below what is unwound *)
(* (PileInv).  If the node may crash, the call to come may never come, and *)
(* only that rows belong to recorded blocks is left.                       *)
(***************************************************************************)

\* The blocks of a set with rows of their own, and those with spends.
Locks(blocks)  == blocks \cap Emitting
Spends(blocks) ==
    {b \in blocks \cap Spending : \E c \in Locks(blocks) : DaaScore[c] <= DaaScore[b]}

\* The recorded blocks, with those a table has yet to lose and without the one it
\* has yet to get.
Covered(unwinding, unwritten) ==
    (recorded \cup IF pc \in unwinding THEN unwinds ELSE {})
        \ (IF pc \in unwritten THEN {CurrentWrite} ELSE {})

\* The blocks each table covers; entity versions come from hits and from spends.
PatternBlocks == Covered({}, {"hits"})
UtxoBlocks    == Covered({"unwind entities", "unwind utxos"}, {"hits", "utxos"})
SpendBlocks   == Covered({"unwind entities", "unwind utxos", "unwind spends"},
                         WriteSteps \ {"dispatch spends", "checkpoint"})
LineageBlocks == Covered(UnwindSteps \ {"reseed"}, {"hits", "utxos", "lineage"})
HitBlocks     == Covered({"unwind entities"}, {"hits", "utxos", "lineage", "dispatch"})
SpendHits     == Covered({"unwind entities"}, WriteSteps \ {"checkpoint"})

\* Without crashes: every table holds exactly the rows of the blocks it covers.
TablesInv ==
    /\ rows \in [Table -> SUBSET Block]
    /\ rows["pattern"] = Locks(PatternBlocks)
    /\ rows["utxo"] = Locks(UtxoBlocks)
    /\ rows["lineage"] = Locks(LineageBlocks)
    /\ rows["spend"] = Spends(SpendBlocks)
    /\ DOMAIN entities = Scores(Locks(HitBlocks) \cup Spends(SpendHits))

\* With crashes, while upstream respects finality.
RowsInv ==
    /\ rows \in [Table -> SUBSET Block]
    /\ \A t \in Table : rows[t] \subseteq recorded
    /\ DOMAIN entities \subseteq Scores(recorded)

------------------------------------------------------------------------------

\* Between two notifications and before an unwind, the tables cover what is recorded.
LEMMA AtRest ==
    ASSUME pc = "apply"
    PROVE  /\ PatternBlocks = recorded /\ UtxoBlocks = recorded /\ LineageBlocks = recorded
           /\ SpendBlocks = recorded /\ HitBlocks = recorded /\ SpendHits = recorded
  BY DEF PatternBlocks, UtxoBlocks, LineageBlocks, SpendBlocks, HitBlocks, SpendHits, Covered,
         UnwindSteps, WriteSteps

\* The same of the state after a step.
LEMMA RestTables ==
    ASSUME pc' = "apply", rows' \in [Table -> SUBSET Block],
           rows'["pattern"] = Locks(recorded'), rows'["utxo"] = Locks(recorded'),
           rows'["lineage"] = Locks(recorded'), rows'["spend"] = Spends(recorded'),
           DOMAIN entities' = Scores(Locks(recorded') \cup Spends(recorded'))
    PROVE  TablesInv'
  <1>1. /\ PatternBlocks' = recorded' /\ UtxoBlocks' = recorded' /\ LineageBlocks' = recorded'
        /\ SpendBlocks' = recorded' /\ HitBlocks' = recorded' /\ SpendHits' = recorded'
    BY DEF PatternBlocks, UtxoBlocks, LineageBlocks, SpendBlocks, HitBlocks, SpendHits, Covered,
           UnwindSteps, WriteSteps
  <1> QED BY <1>1 DEF TablesInv, Scores, Locks, Spends

\* The cutoff of an unwind separates what is kept from what is unwound.
LEMMA UnwindShape ==
    ASSUME IInv, pc \in UnwindSteps
    PROVE  /\ recorded \subseteq Block /\ unwinds \subseteq Block
           /\ Cutoff \in Nat
           /\ \A b \in recorded : DaaScore[b] < Cutoff
           /\ \A b \in unwinds : Cutoff <= DaaScore[b]
  <1>1. recorded \subseteq Block /\ unwinds \subseteq Block /\ unwinds # {}
    BY DEF IInv, TypeOK, QueueInv
  <1>2. Below(recorded, unwinds)
    <2>1. Kept = recorded BY DEF Kept, Doomed, Begun, UnwindSteps, WriteSteps
    <2> QED BY <2>1 DEF IInv, PileInv, Below
  <1>3. Scores(unwinds) \in SUBSET Nat /\ Scores(unwinds) # {} BY <1>1 DEF Scores
  <1>4. Cutoff \in Scores(unwinds) /\ \A s \in Scores(unwinds) : Cutoff <= s
    BY <1>3, MinFacts DEF Cutoff
  <1>5. \A b \in unwinds : Cutoff <= DaaScore[b] BY <1>4 DEF Scores
  <1>6. PICK u \in unwinds : Cutoff = DaaScore[u] BY <1>4 DEF Scores
  <1>7. \A b \in recorded : DaaScore[b] < Cutoff BY <1>2, <1>6 DEF Below
  <1>8. Cutoff \in Nat BY <1>3, <1>4
  <1> QED BY <1>1, <1>5, <1>7, <1>8

\* Clearing a table from the cutoff on leaves exactly the rows of what is kept.
LEMMA CutFacts ==
    ASSUME IInv, pc \in UnwindSteps
    PROVE  /\ {b \in Locks(recorded \cup unwinds) : DaaScore[b] < Cutoff} = Locks(recorded)
           /\ {b \in Spends(recorded \cup unwinds) : DaaScore[b] < Cutoff} = Spends(recorded)
           /\ {s \in Scores(Locks(recorded \cup unwinds) \cup Spends(recorded \cup unwinds)) :
                  s < Cutoff}
                = Scores(Locks(recorded) \cup Spends(recorded))
  <1> DEFINE all == recorded \cup unwinds
  <1>1. /\ recorded \subseteq Block /\ unwinds \subseteq Block
        /\ Cutoff \in Nat
        /\ \A b \in recorded : DaaScore[b] < Cutoff
        /\ \A b \in unwinds : Cutoff <= DaaScore[b]
    BY UnwindShape
  <1>2. \A b \in all : b \in Block /\ (DaaScore[b] < Cutoff <=> b \in recorded)
    BY <1>1
  <1>3. {b \in Locks(all) : DaaScore[b] < Cutoff} = Locks(recorded)
    BY <1>2 DEF Locks
  <1>4. {b \in Spends(all) : DaaScore[b] < Cutoff} = Spends(recorded)
    <2>1. ASSUME NEW b \in Spends(all), DaaScore[b] < Cutoff
          PROVE  b \in Spends(recorded)
      <3>1. b \in recorded /\ b \in Spending BY <1>2, <2>1 DEF Spends
      <3>2. PICK c \in Locks(all) : DaaScore[c] <= DaaScore[b] BY DEF Spends
      <3>3. c \in all /\ DaaScore[c] \in Nat /\ DaaScore[b] \in Nat
        BY <1>1, <1>2, <3>1 DEF Locks
      <3>4. DaaScore[c] < Cutoff BY <1>1, <2>1, <3>2, <3>3
      <3>5. c \in Locks(recorded) BY <1>2, <3>3, <3>4 DEF Locks
      <3> QED BY <3>1, <3>2, <3>5 DEF Spends
    <2>2. ASSUME NEW b \in Spends(recorded)
          PROVE  b \in Spends(all) /\ DaaScore[b] < Cutoff
      BY <1>1 DEF Spends, Locks
    <2> QED BY <2>1, <2>2
  <1>5. {s \in Scores(Locks(all) \cup Spends(all)) : s < Cutoff}
           = Scores({b \in Locks(all) : DaaScore[b] < Cutoff}
                       \cup {b \in Spends(all) : DaaScore[b] < Cutoff})
    BY DEF Scores
  <1> QED BY <1>3, <1>4, <1>5

\* The block being written is the highest recorded.
LEMMA WriteShape ==
    ASSUME IInv, pc \in WriteSteps
    PROVE  /\ recorded \subseteq Block /\ CurrentWrite \in recorded
           /\ Below(recorded \ {CurrentWrite}, {CurrentWrite})
  <1>1. /\ recorded \subseteq Block /\ CurrentWrite \in recorded /\ writes # <<>>
    BY DEF IInv, TypeOK, QueueInv
  <1>2. Kept = recorded \ {CurrentWrite} BY DEF Kept, Doomed, Begun, WriteSteps
  <1>3. CurrentWrite \in Queued BY <1>1, RestFacts DEF IInv
  <1> QED BY <1>1, <1>2, <1>3 DEF IInv, PileInv, Below

\* Writing a block on top adds its own spend only, if a lock is there to be spent.
LEMMA SpendsFound ==
    ASSUME NEW all \in SUBSET Block, NEW w \in all, Below(all \ {w}, {w})
    PROVE  Spends(all) = Spends(all \ {w})
                           \cup (IF w \in Spending /\ Locks(all) # {} THEN {w} ELSE {})
  <1> DEFINE low == all \ {w}
  <1>1. \A b \in low : DaaScore[b] < DaaScore[w] BY DEF Below
  <1>2. \A b \in all : DaaScore[b] \in Nat OBVIOUS
  <1>3. ASSUME NEW b \in Spends(all), b # w
        PROVE  b \in Spends(low)
    <2>1. b \in low /\ b \in Spending BY <1>3 DEF Spends
    <2>2. PICK c \in Locks(all) : DaaScore[c] <= DaaScore[b] BY DEF Spends
    <2>3. c \in all /\ c \in Emitting BY DEF Locks
    <2>4. c # w BY <1>1, <1>2, <2>1, <2>2, <2>3
    <2> QED BY <2>1, <2>2, <2>3, <2>4 DEF Spends, Locks
  <1>4. Spends(low) \subseteq Spends(all) BY DEF Spends, Locks
  <1>5. w \in Spends(all) => w \in Spending /\ Locks(all) # {} BY DEF Spends
  <1>6. ASSUME w \in Spending, Locks(all) # {}
        PROVE  w \in Spends(all)
    <2>1. PICK c \in Locks(all) : TRUE BY <1>6
    <2>2. DaaScore[c] <= DaaScore[w] BY <1>1, <1>2 DEF Locks
    <2> QED BY <1>6, <2>2 DEF Spends
  <1> HIDE DEF low
  <1>7. CASE w \in Spending /\ Locks(all) # {}
    BY <1>3, <1>4, <1>6, <1>7 DEF low
  <1>8. CASE ~(w \in Spending /\ Locks(all) # {})
    <2>1. w \notin Spends(all) BY <1>5, <1>8
    <2> QED BY <1>3, <1>4, <1>8, <2>1 DEF low
  <1> QED BY <1>7, <1>8

\* One table changes.
LEMMA RowUpdated ==
    ASSUME TablesInv, NEW t \in Table, NEW new \in SUBSET Block,
           rows' = [rows EXCEPT ![t] = new]
    PROVE  /\ rows' \in [Table -> SUBSET Block]
           /\ rows'[t] = new
           /\ \A u \in Table : u # t => rows'[u] = rows[u]
  BY DEF TablesInv

\* Steps taken between two notifications, or in memory only.
LEMMA RestKeepsTables ==
    ASSUME TablesInv, pc = "apply", UNCHANGED <<pc, rows, entities, recorded>>
    PROVE  TablesInv'
  <1>1. /\ PatternBlocks = recorded /\ UtxoBlocks = recorded /\ LineageBlocks = recorded
        /\ SpendBlocks = recorded /\ HitBlocks = recorded /\ SpendHits = recorded
    BY AtRest
  <1> QED BY <1>1, RestTables DEF TablesInv

\* The unwind by hash.
LEMMA UnwindCommittedTables ==
    ASSUME IInv, TablesInv, UnwindCommitted
    PROVE  TablesInv'
  <1>1. /\ pc = "apply" /\ pc' = "unwind entities" /\ unwinds' = unwinds
        /\ rows' = [rows EXCEPT !["pattern"] = @ \ (unwinds \cap recorded)]
        /\ entities' = entities
        /\ unwinds \subseteq recorded /\ recorded' = recorded \ unwinds
    BY UnwindCommittedStep DEF UnwindCommitted, Step
  <1>2. /\ PatternBlocks = recorded /\ UtxoBlocks = recorded /\ LineageBlocks = recorded
        /\ SpendBlocks = recorded /\ HitBlocks = recorded /\ SpendHits = recorded
    BY <1>1, AtRest
  <1>3. /\ PatternBlocks' = recorded \ unwinds /\ UtxoBlocks' = recorded
        /\ LineageBlocks' = recorded /\ SpendBlocks' = recorded
        /\ HitBlocks' = recorded /\ SpendHits' = recorded
    BY <1>1 DEF PatternBlocks, UtxoBlocks, LineageBlocks, SpendBlocks, HitBlocks, SpendHits,
                Covered, UnwindSteps, WriteSteps
  <1>4. /\ rows' \in [Table -> SUBSET Block]
        /\ rows'["pattern"] = rows["pattern"] \ (unwinds \cap recorded)
        /\ \A t \in Table : t # "pattern" => rows'[t] = rows[t]
    BY <1>1 DEF TablesInv, Table
  <1>5. rows'["pattern"] = Locks(PatternBlocks') BY <1>1, <1>2, <1>3, <1>4 DEF TablesInv, Locks
  <1> QED BY <1>1, <1>2, <1>3, <1>4, <1>5 DEF TablesInv, Scores, Locks, Spends, Table

\* The unwinds by score, one table after the other.
LEMMA UnwindTables ==
    ASSUME IInv, TablesInv,
           UnwindEntities \/ UnwindUtxos \/ UnwindSpends \/ UnwindLineage
    PROVE  TablesInv'
  <1>1. UNCHANGED <<unwinds, recorded>> /\ pc \in UnwindSteps /\ pc' \in UnwindSteps
    BY DEF UnwindEntities, UnwindUtxos, UnwindSpends, UnwindLineage, UnwindRows, Step, UnwindSteps
  <1> DEFINE all == recorded \cup unwinds
  <1>2. /\ {b \in Locks(all) : DaaScore[b] < Cutoff} = Locks(recorded)
        /\ {b \in Spends(all) : DaaScore[b] < Cutoff} = Spends(recorded)
        /\ {s \in Scores(Locks(all) \cup Spends(all)) : s < Cutoff}
             = Scores(Locks(recorded) \cup Spends(recorded))
    BY <1>1, CutFacts
  <1>3. all \subseteq Block /\ recorded \subseteq Block BY <1>1, UnwindShape
  <1>4. Locks(recorded) \subseteq Block /\ Spends(recorded) \subseteq Block
    BY <1>3 DEF Locks, Spends
  <1> HIDE DEF all
  <1>5. CASE UnwindEntities
    <2>1. /\ pc = "unwind entities" /\ pc' = "unwind utxos" /\ rows' = rows
          /\ entities' = Restrict(entities, {s \in DOMAIN entities : s < Cutoff})
      BY <1>5 DEF UnwindEntities, Step
    <2>2. /\ PatternBlocks = recorded /\ UtxoBlocks = all
          /\ LineageBlocks = all /\ SpendBlocks = all /\ HitBlocks = all /\ SpendHits = all
          /\ PatternBlocks' = recorded /\ UtxoBlocks' = all
          /\ LineageBlocks' = all /\ SpendBlocks' = all
          /\ HitBlocks' = recorded /\ SpendHits' = recorded
      BY <1>1, <2>1 DEF PatternBlocks, UtxoBlocks, LineageBlocks, SpendBlocks, HitBlocks,
                        SpendHits, Covered, UnwindSteps, WriteSteps, all
    <2>3. DOMAIN entities' = {s \in DOMAIN entities : s < Cutoff} BY <2>1 DEF Restrict
    <2>4. DOMAIN entities' = Scores(Locks(recorded) \cup Spends(recorded))
      BY <1>2, <2>2, <2>3 DEF TablesInv
    <2> QED BY <2>1, <2>2, <2>4 DEF TablesInv, Scores, Locks, Spends
  <1>6. CASE UnwindUtxos
    <2>1. /\ pc = "unwind utxos" /\ pc' = "unwind spends" /\ entities' = entities
          /\ rows' = [rows EXCEPT !["utxo"] = {b \in rows["utxo"] : DaaScore[b] < Cutoff}]
      BY <1>6 DEF UnwindUtxos, UnwindRows, Step
    <2>2. /\ PatternBlocks = recorded /\ UtxoBlocks = all
          /\ LineageBlocks = all /\ SpendBlocks = all
          /\ HitBlocks = recorded /\ SpendHits = recorded
          /\ PatternBlocks' = recorded /\ UtxoBlocks' = recorded
          /\ LineageBlocks' = all /\ SpendBlocks' = all
          /\ HitBlocks' = recorded /\ SpendHits' = recorded
      BY <1>1, <2>1 DEF PatternBlocks, UtxoBlocks, LineageBlocks, SpendBlocks, HitBlocks,
                        SpendHits, Covered, UnwindSteps, WriteSteps, all
    <2>3. rows' = [rows EXCEPT !["utxo"] = Locks(recorded)]
      BY <1>2, <2>1, <2>2 DEF TablesInv
    <2>4. /\ rows' \in [Table -> SUBSET Block] /\ rows'["utxo"] = Locks(recorded)
          /\ \A t \in Table : t # "utxo" => rows'[t] = rows[t]
      BY <1>4, <2>3, RowUpdated DEF Table
    <2> QED BY <2>1, <2>2, <2>4 DEF TablesInv, Scores, Locks, Spends, Table
  <1>7. CASE UnwindSpends
    <2>1. /\ pc = "unwind spends" /\ pc' = "unwind lineage" /\ entities' = entities
          /\ rows' = [rows EXCEPT !["spend"] = {b \in rows["spend"] : DaaScore[b] < Cutoff}]
      BY <1>7 DEF UnwindSpends, UnwindRows, Step
    <2>2. /\ PatternBlocks = recorded /\ UtxoBlocks = recorded
          /\ LineageBlocks = all /\ SpendBlocks = all
          /\ HitBlocks = recorded /\ SpendHits = recorded
          /\ PatternBlocks' = recorded /\ UtxoBlocks' = recorded
          /\ LineageBlocks' = all /\ SpendBlocks' = recorded
          /\ HitBlocks' = recorded /\ SpendHits' = recorded
      BY <1>1, <2>1 DEF PatternBlocks, UtxoBlocks, LineageBlocks, SpendBlocks, HitBlocks,
                        SpendHits, Covered, UnwindSteps, WriteSteps, all
    <2>3. rows' = [rows EXCEPT !["spend"] = Spends(recorded)]
      BY <1>2, <2>1, <2>2 DEF TablesInv
    <2>4. /\ rows' \in [Table -> SUBSET Block] /\ rows'["spend"] = Spends(recorded)
          /\ \A t \in Table : t # "spend" => rows'[t] = rows[t]
      BY <1>4, <2>3, RowUpdated DEF Table
    <2> QED BY <2>1, <2>2, <2>4 DEF TablesInv, Scores, Locks, Spends, Table
  <1>8. CASE UnwindLineage
    <2>1. /\ pc = "unwind lineage" /\ pc' = "reseed" /\ entities' = entities
          /\ rows' = [rows EXCEPT !["lineage"] = {b \in rows["lineage"] : DaaScore[b] < Cutoff}]
      BY <1>8 DEF UnwindLineage, UnwindRows, Step
    <2>2. /\ PatternBlocks = recorded /\ UtxoBlocks = recorded
          /\ LineageBlocks = all /\ SpendBlocks = recorded
          /\ HitBlocks = recorded /\ SpendHits = recorded
          /\ PatternBlocks' = recorded /\ UtxoBlocks' = recorded
          /\ LineageBlocks' = recorded /\ SpendBlocks' = recorded
          /\ HitBlocks' = recorded /\ SpendHits' = recorded
      BY <1>1, <2>1 DEF PatternBlocks, UtxoBlocks, LineageBlocks, SpendBlocks, HitBlocks,
                        SpendHits, Covered, UnwindSteps, WriteSteps, all
    <2>3. rows' = [rows EXCEPT !["lineage"] = Locks(recorded)]
      BY <1>2, <2>1, <2>2 DEF TablesInv
    <2>4. /\ rows' \in [Table -> SUBSET Block] /\ rows'["lineage"] = Locks(recorded)
          /\ \A t \in Table : t # "lineage" => rows'[t] = rows[t]
      BY <1>4, <2>3, RowUpdated DEF Table
    <2> QED BY <2>1, <2>2, <2>4 DEF TablesInv, Scores, Locks, Spends, Table
  <1> QED BY <1>5, <1>6, <1>7, <1>8

\* A block is recorded, its rows are still to come.
LEMMA RecordBlockTables ==
    ASSUME IInv, TablesInv, RecordBlock
    PROVE  TablesInv'
  <1>1. /\ pc = "apply" /\ pc' = "hits" /\ UNCHANGED <<writes, rows, entities, unwinds>>
        /\ CurrentWrite \in Block /\ recorded' = recorded \cup {CurrentWrite}
        /\ Below(recorded, {CurrentWrite})
    BY RecordBlockStep DEF RecordBlock, Step
  <1>2. CurrentWrite' = CurrentWrite BY <1>1 DEF CurrentWrite
  <1>3. CurrentWrite \notin recorded
    <2>1. DaaScore[CurrentWrite] \in Nat BY <1>1
    <2> QED BY <1>1, <2>1 DEF Below
  <1>4. /\ PatternBlocks = recorded /\ UtxoBlocks = recorded /\ LineageBlocks = recorded
        /\ SpendBlocks = recorded /\ HitBlocks = recorded /\ SpendHits = recorded
    BY <1>1, AtRest
  <1>5. /\ PatternBlocks' = recorded /\ UtxoBlocks' = recorded /\ LineageBlocks' = recorded
        /\ SpendBlocks' = recorded /\ HitBlocks' = recorded /\ SpendHits' = recorded
    BY <1>1, <1>2, <1>3
       DEF PatternBlocks, UtxoBlocks, LineageBlocks, SpendBlocks, HitBlocks, SpendHits, Covered,
           UnwindSteps, WriteSteps
  <1> QED BY <1>1, <1>4, <1>5 DEF TablesInv, Scores, Locks, Spends

\* The rows of a block are written, table by table.
LEMMA WriteTables ==
    ASSUME IInv, TablesInv,
           \/ WritePatterns \/ WriteUtxos \/ WriteLineage \/ Dispatch
           \/ WriteSpends \/ DispatchSpends
    PROVE  TablesInv'
  <1> DEFINE cw  == CurrentWrite
             low == recorded \ {CurrentWrite}
  <1>1. UNCHANGED <<writes, recorded>> /\ pc \in WriteSteps
    BY DEF WritePatterns, WriteUtxos, WriteLineage, Dispatch, WriteSpends, DispatchSpends, Step,
           WriteSteps
  <1>2. CurrentWrite' = CurrentWrite BY <1>1 DEF CurrentWrite
  <1>3. /\ recorded \subseteq Block /\ cw \in recorded /\ Below(low, {cw})
    BY <1>1, WriteShape
  <1>4. Locks(low) \cup ({cw} \cap Emitting) = Locks(recorded) BY <1>3 DEF Locks
  <1>5. Spends(recorded) = Spends(low)
                             \cup (IF cw \in Spending /\ Locks(recorded) # {} THEN {cw} ELSE {})
    BY <1>3, SpendsFound
  <1>6. Locks(recorded) \subseteq Block /\ Spends(recorded) \subseteq Block
    BY <1>3 DEF Locks, Spends
  <1>7. CASE WritePatterns
    <2>1. /\ pc = "hits" /\ pc' = "utxos" /\ entities' = entities
          /\ rows' = [rows EXCEPT !["pattern"] = rows["pattern"] \cup ({cw} \cap Emitting)]
      BY <1>7 DEF WritePatterns, WriteRow, Step
    <2>2. /\ PatternBlocks = low /\ UtxoBlocks = low
          /\ LineageBlocks = low /\ SpendBlocks = low
          /\ HitBlocks = low /\ SpendHits = low
          /\ PatternBlocks' = recorded /\ UtxoBlocks' = low
          /\ LineageBlocks' = low /\ SpendBlocks' = low
          /\ HitBlocks' = low /\ SpendHits' = low
      BY <1>1, <1>2, <2>1 DEF PatternBlocks, UtxoBlocks, LineageBlocks, SpendBlocks, HitBlocks,
                              SpendHits, Covered, UnwindSteps, WriteSteps
    <2>3. rows' = [rows EXCEPT !["pattern"] = Locks(recorded)]
      BY <1>4, <2>1, <2>2 DEF TablesInv
    <2>4. /\ rows' \in [Table -> SUBSET Block] /\ rows'["pattern"] = Locks(recorded)
          /\ \A t \in Table : t # "pattern" => rows'[t] = rows[t]
      BY <1>6, <2>3, RowUpdated DEF Table
    <2> QED BY <1>1, <2>1, <2>2, <2>4 DEF TablesInv, Scores, Locks, Spends, Table
  <1>8. CASE WriteUtxos
    <2>1. /\ pc = "utxos" /\ pc' = "lineage" /\ entities' = entities
          /\ rows' = [rows EXCEPT !["utxo"] = rows["utxo"] \cup ({cw} \cap Emitting)]
      BY <1>8 DEF WriteUtxos, WriteRow, Step
    <2>2. /\ PatternBlocks = recorded /\ UtxoBlocks = low
          /\ LineageBlocks = low /\ SpendBlocks = low
          /\ HitBlocks = low /\ SpendHits = low
          /\ PatternBlocks' = recorded /\ UtxoBlocks' = recorded
          /\ LineageBlocks' = low /\ SpendBlocks' = low
          /\ HitBlocks' = low /\ SpendHits' = low
      BY <1>1, <1>2, <2>1 DEF PatternBlocks, UtxoBlocks, LineageBlocks, SpendBlocks, HitBlocks,
                              SpendHits, Covered, UnwindSteps, WriteSteps
    <2>3. rows' = [rows EXCEPT !["utxo"] = Locks(recorded)]
      BY <1>4, <2>1, <2>2 DEF TablesInv
    <2>4. /\ rows' \in [Table -> SUBSET Block] /\ rows'["utxo"] = Locks(recorded)
          /\ \A t \in Table : t # "utxo" => rows'[t] = rows[t]
      BY <1>6, <2>3, RowUpdated DEF Table
    <2> QED BY <1>1, <2>1, <2>2, <2>4 DEF TablesInv, Scores, Locks, Spends, Table
  <1>9. CASE WriteLineage
    <2>1. /\ pc = "lineage" /\ pc' = "dispatch" /\ entities' = entities
          /\ rows' = [rows EXCEPT !["lineage"] = rows["lineage"] \cup ({cw} \cap Emitting)]
      BY <1>9 DEF WriteLineage, WriteRow, Step
    <2>2. /\ PatternBlocks = recorded /\ UtxoBlocks = recorded
          /\ LineageBlocks = low /\ SpendBlocks = low
          /\ HitBlocks = low /\ SpendHits = low
          /\ PatternBlocks' = recorded /\ UtxoBlocks' = recorded
          /\ LineageBlocks' = recorded /\ SpendBlocks' = low
          /\ HitBlocks' = low /\ SpendHits' = low
      BY <1>1, <1>2, <2>1 DEF PatternBlocks, UtxoBlocks, LineageBlocks, SpendBlocks, HitBlocks,
                              SpendHits, Covered, UnwindSteps, WriteSteps
    <2>3. rows' = [rows EXCEPT !["lineage"] = Locks(recorded)]
      BY <1>4, <2>1, <2>2 DEF TablesInv
    <2>4. /\ rows' \in [Table -> SUBSET Block] /\ rows'["lineage"] = Locks(recorded)
          /\ \A t \in Table : t # "lineage" => rows'[t] = rows[t]
      BY <1>6, <2>3, RowUpdated DEF Table
    <2> QED BY <1>1, <2>1, <2>2, <2>4 DEF TablesInv, Scores, Locks, Spends, Table
  <1>10. CASE Dispatch
    <2>1. /\ pc = "dispatch" /\ pc' = "spends" /\ rows' = rows
          /\ IF cw \in Emitting THEN UpsertVersion ELSE entities' = entities
      BY <1>10 DEF Dispatch, Step
    <2>2. /\ PatternBlocks = recorded /\ UtxoBlocks = recorded
          /\ LineageBlocks = recorded /\ SpendBlocks = low
          /\ HitBlocks = low /\ SpendHits = low
          /\ PatternBlocks' = recorded /\ UtxoBlocks' = recorded
          /\ LineageBlocks' = recorded /\ SpendBlocks' = low
          /\ HitBlocks' = recorded /\ SpendHits' = low
      BY <1>1, <1>2, <2>1 DEF PatternBlocks, UtxoBlocks, LineageBlocks, SpendBlocks, HitBlocks,
                              SpendHits, Covered, UnwindSteps, WriteSteps
    <2>3. DOMAIN entities' = Scores(Locks(recorded) \cup Spends(low))
      <3>1. CASE cw \in Emitting
        <4>1. DOMAIN entities' = DOMAIN entities \cup {DaaScore[cw]}
          BY <2>1, <3>1 DEF UpsertVersion, Upsert
        <4>2. Locks(recorded) = Locks(low) \cup {cw} BY <1>4, <3>1
        <4> QED BY <2>2, <4>1, <4>2 DEF TablesInv, Scores
      <3>2. CASE cw \notin Emitting
        <4>1. Locks(recorded) = Locks(low) BY <1>4, <3>2
        <4> QED BY <2>1, <2>2, <3>2, <4>1 DEF TablesInv
      <3> QED BY <3>1, <3>2
    <2>4. DOMAIN entities' = Scores(Locks(HitBlocks) \cup Spends(SpendHits))'
      BY <1>1, <2>2, <2>3 DEF Scores, Locks, Spends
    <2> QED BY <1>1, <2>1, <2>2, <2>4 DEF TablesInv, Locks, Spends
  <1>11. CASE WriteSpends
    <2>1. /\ pc = "spends" /\ pc' = "dispatch spends" /\ entities' = entities
          /\ IF SpendFound
             THEN rows' = [rows EXCEPT !["spend"] = rows["spend"] \cup ({cw} \cap Spending)]
             ELSE rows' = rows
      BY <1>11 DEF WriteSpends, WriteRow, Step
    <2>2. /\ PatternBlocks = recorded /\ UtxoBlocks = recorded
          /\ LineageBlocks = recorded /\ SpendBlocks = low
          /\ HitBlocks = recorded /\ SpendHits = low
          /\ PatternBlocks' = recorded /\ UtxoBlocks' = recorded
          /\ LineageBlocks' = recorded /\ SpendBlocks' = recorded
          /\ HitBlocks' = recorded /\ SpendHits' = low
      BY <1>1, <1>2, <2>1 DEF PatternBlocks, UtxoBlocks, LineageBlocks, SpendBlocks, HitBlocks,
                              SpendHits, Covered, UnwindSteps, WriteSteps
    <2>3. SpendFound <=> cw \in Spending /\ Locks(recorded) # {}
      BY <2>2 DEF SpendFound, TablesInv
    <2>4. /\ rows' \in [Table -> SUBSET Block] /\ rows'["spend"] = Spends(recorded)
          /\ \A t \in Table : t # "spend" => rows'[t] = rows[t]
      <3>1. CASE SpendFound
        <4>1. rows["spend"] \cup ({cw} \cap Spending) = Spends(recorded)
          BY <1>5, <2>2, <2>3, <3>1 DEF TablesInv
        <4>2. rows' = [rows EXCEPT !["spend"] = Spends(recorded)] BY <2>1, <3>1, <4>1
        <4> QED BY <1>6, <4>2, RowUpdated DEF Table
      <3>2. CASE ~SpendFound
        <4>1. Spends(low) = Spends(recorded) BY <1>5, <2>3, <3>2
        <4> QED BY <2>1, <2>2, <3>2, <4>1 DEF TablesInv
      <3> QED BY <3>1, <3>2
    <2> QED BY <1>1, <2>1, <2>2, <2>4 DEF TablesInv, Scores, Locks, Spends, Table
  <1>12. CASE DispatchSpends
    <2>1. /\ pc = "dispatch spends" /\ pc' = "checkpoint" /\ rows' = rows
          /\ IF SpendFound THEN UpsertVersion ELSE entities' = entities
      BY <1>12 DEF DispatchSpends, Step
    <2>2. /\ PatternBlocks = recorded /\ UtxoBlocks = recorded
          /\ LineageBlocks = recorded /\ SpendBlocks = recorded
          /\ HitBlocks = recorded /\ SpendHits = low
          /\ PatternBlocks' = recorded /\ UtxoBlocks' = recorded
          /\ LineageBlocks' = recorded /\ SpendBlocks' = recorded
          /\ HitBlocks' = recorded /\ SpendHits' = recorded
      BY <1>1, <1>2, <2>1 DEF PatternBlocks, UtxoBlocks, LineageBlocks, SpendBlocks, HitBlocks,
                              SpendHits, Covered, UnwindSteps, WriteSteps
    <2>3. SpendFound <=> cw \in Spending /\ Locks(recorded) # {}
      BY <2>2 DEF SpendFound, TablesInv
    <2>4. DOMAIN entities' = Scores(Locks(recorded) \cup Spends(recorded))
      <3>1. CASE SpendFound
        <4>1. DOMAIN entities' = DOMAIN entities \cup {DaaScore[cw]}
          BY <2>1, <3>1 DEF UpsertVersion, Upsert
        <4>2. Spends(recorded) = Spends(low) \cup {cw} BY <1>5, <2>3, <3>1
        <4> QED BY <2>2, <4>1, <4>2 DEF TablesInv, Scores
      <3>2. CASE ~SpendFound
        <4>1. Spends(low) = Spends(recorded) BY <1>5, <2>3, <3>2
        <4> QED BY <2>1, <2>2, <3>2, <4>1 DEF TablesInv
      <3> QED BY <3>1, <3>2
    <2>5. DOMAIN entities' = Scores(Locks(HitBlocks) \cup Spends(SpendHits))'
      BY <1>1, <2>2, <2>4 DEF Scores, Locks, Spends
    <2> QED BY <1>1, <2>1, <2>2, <2>5 DEF TablesInv, Locks, Spends
  <1> QED BY <1>7, <1>8, <1>9, <1>10, <1>11, <1>12

\* The last store call of a block and of an unwind.
LEMMA FinishTables ==
    ASSUME IInv, TablesInv, WriteCheckpoint \/ Reseed
    PROVE  TablesInv'
  <1>1. /\ pc \in {"checkpoint", "reseed"} /\ pc' = "apply"
        /\ UNCHANGED <<rows, entities, recorded>>
    BY DEF WriteCheckpoint, Reseed, Step, storeVars
  <1>2. /\ PatternBlocks = recorded /\ UtxoBlocks = recorded /\ LineageBlocks = recorded
        /\ SpendBlocks = recorded /\ HitBlocks = recorded /\ SpendHits = recorded
    BY <1>1 DEF PatternBlocks, UtxoBlocks, LineageBlocks, SpendBlocks, HitBlocks, SpendHits,
                Covered, UnwindSteps, WriteSteps
  <1> QED BY <1>1, <1>2, RestTables DEF TablesInv

\* TablesInv is inductive.
LEMMA TablesStep ==
    ASSUME MaxRestarts = 0, IInv, TablesInv, [Next]_vars
    PROVE  TablesInv'
  <1>1. CASE ChainChanged \/ Announce \/ ApplyBlock
    <2>1. pc = "apply" /\ UNCHANGED <<pc, rows, entities, recorded>>
      BY <1>1 DEF ChainChanged, Announce, ApplyBlock, Ready, handlerVars, storeVars
    <2> QED BY <2>1, RestKeepsTables
  <1>2. CASE ChainChangedUnseen \/ Restart
    <2>1. FALSE BY <1>2 DEF ChainChangedUnseen, Restart, IInv, Stopped, TypeOK
    <2> QED BY <2>1
  <1>3. CASE Crash
    <2>1. FALSE BY <1>3 DEF Crash, IInv, TypeOK
    <2> QED BY <2>1
  <1>4. CASE UnwindCommitted BY <1>4, UnwindCommittedTables
  <1>5. CASE UnwindEntities \/ UnwindUtxos \/ UnwindSpends \/ UnwindLineage BY <1>5, UnwindTables
  <1>6. CASE RecordBlock BY <1>6, RecordBlockTables
  <1>7. CASE \/ WritePatterns \/ WriteUtxos \/ WriteLineage \/ Dispatch
             \/ WriteSpends \/ DispatchSpends
    BY <1>7, WriteTables
  <1>8. CASE WriteCheckpoint \/ Reseed BY <1>8, FinishTables
  <1>9. CASE UNCHANGED vars
    <2>1. UNCHANGED <<recorded, unwinds, pc, writes, rows, entities>>
      BY <1>9 DEF vars, ingestionVars, handlerVars, storeVars
    <2>2. UNCHANGED <<PatternBlocks, UtxoBlocks, LineageBlocks, SpendBlocks, HitBlocks, SpendHits>>
      BY <2>1 DEF PatternBlocks, UtxoBlocks, LineageBlocks, SpendBlocks, HitBlocks, SpendHits,
                  Covered, CurrentWrite
    <2> QED BY <2>1, <2>2 DEF TablesInv, Locks, Spends, Scores
  <1> QED BY <1>1, <1>2, <1>3, <1>4, <1>5, <1>6, <1>7, <1>8, <1>9 DEF Next, NodeStep, Persist

\* The initial state.
LEMMA InitTables ==
    ASSUME Init
    PROVE  TablesInv
  <1>1. /\ pc = "apply" /\ recorded = {} /\ entities = <<>>
        /\ rows = [t \in Table |-> {}]
    BY DEF Init
  <1>2. /\ PatternBlocks = recorded /\ UtxoBlocks = recorded /\ LineageBlocks = recorded
        /\ SpendBlocks = recorded /\ HitBlocks = recorded /\ SpendHits = recorded
    BY <1>1, AtRest
  <1> QED BY <1>1, <1>2 DEF TablesInv, Scores, Locks, Spends, Table

\* In every state, each table holds exactly the rows of the recorded blocks, up to the store
\* calls apply_and_persist_notification has still to make.
THEOREM TablesFollowRecorded ==
    ASSUME ~SideBlocks, MaxRestarts = 0
    PROVE  Spec => []TablesInv
  <1>1. Orderly BY DEF Orderly
  <1>2. Init => TablesInv BY InitTables
  <1>3. IInv /\ TablesInv /\ [Next]_vars => TablesInv' BY TablesStep
  <1> QED BY <1>1, <1>2, <1>3, InvariantHolds, PTL DEF Spec

\* When a notification has been handled, the store records exactly what memory holds
\* committed and every table has its rows, no more and no less, after any number
\* of reorganizations of any depth.
THEOREM StoreAlwaysMatchesMemory ==
    ASSUME ~SideBlocks, MaxRestarts = 0
    PROVE  Spec => []StoreMatchesMemory
  <1>1. Orderly BY DEF Orderly
  <1>2. IInv /\ TablesInv => StoreMatchesMemory
    <2> SUFFICES ASSUME IInv, TablesInv, Ready PROVE StoreMatchesMemory
      BY DEF StoreMatchesMemory
    <2> DEFINE locks  == committed \cap Emitting
               spends == {b \in committed \cap Spending :
                             \E c \in locks : DaaScore[c] <= DaaScore[b]}
    <2>1. /\ pc = "apply" /\ todo = <<>> /\ writes = <<>> /\ unwinds = {} /\ restarts = 0
      BY DEF Ready, Node!Idle, IInv, TypeOK
    <2>2. recorded = committed /\ Kept = recorded /\ Doomed = {} BY <1>1, <2>1, IdleFacts
    <2>3. DOMAIN checkpoints = Scores(committed) BY <2>1, <2>2 DEF IInv, PoiInv
    <2>4. Locks(recorded) = locks /\ Spends(recorded) = spends BY <2>2 DEF Locks, Spends
    <2>5. /\ rows["pattern"] = locks /\ rows["utxo"] = locks /\ rows["lineage"] = locks
          /\ rows["spend"] = spends
          /\ DOMAIN entities = Scores(locks \cup spends)
      BY <2>1, <2>4, AtRest DEF TablesInv
    <2> HIDE DEF locks, spends
    <2>6. \A t \in Table \ {"spend"} : rows[t] = locks BY <2>5 DEF Table
    <2> QED BY <2>2, <2>3, <2>5, <2>6 DEF StoreMatchesMemory, locks, spends
  <1> QED BY <1>1, <1>2, InvariantHolds, TablesFollowRecorded, PTL

\* RowsInv is inductive.
LEMMA RowsStep ==
    ASSUME RespectsFinality, IInv, RowsInv, [Next]_vars
    PROVE  RowsInv'
  <1>1. pc \notin UnwindSteps /\ ~UnwindCommitted
    BY DEF IInv, FinalInv, QueueInv, UnwindCommitted
  <1>2. CASE UNCHANGED <<rows, entities>> /\ recorded \subseteq recorded'
    BY <1>2 DEF RowsInv, Scores
  <1>3. CASE WritePatterns \/ WriteUtxos \/ WriteLineage \/ (WriteSpends /\ SpendFound)
    <2>1. /\ pc \in WriteSteps /\ UNCHANGED <<recorded, entities>>
          /\ \E t \in Table, blocks \in SUBSET Block : WriteRow(t, blocks)
      BY <1>3 DEF WritePatterns, WriteUtxos, WriteLineage, WriteSpends, Step, WriteSteps, Table
    <2>2. PICK t \in Table, blocks \in SUBSET Block : WriteRow(t, blocks) BY <2>1
    <2>3. CurrentWrite \in recorded /\ recorded \subseteq Block BY <2>1, WriteShape
    <2>4. rows' \in [Table -> SUBSET Block] /\ \A u \in Table : rows'[u] \subseteq recorded
      BY <2>2, <2>3 DEF RowsInv, WriteRow
    <2> QED BY <2>1, <2>4 DEF RowsInv, Scores
  <1>4. CASE Dispatch \/ DispatchSpends
    <2>1. /\ pc \in WriteSteps /\ UNCHANGED <<recorded, rows>>
          /\ UpsertVersion \/ entities' = entities
      BY <1>4 DEF Dispatch, DispatchSpends, Step, WriteSteps
    <2>2. CurrentWrite \in recorded BY <2>1, WriteShape
    <2>3. DOMAIN entities' \subseteq DOMAIN entities \cup {DaaScore[CurrentWrite]}
      BY <2>1 DEF UpsertVersion, Upsert
    <2> QED BY <2>1, <2>2, <2>3 DEF RowsInv, Scores
  <1>5. CASE WriteSpends /\ ~SpendFound BY <1>2, <1>5 DEF WriteSpends
  <1>6. CASE \/ ChainChanged \/ ChainChangedUnseen \/ Announce \/ ApplyBlock \/ Crash \/ Restart
             \/ RecordBlock \/ WriteCheckpoint \/ Reseed \/ UNCHANGED vars
    <2>1. UNCHANGED <<rows, entities>> /\ recorded \subseteq recorded'
      BY <1>6 DEF ChainChanged, ChainChangedUnseen, Announce, ApplyBlock, Crash, Restart,
                  RecordBlock, WriteCheckpoint, Reseed, vars, storeVars
    <2> QED BY <1>2, <2>1
  <1>7. CASE UnwindEntities \/ UnwindUtxos \/ UnwindSpends \/ UnwindLineage
    <2>1. FALSE
      BY <1>1, <1>7 DEF UnwindEntities, UnwindUtxos, UnwindSpends, UnwindLineage, UnwindRows,
                        Step, UnwindSteps
    <2> QED BY <2>1
  <1> QED BY <1>1, <1>3, <1>4, <1>5, <1>6, <1>7 DEF Next, NodeStep, Persist

\* No derived row, entity version or checkpoint of a block the store does not record: after
\* any reorganization if the node never stops, and after any crash if upstream
\* respects finality (run torn_unwind shows that one of the two is needed).
THEOREM RowsAlwaysBelongToCommittedBlocks ==
    ASSUME Orderly
    PROVE  Spec => []RowsBelongToCommittedBlocks
  <1>1. IInv /\ pc = "apply" /\ unwinds = {} => DOMAIN checkpoints \subseteq Scores(recorded)
    BY DEF IInv, PoiInv, Kept, Doomed, Scores
  <1>2. CASE MaxRestarts = 0
    <2>1. ~SideBlocks BY DEF Orderly
    <2>2. IInv /\ TablesInv => RowsBelongToCommittedBlocks
      <3> SUFFICES ASSUME IInv, TablesInv, pc = "apply", unwinds = {}
                   PROVE  RowsBelongToCommittedBlocks
        BY DEF RowsBelongToCommittedBlocks
      <3>1. Locks(recorded) \subseteq recorded /\ Spends(recorded) \subseteq recorded
        BY DEF Locks, Spends
      <3>2. \A t \in Table : rows[t] \subseteq recorded
        BY <3>1, AtRest DEF TablesInv, Table
      <3>3. DOMAIN entities \subseteq Scores(recorded)
        BY <3>1, AtRest DEF TablesInv, Scores
      <3> QED BY <1>1, <3>2, <3>3 DEF RowsBelongToCommittedBlocks
    <2> QED BY <1>2, <2>1, <2>2, InvariantHolds, TablesFollowRecorded, PTL
  <1>3. CASE RespectsFinality
    <2>1. Init => RowsInv BY DEF Init, RowsInv, Scores
    <2>2. IInv /\ RowsInv /\ [Next]_vars => RowsInv' BY <1>3, RowsStep
    <2>3. IInv /\ RowsInv => RowsBelongToCommittedBlocks
      BY <1>1 DEF RowsInv, RowsBelongToCommittedBlocks
    <2> QED BY <2>1, <2>2, <2>3, InvariantHolds, PTL DEF Spec
  <1> QED BY <1>2, <1>3 DEF Orderly



------------------------------------------------------------------------------

(***************************************************************************)
(* Replay.                                                                 *)
(*                                                                         *)
(* The entity version and the checkpoint of a block are functions of the   *)
(* part of the chain up to it, whatever the store has seen before.  The    *)
(* invariant says so of every row the store keeps; rows of blocks about to *)
(* be unwound are left out, for the chain has already forgotten them.      *)
(***************************************************************************)

\* The first n lists of h, one after another, as FlattenSeq computes them.
Unrolls(h, n, f) == f = [i \in 1 .. n |-> IF i = 1 THEN h[i] ELSE f[i - 1] \o h[i]]

\* The recursion of FlattenSeq has a solution.
LEMMA UnrollsExists ==
    ASSUME NEW h, NEW n \in Nat
    PROVE  \E f : Unrolls(h, n, f)
  <1> DEFINE bad == {m \in Nat : ~\E f : Unrolls(h, m, f)}
  <1>1. ASSUME bad # {} PROVE FALSE
    <2>0. bad \in SUBSET Nat OBVIOUS
    <2>1. PICK m \in bad : \A k \in bad : m <= k
      <3> HIDE DEF bad
      <3> QED BY <1>1, <2>0, LeastNat
    <2>2. CASE m = 0
      <3> DEFINE f == [i \in 1 .. 0 |-> h]
      <3>1. Unrolls(h, 0, f) BY DEF Unrolls
      <3> QED BY <2>1, <2>2, <3>1
    <2>3. CASE m # 0
      <3>1. m - 1 \in Nat /\ m - 1 \notin bad BY <2>1, <2>3, SMTT(30)
      <3>2. PICK f : Unrolls(h, m - 1, f) BY <3>1
      <3> DEFINE g == [i \in 1 .. m |-> IF i = 1 THEN h[i] ELSE f[i - 1] \o h[i]]
      <3>3. \A i \in 1 .. m - 1 : g[i] = f[i]
        <4>1. \A i \in 1 .. m - 1 : f[i] = IF i = 1 THEN h[i] ELSE f[i - 1] \o h[i]
          BY <3>2 DEF Unrolls
        <4>2. \A i \in 1 .. m - 1 : i \in 1 .. m BY <3>1
        <4> QED BY <4>1, <4>2
      <3>4. \A i \in 1 .. m : i # 1 => i - 1 \in 1 .. m - 1 BY <3>1
      <3>5. g = [i \in 1 .. m |-> IF i = 1 THEN h[i] ELSE g[i - 1] \o h[i]]
        BY <3>3, <3>4
      <3> HIDE DEF g
      <3>6. Unrolls(h, m, g) BY <3>5 DEF Unrolls
      <3> QED BY <2>1, <3>6
    <2> QED BY <2>2, <2>3
  <1> QED BY <1>1

\* What the recursion of FlattenSeq returns.
LEMMA FlattenUnrolls ==
    ASSUME NEW T, NEW n \in Nat, n # 0, NEW h \in Seq(Seq(T)), Len(h) = n
    PROVE  \E f : Unrolls(h, n, f) /\ FlattenSeq(h) = f[n]
  <1> DEFINE f == CHOOSE g : Unrolls(h, n, g)
  <1>1. FlattenSeq(h) = f[n] BY DEF FlattenSeq, Unrolls
  <1>2. Unrolls(h, n, f) BY UnrollsExists
  <1> QED BY <1>1, <1>2

\* Flattening one list more appends that list.
LEMMA FlattenNext ==
    ASSUME NEW T, NEW n \in Nat, NEW h \in Seq(Seq(T)), Len(h) = n + 1,
           NEW g \in Seq(Seq(T)), Len(g) = n, \A i \in 1 .. n : g[i] = h[i]
    PROVE  FlattenSeq(h) = FlattenSeq(g) \o h[n + 1]
  <1>1. PICK f : Unrolls(h, n + 1, f) /\ FlattenSeq(h) = f[n + 1]
    BY FlattenUnrolls
  <1>2. \A i \in 1 .. n + 1 : f[i] = IF i = 1 THEN h[i] ELSE f[i - 1] \o h[i]
    BY <1>1 DEF Unrolls
  <1>3. CASE n = 0
    <2>1. FlattenSeq(g) = <<>> BY <1>3 DEF FlattenSeq
    <2>0. n + 1 = 1 /\ 1 \in 1 .. n + 1 /\ h[1] \in Seq(T)
      <3>1. n + 1 = 1 /\ 1 \in 1 .. n + 1 /\ Len(h) = 1 BY <1>3
      <3>2. 1 \in 1 .. Len(h) BY <3>1
      <3> QED BY <3>1, <3>2, ElementOfSeq
    <2>2. FlattenSeq(h) = h[1] BY <1>1, <1>2, <2>0
    <2>3. <<>> \o h[1] = h[1] BY <2>0, ConcatEmptySeq
    <2> QED BY <2>0, <2>1, <2>2, <2>3
  <1>4. CASE n # 0
    <2>1. PICK e : Unrolls(g, n, e) /\ FlattenSeq(g) = e[n] BY <1>4, FlattenUnrolls
    <2>2. \A i \in 1 .. n : e[i] = IF i = 1 THEN g[i] ELSE e[i - 1] \o g[i]
      BY <2>1 DEF Unrolls
    <2> DEFINE bad == {i \in 1 .. n : e[i] # f[i]}
    <2>3. ASSUME bad # {} PROVE FALSE
      <3>0. bad \in SUBSET Nat OBVIOUS
      <3>1. PICK m \in bad : \A k \in bad : m <= k
        <4> HIDE DEF bad
        <4> QED BY <2>3, <3>0, LeastNat
      <3>2. m # 1 BY <1>2, <2>2, <3>1
      <3>3. m - 1 \in 1 .. n /\ m - 1 \notin bad BY <3>1, <3>2
      <3> QED BY <1>2, <2>2, <3>1, <3>2, <3>3
    <2>4. e[n] = f[n]
      <3>1. n \in 1 .. n BY <1>4
      <3> QED BY <2>3, <3>1
    <2>5. f[n + 1] = f[n] \o h[n + 1]
      <3>1. n + 1 \in 1 .. n + 1 /\ n + 1 # 1 /\ (n + 1) - 1 = n BY <1>4
      <3>2. f[n + 1] = f[(n + 1) - 1] \o h[n + 1]
        <4> HIDE DEF bad
        <4> QED BY <1>2, <3>1, Zenon
      <3> QED BY <3>1, <3>2
    <2> QED BY <1>1, <2>1, <2>4, <2>5
  <1> QED BY <1>3, <1>4

\* Flattening lists yields a list.
LEMMA FlattenTyped ==
    ASSUME NEW T, NEW h \in Seq(Seq(T))
    PROVE  FlattenSeq(h) \in Seq(T)
  <1>1. CASE Len(h) = 0
    <2>1. FlattenSeq(h) = h /\ h = <<>> BY <1>1 DEF FlattenSeq
    <2> QED BY <2>1
  <1>2. CASE Len(h) # 0
    <2>1. PICK n \in Nat : n = Len(h) OBVIOUS
    <2>2. PICK f : Unrolls(h, n, f) /\ FlattenSeq(h) = f[n] BY <1>2, <2>1, FlattenUnrolls
    <2>3. \A i \in 1 .. n : f[i] = IF i = 1 THEN h[i] ELSE f[i - 1] \o h[i]
      BY <2>2 DEF Unrolls
    <2> DEFINE bad == {i \in 1 .. n : f[i] \notin Seq(T)}
    <2>4. ASSUME bad # {} PROVE FALSE
      <3>0. bad \in SUBSET Nat OBVIOUS
      <3>1. PICK m \in bad : \A k \in bad : m <= k
        <4> HIDE DEF bad
        <4> QED BY <2>4, <3>0, LeastNat
      <3>2. h[m] \in Seq(T) BY <2>1, <3>1
      <3>3. m # 1 BY <2>3, <3>1, <3>2
      <3>4. m - 1 \in 1 .. n /\ m - 1 \notin bad BY <3>1, <3>3
      <3>5. f[m - 1] \in Seq(T) BY <3>4
      <3>6. f[m] = f[m - 1] \o h[m] BY <2>3, <3>1, <3>3
      <3>7. f[m] \in Seq(T) BY <3>2, <3>5, <3>6, ConcatProperties
      <3> QED BY <3>1, <3>7
    <2> QED BY <1>2, <2>1, <2>2, <2>4, SMTT(30)
  <1> QED BY <1>1, <1>2
------------------------------------------------------------------------------

\* The block at position i spends a covenant locked at or below it; it has an entity
\* version; the link its checkpoint adds to the chain of hashes; its version in the store.
SpendsAt(i)   == chain[i] \in Spending /\ \E j \in 1 .. i : chain[j] \in Emitting
HasVersion(i) == chain[i] \in Emitting \/ SpendsAt(i)
Link(i) ==
    IF chain[i] \in Emitting THEN Append(ReplayedEntity(i - 1), chain[i]) ELSE <<>>
VersionOf(i) == entities[DaaScore[chain[i]]]

\* The rows of the block at position i are those a replay of the chain computes.
Replayed(i) ==
    /\ checkpoints[DaaScore[chain[i]]] = ReplayedPoi(i)
    /\ HasVersion(i) => VersionOf(i) = ReplayedEntity(i)

\* The same of the block being written, as far as the handler has come.
Halfway(i) ==
    /\ pc \in {"spends", "dispatch spends", "checkpoint"} => dispatched = Link(i)
    /\ pc \in {"spends", "dispatch spends"} /\ chain[i] \in Emitting => VersionOf(i) = Link(i)
    /\ pc = "checkpoint" /\ HasVersion(i) => VersionOf(i) = ReplayedEntity(i)

ReplayInv ==
    \A i \in DOMAIN chain :
        /\ chain[i] \in Kept => Replayed(i)
        /\ chain[i] \in Begun => Halfway(i)

\* The replay of no block, and of one block more.
LEMMA ReplayTyped ==
    ASSUME chain \in Seq(Block), NEW n \in 0 .. Len(chain)
    PROVE  /\ [i \in 1 .. n |-> Handled(i)] \in Seq(Seq(Block))
           /\ Len([i \in 1 .. n |-> Handled(i)]) = n
           /\ ReplayedEntity(n) \in Seq(Block)
  <1> DEFINE h == [i \in 1 .. n |-> Handled(i)]
  <1>1. \A i \in 1 .. n : Handled(i) \in Seq(Block)
    <2> SUFFICES ASSUME NEW i \in 1 .. n PROVE Handled(i) \in Seq(Block)
      OBVIOUS
    <2>1. chain[i] \in Block OBVIOUS
    <2>2. <<chain[i]>> \in Seq(Block) /\ <<>> \in Seq(Block) BY <2>1
    <2> QED BY <2>2, ConcatProperties DEF Handled
  <1>2. h \in [1 .. n -> Seq(Block)] BY <1>1
  <1>3. n \in Nat OBVIOUS
  <1> HIDE DEF h
  <1>4. h \in Seq(Seq(Block)) BY <1>2, <1>3, SeqDef
  <1>5. Len(h) = n BY <1>2, <1>3, <1>4, LenProperties
  <1>6. FlattenSeq(h) \in Seq(Block) BY <1>4, FlattenTyped
  <1> QED BY <1>4, <1>5, <1>6 DEF ReplayedEntity, h

LEMMA ReplayNext ==
    ASSUME chain \in Seq(Block), NEW n \in DOMAIN chain
    PROVE  ReplayedEntity(n) = ReplayedEntity(n - 1) \o Handled(n)
  <1>1. n - 1 \in 0 .. Len(chain) /\ n \in 0 .. Len(chain) /\ n - 1 \in Nat /\ n - 1 + 1 = n
    OBVIOUS
  <1> DEFINE h == [i \in 1 .. n |-> Handled(i)]
             g == [i \in 1 .. n - 1 |-> Handled(i)]
  <1>2. h \in Seq(Seq(Block)) /\ Len(h) = n BY <1>1, ReplayTyped
  <1>3. g \in Seq(Seq(Block)) /\ Len(g) = n - 1 BY <1>1, ReplayTyped
  <1>4. (\A i \in 1 .. n - 1 : g[i] = h[i]) /\ h[n] = Handled(n) OBVIOUS
  <1>5. ReplayedEntity(n) = FlattenSeq(h) /\ ReplayedEntity(n - 1) = FlattenSeq(g)
    BY DEF ReplayedEntity
  <1> HIDE DEF h, g
  <1>6. PICK m \in Nat : m = n - 1 /\ m + 1 = n BY <1>1
  <1>7. FlattenSeq(h) = FlattenSeq(g) \o h[m + 1]
    BY <1>2, <1>3, <1>4, <1>6, FlattenNext
  <1> QED BY <1>4, <1>5, <1>6, <1>7

LEMMA ReplayNone ==
    ReplayedEntity(0) = <<>> /\ ReplayedPoi(0) = <<>>
  <1>1. [i \in 1 .. 0 |-> Handled(i)] = <<>> OBVIOUS
  <1>2. FlattenSeq(<<>>) = <<>> BY DEF FlattenSeq
  <1> QED BY <1>1, <1>2 DEF ReplayedEntity, ReplayedPoi

\* What handling one block more makes of the entity: its hit is folded in, then its spend.
LEMMA ReplayHandled ==
    ASSUME chain \in Seq(Block), NEW n \in DOMAIN chain
    PROVE  LET hit == IF chain[n] \in Emitting
                      THEN Append(ReplayedEntity(n - 1), chain[n])
                      ELSE ReplayedEntity(n - 1)
           IN  ReplayedEntity(n) = IF SpendsAt(n) THEN Append(hit, chain[n]) ELSE hit
  <1> DEFINE e == ReplayedEntity(n - 1)
             b == chain[n]
  <1>1. e \in Seq(Block) /\ b \in Block
    <2>1. n - 1 \in 0 .. Len(chain) OBVIOUS
    <2> QED BY <2>1, ReplayTyped
  <1>2. ReplayedEntity(n) = e \o Handled(n) BY ReplayNext
  <1>3. Handled(n) = (IF b \in Emitting THEN <<b>> ELSE <<>>)
                        \o (IF SpendsAt(n) THEN <<b>> ELSE <<>>)
    BY DEF Handled, SpendsAt
  <1> HIDE DEF e, b
  <1>4. <<b>> \in Seq(Block) /\ <<>> \in Seq(Block) BY <1>1
  <1>5. /\ <<b>> \o <<>> = <<b>> /\ <<>> \o <<b>> = <<b>> /\ <<>> \o <<>> = <<>>
        /\ e \o <<>> = e
    BY <1>1, <1>4, ConcatEmptySeq
  <1>6. \A s \in Seq(Block) : s \o <<b>> = Append(s, b) BY <1>1
  <1>7. e \o (<<b>> \o <<b>>) = Append(Append(e, b), b)
    <2>1. e \o (<<b>> \o <<b>>) = (e \o <<b>>) \o <<b>>
      BY <1>1, <1>4, ConcatAssociative
    <2>2. Append(e, b) \in Seq(Block) BY <1>1
    <2> QED BY <1>1, <1>6, <2>1, <2>2
  <1>8. e \o <<b>> = Append(e, b) BY <1>1, <1>6
  <1> QED BY <1>2, <1>3, <1>5, <1>7, <1>8 DEF e, b

\* What it makes of the chain of checkpoints.
LEMMA ReplayLink ==
    ASSUME chain \in Seq(Block), NEW n \in DOMAIN chain
    PROVE  ReplayedPoi(n) = Append(ReplayedPoi(n - 1), Link(n))
  <1> DEFINE long  == ReplayedPoi(n)
             short == ReplayedPoi(n - 1)
  <1>1. /\ n \in Nat /\ n - 1 \in Nat /\ n - 1 + 1 = n
        /\ \A i \in 1 .. n : i - 1 \in 0 .. Len(chain) /\ chain[i] \in Block
    OBVIOUS
  <1>2. long = [i \in 1 .. n |-> Link(i)] /\ short = [i \in 1 .. n - 1 |-> Link(i)]
    BY DEF ReplayedPoi, Link
  <1>3. \A i \in 1 .. n : Link(i) \in Seq(Block)
    <2> SUFFICES ASSUME NEW i \in 1 .. n PROVE Link(i) \in Seq(Block)
      OBVIOUS
    <2>1. ReplayedEntity(i - 1) \in Seq(Block) BY <1>1, ReplayTyped
    <2> QED BY <1>1, <2>1 DEF Link
  <1>4. long \in [1 .. n -> Seq(Block)] /\ short \in [1 .. n - 1 -> Seq(Block)]
    BY <1>2, <1>3
  <1>5. /\ \A i \in 1 .. n - 1 : short[i] = long[i]
        /\ long[n] = Link(n)
    BY <1>1, <1>2
  <1> HIDE DEF long, short
  <1>6. long \in Seq(Seq(Block)) /\ short \in Seq(Seq(Block))
    <2>1. Seq(Seq(Block)) = UNION {[1 .. m -> Seq(Block)] : m \in Nat} BY SeqDef
    <2> QED BY <1>1, <1>4, <2>1
  <1>7. Len(long) = n /\ Len(short) = n - 1 BY <1>1, <1>4, <1>6, LenProperties
  <1>8. Link(n) \in Seq(Block) BY <1>1, <1>3
  <1>9. /\ Append(short, Link(n)) \in Seq(Seq(Block))
        /\ Len(Append(short, Link(n))) = n
        /\ \A i \in 1 .. n - 1 : Append(short, Link(n))[i] = short[i]
        /\ Append(short, Link(n))[n] = Link(n)
    BY <1>1, <1>6, <1>7, <1>8, AppendProperties
  <1>10. \A i \in 1 .. n : Append(short, Link(n))[i] = long[i]
    <2>1. \A i \in 1 .. n : i = n \/ i \in 1 .. n - 1 BY <1>1
    <2> QED BY <1>5, <1>9, <2>1
  <1>11. Append(short, Link(n)) = long
    BY <1>6, <1>7, <1>9, <1>10, SeqEqual
  <1> QED BY <1>11 DEF long, short

\* A block that is neither a hit nor a spend leaves the entity as it is.
LEMMA ReplaySilent ==
    ASSUME chain \in Seq(Block), NEW n \in DOMAIN chain, ~HasVersion(n)
    PROVE  ReplayedEntity(n) = ReplayedEntity(n - 1)
  BY ReplayHandled DEF HasVersion

\* A replay looks at the part of the chain it replays and at nothing else.
LEMMA ReplayDependsOnPrefix ==
    ASSUME NEW n \in Nat, \A i \in 1 .. n : chain'[i] = chain[i]
    PROVE  /\ ReplayedEntity(n)' = ReplayedEntity(n)
           /\ ReplayedPoi(n)' = ReplayedPoi(n)
           /\ n # 0 => (HasVersion(n)' <=> HasVersion(n)) /\ Link(n)' = Link(n)
  <1>1. \A i \in 1 .. n : Handled(i)' = Handled(i)
    <2> SUFFICES ASSUME NEW i \in 1 .. n PROVE Handled(i)' = Handled(i)
      OBVIOUS
    <2>1. (\A j \in 1 .. i : chain'[j] = chain[j]) /\ chain'[i] = chain[i] OBVIOUS
    <2> QED BY <2>1 DEF Handled
  <1>2. \A m \in 0 .. n : ReplayedEntity(m)' = ReplayedEntity(m)
    <2> SUFFICES ASSUME NEW m \in 0 .. n PROVE ReplayedEntity(m)' = ReplayedEntity(m)
      OBVIOUS
    <2>1. \A i \in 1 .. m : i \in 1 .. n OBVIOUS
    <2>2. [i \in 1 .. m |-> Handled(i)]' = [i \in 1 .. m |-> Handled(i)]
      BY <1>1, <2>1
    <2> QED BY <2>2 DEF ReplayedEntity
  <1>3. \A i \in 1 .. n : i - 1 \in 0 .. n OBVIOUS
  <1>4. ReplayedPoi(n)' = ReplayedPoi(n) BY <1>2, <1>3 DEF ReplayedPoi
  <1>5. n # 0 => (HasVersion(n)' <=> HasVersion(n)) /\ Link(n)' = Link(n)
    <2> SUFFICES ASSUME n # 0 PROVE (HasVersion(n)' <=> HasVersion(n)) /\ Link(n)' = Link(n)
      OBVIOUS
    <2>1. n \in 1 .. n /\ n - 1 \in 0 .. n OBVIOUS
    <2> QED BY <1>2, <2>1 DEF HasVersion, SpendsAt, Link
  <1> QED BY <1>2, <1>4, <1>5
------------------------------------------------------------------------------

\* A set of chain blocks below all others is a beginning of the chain.
LEMMA LowestAreFirst ==
    ASSUME chain \in Seq(Block), Rising(chain),
           NEW low \in SUBSET Range(chain), Below(low, Range(chain) \ low)
    PROVE  \E n \in 0 .. Len(chain) : \A i \in DOMAIN chain : chain[i] \in low <=> i <= n
  <1> DEFINE D == {i \in DOMAIN chain : chain[i] \in low}
  <1>1. Len(chain) \in Nat /\ DOMAIN chain = 1 .. Len(chain)
        /\ \A i \in DOMAIN chain : DaaScore[chain[i]] \in Nat /\ chain[i] \in Range(chain)
    BY DEF Range
  <1>2. CASE D = {}
    <2>1. \A i \in DOMAIN chain : chain[i] \in low <=> i <= 0 BY <1>1, <1>2
    <2> QED BY <1>1, <2>1
  <1>3. CASE D # {}
    <2>1. D \in SUBSET Nat /\ \A i \in D : i <= Len(chain) BY <1>1
    <2>2. PICK n \in D : \A i \in D : i <= n
      <3> HIDE DEF D
      <3> QED BY <1>1, <1>3, <2>1, GreatestNat
    <2>3. n \in DOMAIN chain /\ n \in 0 .. Len(chain) /\ chain[n] \in low BY <1>1, <2>2
    <2>4. ASSUME NEW i \in DOMAIN chain, i <= n PROVE chain[i] \in low
      <3>1. SUFFICES ASSUME chain[i] \notin low PROVE FALSE OBVIOUS
      <3>2. DaaScore[chain[n]] < DaaScore[chain[i]]
        BY <1>1, <2>3, <3>1 DEF Below
      <3>3. i < n BY <1>1, <2>3, <2>4, <3>1
      <3>4. DaaScore[chain[i]] < DaaScore[chain[n]] BY <2>3, <3>3 DEF Rising
      <3> QED BY <1>1, <2>3, <3>2, <3>4
    <2>5. \A i \in DOMAIN chain : chain[i] \in low => i <= n BY <2>2
    <2> QED BY <2>3, <2>4, <2>5
  <1> QED BY <1>2, <1>3

\* If the node never stopped, what the store keeps is a beginning of the chain.
LEMMA KeptIsFirst ==
    ASSUME MaxRestarts = 0, IInv
    PROVE  /\ chain \in Seq(Block) /\ Rising(chain) /\ Kept \subseteq Range(chain)
           /\ \E n \in 0 .. Len(chain) : \A i \in DOMAIN chain : chain[i] \in Kept <=> i <= n
  <1>1. restarts = 0 /\ up /\ chain \in Seq(Block) /\ Rising(chain)
    BY DEF IInv, TypeOK, Stopped, LineInv
  <1>2. Kept = committed \ Queued /\ committed \subseteq Range(chain)
    BY <1>1 DEF IInv, PileInv, MapInv
  <1>3. Below(Kept, Range(chain) \ Kept)
    <2> SUFFICES ASSUME NEW b \in Kept, NEW c \in Range(chain) \ Kept
                 PROVE  DaaScore[b] < DaaScore[c]
      BY DEF Below
    <2>1. c \in Pending \/ c \in committed \/ c \in probabilistic
      BY <1>1 DEF IInv, MapInv, Line
    <2>2. c \in Pending \/ c \in Queued \/ c \in probabilistic BY <1>2, <2>1
    <2> QED BY <2>2 DEF IInv, PileInv, Below
  <1>4. Kept \in SUBSET Range(chain) BY <1>2
  <1> HIDE DEF Kept
  <1> QED BY <1>1, <1>3, <1>4, LowestAreFirst

\* The first n blocks of the chain.
First(n) == {chain[i] : i \in 1 .. n}

\* The block being written is the next one after what the store keeps.
LEMMA BegunIsNext ==
    ASSUME MaxRestarts = 0, IInv, pc \in WriteSteps
    PROVE  \E n \in DOMAIN chain :
              /\ CurrentWrite = chain[n] /\ chain[n] \in Block
              /\ n - 1 \in 0 .. Len(chain)
              /\ Begun = {chain[n]} /\ Doomed = {}
              /\ Kept = First(n - 1) /\ recorded = First(n)
              /\ \A i \in DOMAIN chain : chain[i] \in Kept <=> i <= n - 1
              /\ \A i \in DOMAIN chain : chain[i] \in Begun <=> i = n
              /\ \A i \in DOMAIN chain : i # n => DaaScore[chain[i]] # DaaScore[chain[n]]
  <1> DEFINE cw == CurrentWrite
  <1>1. /\ chain \in Seq(Block) /\ Rising(chain) /\ Kept \subseteq Range(chain)
        /\ \E n \in 0 .. Len(chain) : \A i \in DOMAIN chain : chain[i] \in Kept <=> i <= n
    BY KeptIsFirst
  <1>2. /\ writes # <<>> /\ unwinds = {} /\ cw \in recorded
        /\ cw \in Queued /\ cw \in Block /\ Below({cw}, Queued \ {cw})
    BY RestFacts DEF IInv, QueueInv
  <1>3. /\ restarts = 0 /\ up /\ todo = <<>> /\ Pending = {}
    <2>1. restarts = 0 /\ up BY DEF IInv, TypeOK, Stopped
    <2>2. todo = <<>> BY DEF IInv, PendingInv, WriteSteps
    <2>3. Pending = {} BY <2>2 DEF Pending
    <2> QED BY <2>1, <2>2, <2>3
  <1>4. Doomed = {} /\ Begun = {cw} /\ Kept = recorded \ {cw}
    BY <1>2 DEF Doomed, Begun, Kept, WriteSteps
  <1>5. cw \in committed /\ cw \in Range(chain) /\ cw \notin Kept
    BY <1>2, <1>4 DEF IInv, QueueInv, MapInv
  <1>6. \A c \in Range(chain) : c \in Kept \/ c = cw \/ DaaScore[cw] < DaaScore[c]
    <2> SUFFICES ASSUME NEW c \in Range(chain), c \notin Kept, c # cw
                 PROVE  DaaScore[cw] < DaaScore[c]
      OBVIOUS
    <2>1. c \in committed \/ c \in probabilistic
      BY <1>3 DEF IInv, MapInv, Line
    <2>2. c \in Queued \/ c \in probabilistic BY <1>3, <2>1 DEF IInv, PileInv
    <2> QED BY <1>2, <1>5, <2>2 DEF IInv, MapInv, Below
  <1> HIDE DEF cw
  <1>7. Below(Kept, {cw}) BY <1>2 DEF IInv, PileInv, Below
  <1>8. /\ Len(chain) \in Nat /\ DOMAIN chain = 1 .. Len(chain)
        /\ \A i \in DOMAIN chain : chain[i] \in Block /\ DaaScore[chain[i]] \in Nat
                                   /\ chain[i] \in Range(chain)
    BY <1>1 DEF Range
  <1>9. PICK n \in DOMAIN chain : cw = chain[n] BY <1>5 DEF Range
  <1>10. \A i \in DOMAIN chain : i < n => chain[i] \in Kept
    BY <1>1, <1>6, <1>8, <1>9 DEF Rising
  <1>11. \A i \in DOMAIN chain : n < i => chain[i] \notin Kept
    BY <1>1, <1>7, <1>8, <1>9 DEF Rising, Below
  <1>12. \A i \in DOMAIN chain : i # n => DaaScore[chain[i]] # DaaScore[chain[n]]
    BY <1>1, <1>8, <1>9 DEF Rising
  <1>13. \A i \in DOMAIN chain : chain[i] \in Kept <=> i <= n - 1
    BY <1>5, <1>8, <1>9, <1>10, <1>11
  <1>14. n - 1 \in 0 .. Len(chain) /\ \A i \in 1 .. n - 1 : i \in DOMAIN chain /\ i <= n - 1
    BY <1>8, <1>9
  <1>15. Kept = First(n - 1)
    <2>1. ASSUME NEW b \in Kept PROVE b \in {chain[i] : i \in 1 .. n - 1}
      <3>1. PICK i \in DOMAIN chain : b = chain[i] BY <1>1 DEF Range
      <3>2. i \in 1 .. n - 1 BY <1>8, <1>13, <3>1
      <3> QED BY <3>1, <3>2
    <2> QED BY <1>13, <1>14, <2>1 DEF First
  <1>16. recorded = First(n)
    <2>1. recorded = Kept \cup {chain[n]} BY <1>2, <1>4, <1>9 DEF cw
    <2>2. \A i : i \in 1 .. n <=> i \in 1 .. n - 1 \/ i = n BY <1>8, <1>9
    <2> QED BY <1>15, <2>1, <2>2 DEF First
  <1>17. \A i \in DOMAIN chain : chain[i] \in Begun <=> i = n
    BY <1>4, <1>8, <1>9, <1>12
  <1> QED BY <1>4, <1>8, <1>9, <1>12, <1>13, <1>14, <1>15, <1>16, <1>17 DEF cw

\* The blocks of a beginning of the chain that have an entity version.
LEMMA VersionedBlocks ==
    ASSUME chain \in Seq(Block), Rising(chain), NEW n \in 0 .. Len(chain)
    PROVE  /\ Locks(First(n)) = {chain[i] : i \in {j \in 1 .. n : chain[j] \in Emitting}}
           /\ Spends(First(n)) = {chain[i] : i \in {j \in 1 .. n : SpendsAt(j)}}
           /\ Scores(Locks(First(n)) \cup Spends(First(n)))
                 = {DaaScore[chain[i]] : i \in {j \in 1 .. n : HasVersion(j)}}
  <1> DEFINE first == {chain[i] : i \in 1 .. n}
  <1>1. \A i \in 1 .. n : i \in DOMAIN chain /\ DaaScore[chain[i]] \in Nat OBVIOUS
  <1>2. Locks(first) = {chain[i] : i \in {j \in 1 .. n : chain[j] \in Emitting}}
    BY DEF Locks
  <1>3. \A i, j \in 1 .. n : DaaScore[chain[j]] <= DaaScore[chain[i]] <=> j <= i
    <2> SUFFICES ASSUME NEW i \in 1 .. n, NEW j \in 1 .. n
                 PROVE  DaaScore[chain[j]] <= DaaScore[chain[i]] <=> j <= i
      OBVIOUS
    <2>1. i < j \/ j < i \/ i = j OBVIOUS
    <2>2. i < j => DaaScore[chain[i]] < DaaScore[chain[j]] BY <1>1 DEF Rising
    <2>3. j < i => DaaScore[chain[j]] < DaaScore[chain[i]] BY <1>1 DEF Rising
    <2> QED BY <1>1, <2>1, <2>2, <2>3
  <1>4. ASSUME NEW b \in Spends(first)
        PROVE  b \in {chain[i] : i \in {j \in 1 .. n : SpendsAt(j)}}
    <2>1. PICK i \in 1 .. n : b = chain[i] /\ chain[i] \in Spending BY DEF Spends
    <2>2. PICK c \in Locks(first) : DaaScore[c] <= DaaScore[b] BY DEF Spends
    <2>3. PICK j \in 1 .. n : c = chain[j] /\ chain[j] \in Emitting BY DEF Locks
    <2>4. j \in 1 .. i BY <1>3, <2>1, <2>2, <2>3
    <2> QED BY <2>1, <2>3, <2>4 DEF SpendsAt
  <1>5. ASSUME NEW i \in 1 .. n, SpendsAt(i)
        PROVE  chain[i] \in Spends(first)
    <2>1. chain[i] \in Spending BY <1>5 DEF SpendsAt
    <2>2. PICK j \in 1 .. i : chain[j] \in Emitting BY <1>5 DEF SpendsAt
    <2>3. j \in 1 .. n /\ j <= i OBVIOUS
    <2>4. chain[j] \in Locks(first) /\ DaaScore[chain[j]] <= DaaScore[chain[i]]
      BY <1>3, <2>2, <2>3 DEF Locks
    <2> QED BY <2>1, <2>4 DEF Spends
  <1>6. Spends(first) = {chain[i] : i \in {j \in 1 .. n : SpendsAt(j)}} BY <1>4, <1>5
  <1>7. Scores(Locks(first) \cup Spends(first))
          = {DaaScore[chain[i]] : i \in {j \in 1 .. n : HasVersion(j)}}
    <2> HIDE DEF first
    <2>1. \A i \in 1 .. n : HasVersion(i) <=> chain[i] \in Emitting \/ SpendsAt(i)
      BY DEF HasVersion
    <2>2. \A b : b \in Locks(first) \cup Spends(first) <=>
             \E i \in 1 .. n : HasVersion(i) /\ b = chain[i]
      BY <1>2, <1>6, <2>1
    <2>3. \A s : s \in Scores(Locks(first) \cup Spends(first)) <=>
             \E i \in 1 .. n : HasVersion(i) /\ s = DaaScore[chain[i]]
      <3>1. ASSUME NEW s \in Scores(Locks(first) \cup Spends(first))
            PROVE  \E i \in 1 .. n : HasVersion(i) /\ s = DaaScore[chain[i]]
        <4>1. PICK b \in Locks(first) \cup Spends(first) : s = DaaScore[b] BY DEF Scores
        <4>2. PICK i \in 1 .. n : HasVersion(i) /\ b = chain[i] BY <2>2
        <4> QED BY <4>1, <4>2
      <3>2. ASSUME NEW i \in 1 .. n, HasVersion(i)
            PROVE  DaaScore[chain[i]] \in Scores(Locks(first) \cup Spends(first))
        <4>1. chain[i] \in Locks(first) \cup Spends(first) BY <2>2, <3>2
        <4> QED BY <4>1 DEF Scores
      <3> QED BY <3>1, <3>2
    <2>4. \A s : s \in {DaaScore[chain[i]] : i \in {j \in 1 .. n : HasVersion(j)}} <=>
             \E i \in 1 .. n : HasVersion(i) /\ s = DaaScore[chain[i]]
      OBVIOUS
    <2> QED BY <2>3, <2>4
  <1> QED BY <1>2, <1>6, <1>7 DEF First

\* If the versions in the store are those of the first n blocks, as a replay computes them,
\* the latest of them is the one it ends with.
LEMMA LatestVersion ==
    ASSUME chain \in Seq(Block), Rising(chain), NEW n \in 0 .. Len(chain),
           Keyed(entities, Seq(Block)),
           DOMAIN entities = {DaaScore[chain[i]] : i \in {j \in 1 .. n : HasVersion(j)}},
           \A i \in 1 .. n : HasVersion(i) => VersionOf(i) = ReplayedEntity(i)
    PROVE  Latest(entities) = ReplayedEntity(n)
  <1>1. /\ n \in Nat /\ \A i \in 1 .. n : i \in DOMAIN chain /\ DaaScore[chain[i]] \in Nat
        /\ 1 .. n \subseteq Nat
    OBVIOUS
  <1> DEFINE Changed(m) == {i \in m + 1 .. n : ReplayedEntity(i) # ReplayedEntity(m)}
  <1>2. ASSUME NEW m \in 0 .. n, \A i \in m + 1 .. n : ~HasVersion(i)
        PROVE  ReplayedEntity(n) = ReplayedEntity(m)
    <2>1. ASSUME Changed(m) # {} PROVE FALSE
      <3>1. Changed(m) \in SUBSET Nat BY <1>1
      <3>2. PICK k \in Changed(m) : \A i \in Changed(m) : k <= i
        <4> HIDE DEF Changed
        <4> QED BY <2>1, <3>1, LeastNat
      <3>3. k \in 1 .. n /\ k \in DOMAIN chain /\ ~HasVersion(k) BY <1>1, <1>2, <3>2
      <3>4. ReplayedEntity(k) = ReplayedEntity(k - 1) BY <3>3, ReplaySilent
      <3>5. k - 1 # m /\ k - 1 \in m + 1 .. n BY <3>2, <3>4
      <3>6. k - 1 \in Changed(m) BY <3>2, <3>4, <3>5
      <3> QED BY <1>1, <3>2, <3>3, <3>6
    <2>2. n = m \/ n \in m + 1 .. n BY <1>1
    <2> QED BY <2>1, <2>2
  <1> HIDE DEF Changed
  <1>3. CASE DOMAIN entities = {}
    <2>1. \A i \in 1 .. n : ~HasVersion(i) BY <1>3, ZenonT(60)
    <2>2. ReplayedEntity(n) = ReplayedEntity(0) BY <1>1, <1>2, <2>1
    <2> QED BY <1>3, <2>2, ReplayNone DEF Latest
  <1>4. CASE DOMAIN entities # {}
    <2>1. /\ Max(DOMAIN entities) \in DOMAIN entities
          /\ \A s \in DOMAIN entities : s <= Max(DOMAIN entities)
      BY <1>4, MaxFacts DEF Keyed
    <2>2. PICK m \in 1 .. n : HasVersion(m) /\ Max(DOMAIN entities) = DaaScore[chain[m]]
      BY <2>1
    <2>3. ASSUME NEW i \in m + 1 .. n PROVE ~HasVersion(i)
      <3>1. i \in 1 .. n /\ m < i BY <1>1
      <3>2. DaaScore[chain[m]] < DaaScore[chain[i]] BY <1>1, <3>1 DEF Rising
      <3>3. HasVersion(i) => DaaScore[chain[i]] <= DaaScore[chain[m]] BY <2>1, <2>2, <3>1
      <3> QED BY <1>1, <3>1, <3>2, <3>3
    <2>4. ReplayedEntity(n) = ReplayedEntity(m) BY <1>1, <1>2, <2>3
    <2>5. Latest(entities) = VersionOf(m) BY <1>4, <2>2 DEF Latest, VersionOf
    <2> QED BY <2>2, <2>4, <2>5
  <1> QED BY <1>3, <1>4

\* The same of the checkpoints; here every block has one.
LEMMA LatestPoi ==
    ASSUME chain \in Seq(Block), Rising(chain), NEW n \in 0 .. Len(chain),
           Keyed(checkpoints, Seq(Seq(Block))),
           DOMAIN checkpoints = {DaaScore[chain[i]] : i \in 1 .. n},
           \A i \in 1 .. n : checkpoints[DaaScore[chain[i]]] = ReplayedPoi(i)
    PROVE  Latest(checkpoints) = ReplayedPoi(n)
  <1>1. /\ n \in Nat /\ \A i \in 1 .. n : i \in DOMAIN chain /\ DaaScore[chain[i]] \in Nat
    OBVIOUS
  <1>2. CASE n = 0
    <2>1. DOMAIN checkpoints = {} BY <1>2
    <2> QED BY <1>2, <2>1, ReplayNone DEF Latest
  <1>3. CASE n # 0
    <2>1. n \in 1 .. n /\ DaaScore[chain[n]] \in DOMAIN checkpoints BY <1>1, <1>3
    <2>2. /\ Max(DOMAIN checkpoints) \in DOMAIN checkpoints
          /\ \A s \in DOMAIN checkpoints : s <= Max(DOMAIN checkpoints)
      BY <2>1, MaxFacts DEF Keyed
    <2>3. PICK m \in 1 .. n : Max(DOMAIN checkpoints) = DaaScore[chain[m]] BY <2>2
    <2>4. m < n => DaaScore[chain[m]] < DaaScore[chain[n]] BY <1>1, <2>1 DEF Rising
    <2>5. DaaScore[chain[n]] <= DaaScore[chain[m]] BY <2>1, <2>2, <2>3
    <2>6. m = n BY <1>1, <2>1, <2>3, <2>4, <2>5
    <2>7. Latest(checkpoints) = checkpoints[DaaScore[chain[n]]]
      BY <2>1, <2>3, <2>6 DEF Latest
    <2> QED BY <2>1, <2>7
  <1> QED BY <1>2, <1>3
------------------------------------------------------------------------------

\* The position of a chain block; no other block of the chain has its score.
LEMMA Position ==
    ASSUME IInv, NEW i \in DOMAIN chain
    PROVE  /\ chain \in Seq(Block) /\ Rising(chain) /\ i \in Nat /\ i <= Len(chain)
           /\ chain[i] \in Block /\ DaaScore[chain[i]] \in Nat
           /\ \A j \in DOMAIN chain : DaaScore[chain[j]] = DaaScore[chain[i]] => j = i
  <1>1. chain \in Seq(Block) /\ Rising(chain) BY DEF IInv, TypeOK, LineInv
  <1>2. i \in Nat /\ i <= Len(chain) /\ chain[i] \in Block /\ DaaScore[chain[i]] \in Nat
    BY <1>1
  <1>3. ASSUME NEW j \in DOMAIN chain, DaaScore[chain[j]] = DaaScore[chain[i]]
        PROVE  j = i
    <2>1. j \in Nat BY <1>1
    <2>2. ~(i < j) /\ ~(j < i) BY <1>1, <1>2, <1>3 DEF Rising
    <2> QED BY <1>2, <2>1, <2>2
  <1> QED BY <1>1, <1>2, <1>3

\* Rows of a kept block that a step does not touch stay replayed.
LEMMA ReplayedKept ==
    ASSUME NEW i \in Nat, i # 0, \A j \in 1 .. i : chain'[j] = chain[j], Replayed(i),
           checkpoints'[DaaScore[chain[i]]] = checkpoints[DaaScore[chain[i]]],
           HasVersion(i) => entities'[DaaScore[chain[i]]] = entities[DaaScore[chain[i]]]
    PROVE  Replayed(i)'
  <1>1. /\ ReplayedEntity(i)' = ReplayedEntity(i) /\ ReplayedPoi(i)' = ReplayedPoi(i)
        /\ HasVersion(i)' <=> HasVersion(i)
    BY ReplayDependsOnPrefix
  <1>2. chain'[i] = chain[i]
    <2>1. i \in 1 .. i OBVIOUS
    <2> QED BY <2>1
  <1> QED BY <1>1, <1>2 DEF Replayed, VersionOf

\* A step that begins or ends no block, keeps no other one, and leaves the rows of
\* kept blocks alone.
LEMMA KeepsReplay ==
    ASSUME IInv, ReplayInv, chain' = chain, Kept' \subseteq Kept, Begun' = {},
           \A i \in DOMAIN chain : chain[i] \in Kept =>
              /\ checkpoints'[DaaScore[chain[i]]] = checkpoints[DaaScore[chain[i]]]
              /\ HasVersion(i) => entities'[DaaScore[chain[i]]] = entities[DaaScore[chain[i]]]
    PROVE  ReplayInv'
  <1> SUFFICES ASSUME NEW i \in DOMAIN chain, chain[i] \in Kept'
               PROVE  Replayed(i)'
    BY DEF ReplayInv
  <1>1. chain[i] \in Kept /\ Replayed(i) BY DEF ReplayInv
  <1>2. i \in Nat /\ i # 0
    <2>1. chain \in Seq(Block) BY Position
    <2> QED BY <2>1
  <1> QED BY <1>1, <1>2, ReplayedKept

\* Notifications and their application: nothing is stored.
LEMMA MemoryKeepsReplay ==
    ASSUME IInv, ReplayInv, Announce \/ ApplyBlock
    PROVE  ReplayInv'
  <1>1. /\ pc = "apply" /\ UNCHANGED <<pc, chain, recorded, unwinds, entities, checkpoints>>
    BY DEF Announce, ApplyBlock, Ready, Node!BlockAdded, Node!ApplyBlock, Node!IgnoreBlock,
           Node!BufferAndPromote, handlerVars, storeVars, upstreamVars
  <1>2. Kept' = Kept /\ Begun' = {}
    BY <1>1 DEF Kept, Begun, Doomed, WriteSteps
  <1> QED BY <1>1, <1>2, KeepsReplay

\* A chain change forgets the dropped blocks, and with them what was stored for them.
LEMMA ChainChangedKeepsReplay ==
    ASSUME ~SideBlocks, MaxRestarts = 0, IInv, ReplayInv, ChainChanged
    PROVE  ReplayInv'
  <1>0. Orderly BY DEF Orderly
  <1>1. /\ up /\ pc = "apply" /\ todo = <<>> /\ writes = <<>> /\ unwinds = {}
        /\ UNCHANGED <<pc, recorded, entities, checkpoints>>
    BY DEF ChainChanged, Ready, Node!Idle, handlerVars, storeVars
  <1>2. PICK keep \in 0 .. Len(chain), suffix \in Extensions :
              /\ ReplaceSuffix(keep, suffix)
              /\ unwinds' = committed \cap Dropped(keep)
    BY DEF ChainChanged, Node!VirtualChainChanged, Dropped
  <1>3. /\ Kept = recorded /\ recorded \subseteq Range(chain) /\ recorded = committed
    <2>1. restarts = 0 BY DEF IInv, TypeOK
    <2> QED BY <1>0, <1>1, <2>1, IdleFacts
  <1>4. /\ Kept' = recorded \ Dropped(keep) /\ Begun' = {}
    BY <1>1, <1>2, <1>3 DEF Kept, Begun, Doomed, WriteSteps
  <1>5. /\ chain' = SubSeq(chain, 1, keep) \o suffix /\ suffix \in Seq(Block)
        /\ chain \in Seq(Block) /\ chain' \in Seq(Block) /\ Rising(chain')
    <2>1. chain' \in Seq(Block) /\ Rising(chain)' BY <1>0, <1>1, <1>2, ReplaceSuffixFacts
    <2>2. chain' = SubSeq(chain, 1, keep) \o suffix /\ suffix \in Seq(Block)
      BY <1>2 DEF ReplaceSuffix
    <2>3. chain \in Seq(Block) BY DEF IInv, TypeOK
    <2> QED BY <2>1, <2>2, <2>3 DEF Rising
  <1>6. /\ keep \in Nat /\ keep <= Len(chain) /\ DOMAIN chain = 1 .. Len(chain)
        /\ Len(chain) \in Nat /\ DOMAIN chain' = 1 .. Len(chain') /\ Len(chain') \in Nat
        /\ keep <= Len(chain') /\ \A j \in 1 .. keep : chain'[j] = chain[j]
    <2> DEFINE low == SubSeq(chain, 1, keep)
    <2>1. low \in Seq(Block) /\ Len(low) = keep /\ \A j \in 1 .. keep : low[j] = chain[j]
      BY <1>5
    <2>2. chain' = low \o suffix BY <1>5
    <2>3. keep \in Nat /\ keep <= Len(chain) /\ DOMAIN chain = 1 .. Len(chain)
          /\ Len(chain) \in Nat
      BY <1>5
    <2> HIDE DEF low
    <2>4. Len(chain') = keep + Len(suffix) /\ Len(suffix) \in Nat
          /\ DOMAIN chain' = 1 .. Len(chain')
          /\ \A j \in 1 .. keep : chain'[j] = low[j]
      BY <1>5, <2>1, <2>2, <2>3, SMTT(30)
    <2> QED BY <2>1, <2>3, <2>4
  <1> SUFFICES ASSUME NEW i \in DOMAIN chain', chain'[i] \in Kept'
               PROVE  Replayed(i)'
    BY <1>4 DEF ReplayInv
  <1>7. PICK j \in DOMAIN chain : chain'[i] = chain[j] BY <1>3, <1>4 DEF Range
  <1>8. j \in 1 .. keep
    <2>1. chain[j] \notin Dropped(keep) BY <1>4, <1>7
    <2> QED BY <1>6, <2>1 DEF Dropped
  <1>9. i = j
    <2>1. j \in DOMAIN chain' /\ chain'[j] = chain'[i] /\ i \in Nat /\ j \in Nat
      BY <1>6, <1>7, <1>8
    <2>2. DaaScore[chain'[i]] \in Nat BY <1>5, SMTT(30)
    <2>3. i < j => DaaScore[chain'[i]] < DaaScore[chain'[j]] BY <1>5, <2>1 DEF Rising
    <2>4. j < i => DaaScore[chain'[j]] < DaaScore[chain'[i]] BY <1>5, <2>1 DEF Rising
    <2>5. ~(DaaScore[chain'[i]] < DaaScore[chain'[i]]) BY <2>2
    <2>6. ~(i < j) /\ ~(j < i) BY <2>1, <2>3, <2>4, <2>5
    <2> QED BY <2>1, <2>6
  <1>10. Replayed(i)
    <2>1. chain[i] \in Kept BY <1>3, <1>4, <1>7, <1>9
    <2> QED BY <1>7, <1>9, <2>1 DEF ReplayInv
  <1>11. i \in Nat /\ i # 0 /\ \A m \in 1 .. i : chain'[m] = chain[m]
    BY <1>6, <1>8, <1>9
  <1> QED BY <1>1, <1>10, <1>11, ReplayedKept

\* Unwinding touches no row of a block that is kept.
LEMMA UnwindKeepsReplay ==
    ASSUME MaxRestarts = 0, IInv, TablesInv, ReplayInv,
           \/ UnwindCommitted \/ UnwindEntities \/ UnwindUtxos \/ UnwindSpends
           \/ UnwindLineage \/ Reseed
    PROVE  ReplayInv'
  <1>1. chain' = chain /\ pc \notin WriteSteps /\ pc' \notin WriteSteps
    BY DEF UnwindCommitted, UnwindEntities, UnwindUtxos, UnwindSpends, UnwindLineage, Reseed,
           UnwindRows, Step, upstreamVars, WriteSteps
  <1>2. Begun = {} /\ Begun' = {} BY <1>1 DEF Begun
  <1>3. \A i \in DOMAIN chain : chain[i] \in Block /\ DaaScore[chain[i]] \in Nat
    BY Position
  <1>4. CASE UnwindCommitted
    <2>1. /\ unwinds \subseteq recorded /\ recorded' = recorded \ unwinds
          /\ Below(recorded', unwinds)
          /\ checkpoints' = Restrict(checkpoints, DOMAIN checkpoints \ Scores(unwinds))
      BY <1>4, UnwindCommittedStep
    <2>2. pc = "apply" /\ pc' = "unwind entities" /\ entities' = entities
      BY <1>4 DEF UnwindCommitted, Step
    <2>3. Kept = recorded \ unwinds /\ Kept' = Kept /\ Doomed = unwinds
      BY <1>2, <2>1, <2>2 DEF Kept, Doomed
    <2>4. ASSUME NEW i \in DOMAIN chain, chain[i] \in Kept
          PROVE  checkpoints'[DaaScore[chain[i]]] = checkpoints[DaaScore[chain[i]]]
      <3>1. DaaScore[chain[i]] \in DOMAIN checkpoints
        BY <2>4 DEF IInv, TypeOK, PoiInv, Scores
      <3>2. DaaScore[chain[i]] \notin Scores(unwinds)
        <4>1. \A u \in unwinds : DaaScore[chain[i]] < DaaScore[u]
          BY <2>1, <2>3, <2>4 DEF Below
        <4>2. unwinds \subseteq Block BY DEF IInv, TypeOK
        <4> QED BY <1>3, <4>1, <4>2 DEF Scores
      <3> QED BY <2>1, <3>1, <3>2 DEF Restrict
    <2> QED BY <1>1, <1>2, <2>2, <2>3, <2>4, KeepsReplay
  <1>5. CASE UnwindEntities
    <2>1. /\ pc = "unwind entities" /\ pc' = "unwind utxos"
          /\ UNCHANGED <<recorded, unwinds, checkpoints>>
          /\ entities' = Restrict(entities, {s \in DOMAIN entities : s < Cutoff})
      BY <1>5 DEF UnwindEntities, Step
    <2>2. Kept = recorded /\ Kept' = Kept
      BY <1>2, <2>1 DEF Kept, Doomed
    <2>3. \A b \in recorded : DaaScore[b] < Cutoff
      BY <2>1, UnwindShape DEF UnwindSteps
    <2>4. ASSUME NEW i \in DOMAIN chain, chain[i] \in Kept, HasVersion(i)
          PROVE  entities'[DaaScore[chain[i]]] = entities[DaaScore[chain[i]]]
      <3>1. DaaScore[chain[i]] \in DOMAIN entities
        <4>1. PICK n \in 0 .. Len(chain) : \A k \in DOMAIN chain : chain[k] \in Kept <=> k <= n
          BY KeptIsFirst
        <4>2. chain \in Seq(Block) BY KeptIsFirst
        <4>3. ASSUME NEW j \in 1 .. i PROVE chain[j] \in recorded
          <5>1. j \in DOMAIN chain /\ j <= i /\ i <= n BY <2>4, <4>1, <4>2
          <5> QED BY <2>2, <4>1, <4>2, <5>1
        <4>4. HitBlocks = recorded \cup unwinds /\ SpendHits = recorded \cup unwinds
          BY <2>1 DEF HitBlocks, SpendHits, Covered, WriteSteps
        <4>5. chain[i] \in Emitting => chain[i] \in Locks(HitBlocks)
          BY <2>2, <2>4, <4>4 DEF Locks
        <4>6. SpendsAt(i) => chain[i] \in Spends(SpendHits)
          <5> SUFFICES ASSUME SpendsAt(i) PROVE chain[i] \in Spends(SpendHits)
            OBVIOUS
          <5>1. PICK j \in 1 .. i : chain[j] \in Emitting BY DEF SpendsAt
          <5>2. chain[j] \in Locks(SpendHits) BY <4>3, <4>4, <5>1 DEF Locks
          <5>3. DaaScore[chain[j]] <= DaaScore[chain[i]]
            <6>1. chain \in Seq(Block) /\ Rising(chain) BY KeptIsFirst
            <6>2. j \in DOMAIN chain /\ (j = i \/ j < i) BY <6>1
            <6> QED BY <1>3, <6>1, <6>2 DEF Rising
          <5> QED BY <2>2, <2>4, <4>4, <5>2, <5>3 DEF Spends, SpendsAt
        <4> QED BY <2>4, <4>5, <4>6 DEF HasVersion, TablesInv, Scores
      <3>2. DaaScore[chain[i]] < Cutoff BY <2>2, <2>3, <2>4
      <3> QED BY <2>1, <3>1, <3>2 DEF Restrict
    <2> QED BY <1>1, <1>2, <2>1, <2>2, <2>4, KeepsReplay
  <1>6. CASE UnwindUtxos \/ UnwindSpends \/ UnwindLineage \/ Reseed
    <2>1. /\ pc \in UnwindSteps /\ pc' \in UnwindSteps \cup {"apply"}
          /\ pc' = "apply" => unwinds' = {}
          /\ UNCHANGED <<recorded, checkpoints, entities>>
      BY <1>6 DEF UnwindUtxos, UnwindSpends, UnwindLineage, Reseed, UnwindRows, Step,
                  UnwindSteps, storeVars
    <2>2. Kept' = recorded /\ Kept = recorded
      BY <1>2, <2>1 DEF Kept, Doomed, UnwindSteps
    <2> QED BY <1>1, <1>2, <2>1, <2>2, KeepsReplay
  <1> QED BY <1>4, <1>5, <1>6
\* The first store calls for a block touch no replayed table.
LEMMA RowsKeepReplay ==
    ASSUME MaxRestarts = 0, IInv, ReplayInv,
           RecordBlock \/ WritePatterns \/ WriteUtxos \/ WriteLineage \/ WriteSpends
    PROVE  ReplayInv'
  <1>1. /\ UNCHANGED <<chain, writes, unwinds, entities, checkpoints, dispatched>>
        /\ pc' \in WriteSteps
        /\ RecordBlock => pc = "apply" /\ pc' = "hits"
        /\ ~RecordBlock => pc \in WriteSteps /\ recorded' = recorded
        /\ pc' \in {"spends", "dispatch spends", "checkpoint"}
              => pc = "spends" /\ pc' = "dispatch spends"
    BY DEF RecordBlock, WritePatterns, WriteUtxos, WriteLineage, WriteSpends, Step, WriteSteps,
           upstreamVars
  <1>2. CurrentWrite' = CurrentWrite BY <1>1 DEF CurrentWrite
  <1>3. Begun' = {CurrentWrite} BY <1>1, <1>2 DEF Begun
  <1>4. Kept' = Kept
    <2>1. CASE RecordBlock
      <3>1. /\ CurrentWrite \in Block /\ recorded' = recorded \cup {CurrentWrite}
            /\ Below(recorded, {CurrentWrite}) /\ Kept = recorded
        BY <2>1, RecordBlockStep
      <3>2. CurrentWrite \notin recorded
        <4>1. DaaScore[CurrentWrite] \in Nat BY <3>1
        <4> QED BY <3>1, <4>1 DEF Below
      <3>3. Doomed' = {} BY <1>1, <2>1 DEF Doomed
      <3> QED BY <1>3, <3>1, <3>2, <3>3 DEF Kept
    <2>2. CASE ~RecordBlock
      <3>1. Begun = {CurrentWrite} /\ Doomed = {} /\ Doomed' = {}
        BY <1>1, <2>2 DEF Begun, Doomed, WriteSteps
      <3> QED BY <1>1, <1>3, <2>2, <3>1 DEF Kept
    <2> QED BY <2>1, <2>2
  <1> SUFFICES ASSUME NEW i \in DOMAIN chain
               PROVE  /\ chain[i] \in Kept => Replayed(i)'
                      /\ chain[i] \in Begun' => Halfway(i)'
    BY <1>1, <1>4 DEF ReplayInv
  <1>5. i \in Nat /\ i # 0 /\ i \in 1 .. i
    <2>1. chain \in Seq(Block) BY Position
    <2> QED BY <2>1
  <1>6. chain[i] \in Kept => Replayed(i)'
    BY <1>1, <1>5, ReplayedKept DEF ReplayInv
  <1>7. ASSUME chain[i] \in Begun' PROVE Halfway(i)'
    <2>1. CASE pc' \notin {"spends", "dispatch spends", "checkpoint"}
      BY <2>1 DEF Halfway
    <2>2. CASE pc' \in {"spends", "dispatch spends", "checkpoint"}
      <3>1. pc = "spends" /\ pc' = "dispatch spends" BY <1>1, <2>2
      <3>2. Begun = {CurrentWrite} BY <3>1 DEF Begun, WriteSteps
      <3>3. Halfway(i) BY <1>3, <1>7, <3>2 DEF ReplayInv
      <3>4. Link(i)' = Link(i) BY <1>1, <1>5, ReplayDependsOnPrefix
      <3>5. VersionOf(i)' = VersionOf(i) BY <1>1 DEF VersionOf
      <3> QED BY <1>1, <3>1, <3>3, <3>4, <3>5 DEF Halfway
    <2> QED BY <2>1, <2>2
  <1> QED BY <1>6, <1>7

\* An upsert at the score of the block being written leaves kept versions alone.
LEMMA UpsertKeepsVersions ==
    ASSUME IInv, NEW n \in DOMAIN chain, NEW row,
           entities' = Upsert(entities, DaaScore[chain[n]], row)
    PROVE  /\ entities'[DaaScore[chain[n]]] = row
           /\ \A i \in DOMAIN chain :
                 i # n /\ DaaScore[chain[i]] \in DOMAIN entities
                    => entities'[DaaScore[chain[i]]] = entities[DaaScore[chain[i]]]
  <1>1. \A i \in DOMAIN chain : i # n => DaaScore[chain[i]] # DaaScore[chain[n]]
    BY Position
  <1> QED BY <1>1 DEF Upsert

\* Which versions the store has while a block is written.
LEMMA VersionsWhileWriting ==
    ASSUME IInv, TablesInv, NEW n \in DOMAIN chain,
           Kept = First(n - 1), recorded = First(n), recorded \ {CurrentWrite} = Kept
    PROVE  /\ pc = "dispatch" => DOMAIN entities =
                {DaaScore[chain[i]] : i \in {j \in 1 .. n - 1 : HasVersion(j)}}
           /\ pc \in {"spends", "dispatch spends"} => DOMAIN entities =
                {DaaScore[chain[i]] : i \in {j \in 1 .. n - 1 : HasVersion(j)}}
                   \cup (IF chain[n] \in Emitting THEN {DaaScore[chain[n]]} ELSE {})
  <1>1. chain \in Seq(Block) /\ Rising(chain) BY Position
  <1>2. /\ n \in 0 .. Len(chain) /\ n - 1 \in 0 .. Len(chain)
        /\ \A i : i \in 1 .. n <=> i \in 1 .. n - 1 \/ i = n
    <2>1. n \in Nat /\ n # 0 /\ n <= Len(chain) /\ Len(chain) \in Nat BY <1>1
    <2>2. \A i : i \in 1 .. n <=> i \in 1 .. n - 1 \/ i = n BY <2>1
    <2>3. n \in 0 .. Len(chain) /\ n - 1 \in 0 .. Len(chain) BY <2>1
    <2> QED BY <2>2, <2>3
  <1>3. First(n) = First(n - 1) \cup {chain[n]} BY <1>2 DEF First
  <1>4. /\ pc = "dispatch" => HitBlocks = First(n - 1)
        /\ pc \in {"spends", "dispatch spends"} => HitBlocks = First(n)
        /\ pc \in {"dispatch", "spends", "dispatch spends"} => SpendHits = First(n - 1)
    BY DEF HitBlocks, SpendHits, Covered, WriteSteps
  <1>5. Scores(Locks(First(n - 1)) \cup Spends(First(n - 1)))
          = {DaaScore[chain[i]] : i \in {j \in 1 .. n - 1 : HasVersion(j)}}
    BY <1>1, <1>2, VersionedBlocks
  <1>6. Scores(Locks(First(n)) \cup Spends(First(n - 1)))
          = Scores(Locks(First(n - 1)) \cup Spends(First(n - 1)))
               \cup (IF chain[n] \in Emitting THEN {DaaScore[chain[n]]} ELSE {})
    <2>1. Locks(First(n)) = Locks(First(n - 1))
                               \cup (IF chain[n] \in Emitting THEN {chain[n]} ELSE {})
      BY <1>3 DEF Locks
    <2> QED BY <2>1 DEF Scores
  <1> QED BY <1>4, <1>5, <1>6 DEF TablesInv

\* The mapping run for the hits of a block continues from the replay of those before it.
LEMMA DispatchReplays ==
    ASSUME MaxRestarts = 0, IInv, TablesInv, ReplayInv, Dispatch
    PROVE  ReplayInv'
  <1>1. /\ pc = "dispatch" /\ pc' = "spends" /\ pc \in WriteSteps /\ pc' \in WriteSteps
        /\ UNCHANGED <<chain, writes, unwinds, recorded, checkpoints>>
        /\ IF CurrentWrite \in Emitting
           THEN UpsertVersion /\ dispatched' = NextVersion
           ELSE dispatched' = <<>> /\ entities' = entities
    BY DEF Dispatch, Step, upstreamVars, WriteSteps
  <1>2. PICK n \in DOMAIN chain :
              /\ CurrentWrite = chain[n] /\ chain[n] \in Block
              /\ n - 1 \in 0 .. Len(chain)
              /\ Begun = {chain[n]} /\ Doomed = {}
              /\ Kept = First(n - 1) /\ recorded = First(n)
              /\ \A i \in DOMAIN chain : chain[i] \in Kept <=> i <= n - 1
              /\ \A i \in DOMAIN chain : chain[i] \in Begun <=> i = n
              /\ \A i \in DOMAIN chain : i # n => DaaScore[chain[i]] # DaaScore[chain[n]]
    BY <1>1, BegunIsNext
  <1>3. CurrentWrite' = CurrentWrite BY <1>1 DEF CurrentWrite
  <1>4. Begun' = Begun /\ Kept' = Kept /\ recorded \ {CurrentWrite} = Kept
    BY <1>1, <1>2, <1>3 DEF Begun, Kept, Doomed, WriteSteps
  <1>5. chain \in Seq(Block) /\ Rising(chain) BY Position
  <1>6. Keyed(entities, Seq(Block)) BY DEF IInv, TypeOK
  <1>7. DOMAIN entities = {DaaScore[chain[i]] : i \in {j \in 1 .. n - 1 : HasVersion(j)}}
    BY <1>1, <1>2, <1>4, VersionsWhileWriting
  <1>8. \A i \in 1 .. n - 1 : i \in DOMAIN chain /\ chain[i] \in Kept /\ Replayed(i)
    <2>1. \A i \in 1 .. n - 1 : i \in DOMAIN chain /\ i <= n - 1 BY <1>5
    <2> QED BY <1>2, <2>1 DEF ReplayInv
  <1>9. Latest(entities) = ReplayedEntity(n - 1)
    BY <1>2, <1>5, <1>6, <1>7, <1>8, LatestVersion DEF Replayed
  <1>10. \A i \in DOMAIN chain : i \in Nat /\ i # 0 /\ i \in 1 .. i BY <1>5
  <1>11. /\ chain[n] \in Emitting => entities'[DaaScore[chain[n]]] = Link(n)
         /\ dispatched' = Link(n)
         /\ \A i \in 1 .. n - 1 :
               HasVersion(i) => entities'[DaaScore[chain[i]]] = entities[DaaScore[chain[i]]]
    <2>1. CASE chain[n] \in Emitting
      <3>1. NextVersion = Link(n) BY <1>2, <1>9, <2>1 DEF NextVersion, Link
      <3>2. entities' = Upsert(entities, DaaScore[chain[n]], Link(n)) /\ dispatched' = Link(n)
        BY <1>1, <1>2, <2>1, <3>1 DEF UpsertVersion
      <3>3. \A i \in 1 .. n - 1 : i \in DOMAIN chain /\ i # n BY <1>5
      <3>4. \A i \in 1 .. n - 1 : HasVersion(i) => DaaScore[chain[i]] \in DOMAIN entities
        BY <1>7
      <3> QED BY <3>2, <3>3, <3>4, UpsertKeepsVersions
    <2>2. CASE chain[n] \notin Emitting
      BY <1>1, <1>2, <2>2 DEF Link
    <2> QED BY <2>1, <2>2
  <1>12. ASSUME NEW i \in DOMAIN chain, chain[i] \in Kept
         PROVE  Replayed(i)'
    <2>1. i \in 1 .. n - 1
      <3>1. i \in Nat /\ i # 0 /\ i <= n - 1 /\ n \in Nat BY <1>2, <1>10, <1>12
      <3> QED BY <3>1
    <2> QED BY <1>1, <1>8, <1>10, <1>11, <2>1, ReplayedKept
  <1>13. Halfway(n)'
    <2>1. Link(n)' = Link(n) BY <1>1, <1>10, ReplayDependsOnPrefix
    <2> QED BY <1>1, <1>11, <2>1 DEF Halfway, VersionOf
  <1> QED BY <1>1, <1>2, <1>4, <1>12, <1>13 DEF ReplayInv

\* The spend is folded in on top of the hits.
LEMMA DispatchSpendsReplays ==
    ASSUME MaxRestarts = 0, IInv, TablesInv, ReplayInv, DispatchSpends
    PROVE  ReplayInv'
  <1>1. /\ pc = "dispatch spends" /\ pc' = "checkpoint"
        /\ pc \in WriteSteps /\ pc' \in WriteSteps
        /\ UNCHANGED <<chain, writes, unwinds, recorded, checkpoints, dispatched>>
        /\ IF SpendFound THEN UpsertVersion ELSE entities' = entities
    BY DEF DispatchSpends, Step, upstreamVars, WriteSteps
  <1>2. PICK n \in DOMAIN chain :
              /\ CurrentWrite = chain[n] /\ chain[n] \in Block
              /\ n - 1 \in 0 .. Len(chain)
              /\ Begun = {chain[n]} /\ Doomed = {}
              /\ Kept = First(n - 1) /\ recorded = First(n)
              /\ \A i \in DOMAIN chain : chain[i] \in Kept <=> i <= n - 1
              /\ \A i \in DOMAIN chain : chain[i] \in Begun <=> i = n
              /\ \A i \in DOMAIN chain : i # n => DaaScore[chain[i]] # DaaScore[chain[n]]
    BY <1>1, BegunIsNext
  <1>3. CurrentWrite' = CurrentWrite BY <1>1 DEF CurrentWrite
  <1>4. Begun' = Begun /\ Kept' = Kept /\ recorded \ {CurrentWrite} = Kept
    BY <1>1, <1>2, <1>3 DEF Begun, Kept, Doomed, WriteSteps
  <1>5. chain \in Seq(Block) /\ Rising(chain) BY Position
  <1>6. Keyed(entities, Seq(Block)) /\ DaaScore[chain[n]] \in Nat
    BY Position DEF IInv, TypeOK
  <1>7. DOMAIN entities = {DaaScore[chain[i]] : i \in {j \in 1 .. n - 1 : HasVersion(j)}}
                \cup (IF chain[n] \in Emitting THEN {DaaScore[chain[n]]} ELSE {})
    BY <1>1, <1>2, <1>4, VersionsWhileWriting
  <1>8. \A i \in 1 .. n - 1 : i \in DOMAIN chain /\ chain[i] \in Kept /\ Replayed(i)
    <2>1. \A i \in 1 .. n - 1 : i \in DOMAIN chain /\ i <= n - 1 BY <1>5
    <2> QED BY <1>2, <2>1 DEF ReplayInv
  <1>9. Halfway(n) BY <1>2 DEF ReplayInv
  <1>10. \A i \in DOMAIN chain : i \in Nat /\ i # 0 /\ i \in 1 .. i BY <1>5
  <1>11. Latest(entities) = IF chain[n] \in Emitting THEN Link(n) ELSE ReplayedEntity(n - 1)
    <2>1. CASE chain[n] \in Emitting
      <3>1. DaaScore[chain[n]] \in DOMAIN entities BY <1>7, <2>1
      <3>2. \A s \in DOMAIN entities : s <= DaaScore[chain[n]]
        <4>1. \A i \in 1 .. n - 1 : DaaScore[chain[i]] < DaaScore[chain[n]]
          BY <1>5, <1>8 DEF Rising
        <4>2. \A i \in 1 .. n - 1 : DaaScore[chain[i]] \in Nat BY <1>8, Position
        <4> QED BY <1>6, <1>7, <4>1, <4>2
      <3>3. Max(DOMAIN entities) = DaaScore[chain[n]]
        <4>1. /\ Max(DOMAIN entities) \in DOMAIN entities
              /\ \A s \in DOMAIN entities : s <= Max(DOMAIN entities)
          BY <1>6, <3>1, <3>2, MaxFacts DEF Keyed
        <4> QED BY <1>6, <3>1, <3>2, <4>1 DEF Keyed
      <3>4. VersionOf(n) = Link(n) BY <1>1, <1>9, <2>1 DEF Halfway
      <3> QED BY <2>1, <3>1, <3>3, <3>4 DEF Latest, VersionOf
    <2>2. CASE chain[n] \notin Emitting
      <3>1. DOMAIN entities = {DaaScore[chain[i]] : i \in {j \in 1 .. n - 1 : HasVersion(j)}}
        BY <1>7, <2>2
      <3> QED BY <1>2, <1>5, <1>6, <1>8, <2>2, <3>1, LatestVersion DEF Replayed
    <2> QED BY <2>1, <2>2
  <1>12. SpendFound <=> SpendsAt(n)
    <2>1. UtxoBlocks = recorded BY <1>1 DEF UtxoBlocks, Covered, WriteSteps
    <2>2. rows["utxo"] = {b \in recorded : b \in Emitting} BY <2>1 DEF TablesInv, Locks
    <2>3. rows["utxo"] # {} <=> \E j \in 1 .. n : chain[j] \in Emitting BY <1>2, <2>2 DEF First
    <2> QED BY <1>2, <2>3 DEF SpendFound, SpendsAt
  <1>13. /\ HasVersion(n) => entities'[DaaScore[chain[n]]] = ReplayedEntity(n)
         /\ \A i \in 1 .. n - 1 :
               HasVersion(i) => entities'[DaaScore[chain[i]]] = entities[DaaScore[chain[i]]]
    <2>1. CASE SpendsAt(n)
      <3>1. NextVersion = ReplayedEntity(n)
        BY <1>2, <1>5, <1>11, <2>1, ReplayHandled DEF NextVersion, Link
      <3>2. entities' = Upsert(entities, DaaScore[chain[n]], ReplayedEntity(n))
        BY <1>1, <1>2, <1>12, <2>1, <3>1 DEF UpsertVersion
      <3>3. \A i \in 1 .. n - 1 : i \in DOMAIN chain /\ i # n BY <1>5
      <3>4. \A i \in 1 .. n - 1 : HasVersion(i) => DaaScore[chain[i]] \in DOMAIN entities
        BY <1>7
      <3> QED BY <3>2, <3>3, <3>4, UpsertKeepsVersions
    <2>2. CASE ~SpendsAt(n)
      <3>1. entities' = entities BY <1>1, <1>12, <2>2
      <3>2. chain[n] \in Emitting => ReplayedEntity(n) = Link(n)
        BY <1>5, <2>2, ReplayHandled DEF Link
      <3>3. chain[n] \in Emitting => entities[DaaScore[chain[n]]] = Link(n)
        BY <1>1, <1>9 DEF Halfway, VersionOf
      <3> QED BY <2>2, <3>1, <3>2, <3>3 DEF HasVersion
    <2> QED BY <2>1, <2>2
  <1>14. ASSUME NEW i \in DOMAIN chain, chain[i] \in Kept
         PROVE  Replayed(i)'
    <2>1. i \in 1 .. n - 1
      <3>1. i \in Nat /\ i # 0 /\ i <= n - 1 /\ n \in Nat BY <1>2, <1>10, <1>14
      <3> QED BY <3>1
    <2> QED BY <1>1, <1>8, <1>10, <1>13, <2>1, ReplayedKept
  <1>15. Halfway(n)'
    <2>1. /\ Link(n)' = Link(n) /\ ReplayedEntity(n)' = ReplayedEntity(n)
          /\ HasVersion(n)' <=> HasVersion(n)
      BY <1>1, <1>10, ReplayDependsOnPrefix
    <2>2. dispatched' = Link(n) BY <1>1, <1>9 DEF Halfway
    <2> QED BY <1>1, <1>13, <2>1, <2>2 DEF Halfway, VersionOf
  <1> QED BY <1>1, <1>2, <1>4, <1>14, <1>15 DEF ReplayInv
\* A finished block has the checkpoint a replay computes: the one before it is the
\* replay's too, and what was dispatched is its link.
LEMMA CheckpointReplays ==
    ASSUME MaxRestarts = 0, IInv, ReplayInv, WriteCheckpoint
    PROVE  ReplayInv'
  <1>1. /\ pc = "checkpoint" /\ pc' = "apply" /\ pc \in WriteSteps /\ pc' \notin WriteSteps
        /\ UNCHANGED <<chain, unwinds, recorded, entities>>
        /\ prior' = Append(prior, dispatched)
        /\ checkpoints' = Upsert(checkpoints, DaaScore[CurrentWrite], prior')
    BY DEF WriteCheckpoint, Step, upstreamVars, WriteSteps
  <1>2. PICK n \in DOMAIN chain :
              /\ CurrentWrite = chain[n] /\ chain[n] \in Block
              /\ n - 1 \in 0 .. Len(chain)
              /\ Begun = {chain[n]} /\ Doomed = {}
              /\ Kept = First(n - 1) /\ recorded = First(n)
              /\ \A i \in DOMAIN chain : chain[i] \in Kept <=> i <= n - 1
              /\ \A i \in DOMAIN chain : chain[i] \in Begun <=> i = n
              /\ \A i \in DOMAIN chain : i # n => DaaScore[chain[i]] # DaaScore[chain[n]]
    BY <1>1, BegunIsNext
  <1>3. unwinds = {} BY <1>1 DEF IInv, QueueInv
  <1>4. Begun' = {} /\ Kept' \subseteq recorded
    BY <1>1 DEF Begun, Kept
  <1>5. chain \in Seq(Block) /\ Rising(chain) BY Position
  <1>6. \A i \in DOMAIN chain : i \in Nat /\ i # 0 /\ i \in 1 .. i BY <1>5
  <1>7. \A i \in 1 .. n - 1 : i \in DOMAIN chain /\ chain[i] \in Kept /\ Replayed(i)
    <2>1. \A i \in 1 .. n - 1 : i \in DOMAIN chain /\ i <= n - 1 BY <1>5
    <2> QED BY <1>2, <2>1 DEF ReplayInv
  <1>8. Halfway(n) BY <1>2 DEF ReplayInv
  <1>9. DOMAIN checkpoints = {DaaScore[chain[i]] : i \in 1 .. n - 1}
    <2>1. restarts = 0 BY DEF IInv, TypeOK
    <2>2. DOMAIN checkpoints = Scores(Kept)
      BY <1>2, <2>1 DEF IInv, PoiInv
    <2> QED BY <1>2, <2>2 DEF Scores, First
  <1>10. prior = ReplayedPoi(n - 1)
    <2>1. Keyed(checkpoints, Seq(Seq(Block))) BY DEF IInv, TypeOK
    <2>2. Latest(checkpoints) = ReplayedPoi(n - 1)
      BY <1>2, <1>5, <1>7, <1>9, <2>1, LatestPoi DEF Replayed
    <2>3. up BY <1>1 DEF WriteCheckpoint, Step
    <2> QED BY <1>3, <2>2, <2>3 DEF IInv, PoiInv
  <1>11. prior' = ReplayedPoi(n)
    <2>1. dispatched = Link(n) BY <1>1, <1>8 DEF Halfway
    <2> QED BY <1>1, <1>5, <1>10, <2>1, ReplayLink
  <1>12. /\ checkpoints'[DaaScore[chain[n]]] = ReplayedPoi(n)
         /\ \A i \in 1 .. n - 1 :
               checkpoints'[DaaScore[chain[i]]] = checkpoints[DaaScore[chain[i]]]
    <2>1. \A i \in 1 .. n - 1 : i \in DOMAIN chain /\ i # n BY <1>5
    <2>2. \A i \in 1 .. n - 1 : DaaScore[chain[i]] # DaaScore[chain[n]] BY <1>2, <2>1
    <2>3. \A i \in 1 .. n - 1 : DaaScore[chain[i]] \in DOMAIN checkpoints BY <1>9
    <2> QED BY <1>1, <1>2, <1>11, <2>2, <2>3 DEF Upsert
  <1> SUFFICES ASSUME NEW i \in DOMAIN chain, chain[i] \in recorded
               PROVE  Replayed(i)'
    BY <1>1, <1>4 DEF ReplayInv
  <1>13. i \in 1 .. n
    <2>1. PICK j \in 1 .. n : chain[i] = chain[j] BY <1>2 DEF First
    <2>2. j \in DOMAIN chain BY <1>5
    <2>3. j = i BY <2>1, <2>2, Position
    <2> QED BY <2>3
  <1>14. CASE i = n
    <2>1. HasVersion(n) => VersionOf(n) = ReplayedEntity(n) BY <1>1, <1>8 DEF Halfway
    <2>2. /\ ReplayedEntity(n)' = ReplayedEntity(n) /\ ReplayedPoi(n)' = ReplayedPoi(n)
          /\ HasVersion(n)' <=> HasVersion(n)
      BY <1>1, <1>6, ReplayDependsOnPrefix
    <2> QED BY <1>1, <1>12, <1>14, <2>1, <2>2 DEF Replayed, VersionOf
  <1>15. CASE i \in 1 .. n - 1
    BY <1>1, <1>6, <1>7, <1>12, <1>15, ReplayedKept
  <1>16. i = n \/ i \in 1 .. n - 1
    <2>1. n \in Nat BY <1>6
    <2> QED BY <1>13, <2>1
  <1> QED BY <1>14, <1>15, <1>16

\* ReplayInv is inductive.
LEMMA ReplayStep ==
    ASSUME ~SideBlocks, MaxRestarts = 0, IInv, TablesInv, ReplayInv, [Next]_vars
    PROVE  ReplayInv'
  <1>1. CASE ChainChanged BY <1>1, ChainChangedKeepsReplay
  <1>2. CASE Announce \/ ApplyBlock BY <1>2, MemoryKeepsReplay
  <1>3. CASE ChainChangedUnseen \/ Crash \/ Restart
    <2>1. FALSE BY <1>3 DEF ChainChangedUnseen, Crash, Restart, IInv, Stopped, TypeOK
    <2> QED BY <2>1
  <1>4. CASE \/ UnwindCommitted \/ UnwindEntities \/ UnwindUtxos \/ UnwindSpends
             \/ UnwindLineage \/ Reseed
    BY <1>4, UnwindKeepsReplay
  <1>5. CASE RecordBlock \/ WritePatterns \/ WriteUtxos \/ WriteLineage \/ WriteSpends
    BY <1>5, RowsKeepReplay
  <1>6. CASE Dispatch BY <1>6, DispatchReplays
  <1>7. CASE DispatchSpends BY <1>7, DispatchSpendsReplays
  <1>8. CASE WriteCheckpoint BY <1>8, CheckpointReplays
  <1>9. CASE UNCHANGED vars
    <2>1. UNCHANGED <<chain, recorded, unwinds, pc, writes, dispatched, entities, checkpoints>>
      BY <1>9 DEF vars, ingestionVars, upstreamVars, handlerVars, storeVars
    <2>2. UNCHANGED <<Kept, Begun>> BY <2>1 DEF Kept, Begun, Doomed, CurrentWrite
    <2> SUFFICES ASSUME NEW i \in DOMAIN chain
                 PROVE  /\ chain[i] \in Kept => Replayed(i)'
                        /\ chain[i] \in Begun => Halfway(i)'
      BY <2>1, <2>2 DEF ReplayInv
    <2>3. i \in Nat /\ i # 0
      <3>1. chain \in Seq(Block) BY Position
      <3> QED BY <3>1
    <2>4. chain[i] \in Kept => Replayed(i)' BY <2>1, <2>3, ReplayedKept DEF ReplayInv
    <2>5. /\ ReplayedEntity(i)' = ReplayedEntity(i) /\ Link(i)' = Link(i)
          /\ HasVersion(i)' <=> HasVersion(i)
      BY <2>1, <2>3, ReplayDependsOnPrefix
    <2>6. Halfway(i) => Halfway(i)' BY <2>1, <2>5 DEF Halfway, VersionOf
    <2> QED BY <2>4, <2>6 DEF ReplayInv
  <1> QED BY <1>1, <1>2, <1>3, <1>4, <1>5, <1>6, <1>7, <1>8, <1>9 DEF Next, NodeStep, Persist

\* In every state, what the store keeps of a block is what a replay of the chain up to
\* that block computes, and what is being written is on the way there.
THEOREM StoreFollowsReplay ==
    ASSUME ~SideBlocks, MaxRestarts = 0
    PROVE  Spec => []ReplayInv
  <1>1. Orderly BY DEF Orderly
  <1>2. Init => ReplayInv
    <2> SUFFICES ASSUME Init PROVE DOMAIN chain = {}
      BY DEF ReplayInv
    <2> QED BY DEF Init
  <1>3. IInv /\ TablesInv /\ ReplayInv /\ [Next]_vars => ReplayInv' BY ReplayStep
  <1> QED BY <1>1, <1>2, <1>3, InvariantHolds, TablesFollowRecorded, PTL DEF Spec

\* The replay-safety contract of the repository's reorg document: however the chain was
\* reorganized and however deep, the entity state and every checkpoint in the store are
\* those a from-genesis ingest of the committed part of the selected chain computes.
THEOREM AlwaysReplaySafe ==
    ASSUME ~SideBlocks, MaxRestarts = 0
    PROVE  Spec => []ReplaySafe
  <1>1. Orderly BY DEF Orderly
  <1>2. IInv /\ TablesInv /\ ReplayInv => ReplaySafe
    <2> SUFFICES ASSUME IInv, TablesInv, ReplayInv, Ready
                 PROVE  \E n \in 0 .. Len(chain) :
                           /\ recorded = Range(SubSeq(chain, 1, n))
                           /\ Latest(entities) = ReplayedEntity(n)
                           /\ DOMAIN checkpoints = Scores(recorded)
                           /\ \A i \in 1 .. n : checkpoints[DaaScore[chain[i]]] = ReplayedPoi(i)
      BY DEF ReplaySafe
    <2>1. /\ pc = "apply" /\ todo = <<>> /\ writes = <<>> /\ unwinds = {} /\ restarts = 0
      BY DEF Ready, Node!Idle, IInv, TypeOK
    <2>2. Kept = recorded /\ Doomed = {} BY <1>1, <2>1, IdleFacts
    <2>3. /\ chain \in Seq(Block) /\ Rising(chain) /\ recorded \subseteq Range(chain)
          /\ \E n \in 0 .. Len(chain) :
                \A i \in DOMAIN chain : chain[i] \in recorded <=> i <= n
      BY <2>2, KeptIsFirst
    <2>4. PICK n \in 0 .. Len(chain) :
                \A i \in DOMAIN chain : chain[i] \in recorded <=> i <= n
      BY <2>3
    <2>5. /\ n \in Nat /\ n <= Len(chain) /\ DOMAIN chain = 1 .. Len(chain)
          /\ Len(chain) \in Nat /\ \A i \in 1 .. n : i \in DOMAIN chain /\ i <= n
      BY <2>3
    <2>6. recorded = First(n)
      <3>1. ASSUME NEW b \in recorded PROVE b \in {chain[i] : i \in 1 .. n}
        <4>1. PICK i \in DOMAIN chain : b = chain[i] BY <2>3 DEF Range
        <4>2. i \in 1 .. n BY <2>4, <2>5, <4>1
        <4> QED BY <4>1, <4>2
      <3> QED BY <2>4, <2>5, <3>1 DEF First
    <2>7. recorded = Range(SubSeq(chain, 1, n))
      <3> DEFINE first == SubSeq(chain, 1, n)
      <3>1. DOMAIN first = 1 .. n /\ \A i \in 1 .. n : first[i] = chain[i] BY <2>3, <2>5
      <3> HIDE DEF first
      <3>2. Range(first) = {chain[i] : i \in 1 .. n} BY <3>1 DEF Range
      <3> QED BY <2>6, <3>2 DEF first, First
    <2>8. DOMAIN checkpoints = Scores(recorded)
      BY <2>1, <2>2 DEF IInv, PoiInv
    <2>9. \A i \in 1 .. n : Replayed(i)
      BY <2>2, <2>4, <2>5 DEF ReplayInv
    <2>10. DOMAIN entities = {DaaScore[chain[i]] : i \in {j \in 1 .. n : HasVersion(j)}}
      <3>1. Scores(Locks(First(n)) \cup Spends(First(n)))
              = {DaaScore[chain[i]] : i \in {j \in 1 .. n : HasVersion(j)}}
        BY <2>3, VersionedBlocks
      <3> QED BY <2>1, <2>6, <3>1, AtRest DEF TablesInv
    <2>11. Latest(entities) = ReplayedEntity(n)
      <3>1. Keyed(entities, Seq(Block)) BY DEF IInv, TypeOK
      <3> QED BY <2>3, <2>9, <2>10, <3>1, LatestVersion DEF Replayed
    <2>12. \A i \in 1 .. n : checkpoints[DaaScore[chain[i]]] = ReplayedPoi(i)
      BY <2>9 DEF Replayed
    <2> QED BY <2>7, <2>8, <2>11, <2>12
  <1> QED BY <1>1, <1>2, InvariantHolds, TablesFollowRecorded, StoreFollowsReplay, PTL
==============================================================================
