------------------------------ MODULE FeedProofs ------------------------------
(***************************************************************************)
(* Two theorems about Feed, for every tree of blocks, every assignment of  *)
(* scores that rise along a chain, every capacity of the channel and any   *)
(* number of reconnects: the gaps reported cover nothing known, hidden     *)
(* reorganizations included, and a node at rest holds the selected chain,  *)
(* unless a reorganization is hidden.                                      *)
(*                                                                         *)
(* A gap starts above the last score the driver has emitted.  That the     *)
(* node knows nothing in it when the gap reaches the node, perhaps many    *)
(* notifications later, is an invariant of the queue between the two: what *)
(* a gap finds before it, known, waiting or being recovered, lies below.   *)
(*                                                                         *)
(* That the node converges is an invariant of each block.  Of a block that *)
(* upstream has dropped, the queue holds a message that removes it, behind *)
(* everything that brings it (StaleInv).  Of a block on the selected chain *)
(* the last message about it brings it, or the node has it or is about to, *)
(* or the driver has yet to find it missing (FollowInv); and what was      *)
(* emitted is enough by itself for a block the driver counts as emitted,   *)
(* as what is on the wire may be lost with the connection.  Why no score   *)
(* passes the driver unnoticed is a matter of the order in which upstream  *)
(* announces blocks (WireInv).                                             *)
(***************************************************************************)
EXTENDS Feed, WellFoundedInduction, SequenceTheorems, TLAPS

Entry == [block : Block, final : BOOLEAN]

BlockMsg == {Added(b) : b \in Block}
ChainMsg == [kind : {"chain"}, removed : SUBSET Block, blocks : Seq(Block)]
GapMsg == [kind : {"gap"}, from : Nat, to : Nat]
Message == BlockMsg \cup ChainMsg \cup GapMsg

\* The scores a notification may bring to the node.
Reach(m) == IF m.kind = "gap" THEN {m.to} ELSE Scores(m)

TodoBlocks == {todo[i].block : i \in DOMAIN todo}

\* What the node knows or is being told, and what it is about to recover.
Known == committed \cup probabilistic \cup TodoBlocks
Awaited == recovery \cup refetch

Below(blocks, ranges, n) ==
    /\ \A b \in blocks : DaaScore[b] < n
    /\ \A r \in ranges : r[2] < n

\* Every message of a queue lies below a score.
AllBelow(queue, n) ==
    \A i \in DOMAIN queue : \A s \in Reach(queue[i]) : s < n

\* In a queue a gap lies above everything in front of it.
GapsAbove(queue) ==
    \A i, j \in DOMAIN queue :
        j < i /\ queue[i].kind = "gap" => \A s \in Reach(queue[j]) : s < queue[i].from

FeedTypes ==
    /\ committed \subseteq Block /\ probabilistic \subseteq Block
    /\ todo \in Seq(Entry)
    /\ recovery \subseteq Nat \X Nat /\ refetch \subseteq Nat \X Nat
    /\ tip \in Block
    /\ wire \in Seq(BlockMsg \cup ChainMsg)
    /\ outbox \in Seq(Message) /\ channel \in Seq(Message)
    /\ last \in Nat \cup {-1}

GapsInv ==
    /\ Below(Known, Awaited, last + 1)
    /\ AllBelow(channel, last + 1) /\ AllBelow(outbox, last + 1)
    /\ GapsAbove(channel) /\ GapsAbove(outbox)
    /\ \A i \in DOMAIN channel : channel[i].kind = "gap" => Below(Known, Awaited, channel[i].from)
    /\ \A i \in DOMAIN outbox : outbox[i].kind = "gap" =>
            Below(Known, Awaited, outbox[i].from) /\ AllBelow(channel, outbox[i].from)

FInv == FeedTypes /\ GapsInv

-------------------------------------------------------------------------------
(* Sets of scores.                                                           *)

LEMMA LeastScore ==
    ASSUME NEW T, T \subseteq Nat, T # {}
    PROVE  \E m \in T : \A n \in T : m <= n
  <1>1. PICK m \in T : \A n \in T : <<n, m>> \notin OpToRel(<, Nat)
    BY NatLessThanWellFounded, WFMin, Zenon
  <1>2. \A n \in T : ~(n < m)
    BY <1>1, Zenon DEF OpToRel
  <1> QED BY <1>2

LEMMA MinIs ==
    ASSUME NEW T, T \subseteq Nat, T # {}
    PROVE  Min(T) \in T /\ \A x \in T : Min(T) <= x
  <1>1. \E m \in T : \A n \in T : m <= n
    BY LeastScore
  <1> QED BY <1>1, Zenon DEF Min

LEMMA MaxIs ==
    ASSUME NEW T, T \subseteq Nat \cup {-1}, T # {}, NEW n \in Nat, \A x \in T : x <= n
    PROVE  Max(T) \in T /\ \A x \in T : x <= Max(T)
  <1> DEFINE below == {n - x : x \in T}
  <1>1. below \subseteq Nat /\ below # {}
    <2>1. ASSUME NEW x \in T PROVE n - x \in Nat
      <3>1. x \in Int /\ x <= n
        OBVIOUS
      <3> QED BY <3>1
    <2> QED BY <2>1
  <1>2. PICK d \in below : \A e \in below : d <= e
    BY <1>1, LeastScore
  <1>3. PICK m \in T : d = n - m
    OBVIOUS
  <1>4. \A x \in T : m >= x
    <2> SUFFICES ASSUME NEW x \in T PROVE m >= x
      OBVIOUS
    <2>1. n - m <= n - x
      BY <1>2, <1>3
    <2> QED BY <2>1
  <1>5. Max(T) \in T /\ \A x \in T : Max(T) >= x
    BY <1>3, <1>4, Zenon DEF Max
  <1> QED BY <1>5

\* The scores of a list of blocks have a bound.
LEMMA ScoresBounded ==
    ASSUME NEW blocks \in Seq(Block)
    PROVE  \E n \in Nat : \A i \in DOMAIN blocks : DaaScore[blocks[i]] <= n
  <1> DEFINE Bounds(k) == \E n \in Nat : \A i \in DOMAIN blocks : i <= k => DaaScore[blocks[i]] <= n
             bad == {k \in Nat : ~Bounds(k)}
  <1>1. Bounds(0)
    <2>1. \A i \in DOMAIN blocks : ~(i <= 0)
      OBVIOUS
    <2> QED BY <2>1
  <1>2. ASSUME NEW k \in Nat, Bounds(k)
        PROVE  Bounds(k + 1)
    <2>1. PICK n \in Nat : \A i \in DOMAIN blocks : i <= k => DaaScore[blocks[i]] <= n
      BY <1>2
    <2>2. CASE k + 1 \in DOMAIN blocks
      <3>1. DaaScore[blocks[k + 1]] \in Nat
        BY <2>2, FeedAssumption
      <3>2. ASSUME NEW i \in DOMAIN blocks, i <= k + 1
            PROVE  DaaScore[blocks[i]] <= n + DaaScore[blocks[k + 1]]
        <4>1. DaaScore[blocks[i]] \in Nat
          BY FeedAssumption
        <4>2. i = k + 1 \/ i <= k
          BY <3>2
        <4> QED BY <2>1, <3>1, <4>1, <4>2
      <3> DEFINE total == n + DaaScore[blocks[k + 1]]
      <3>3. total \in Nat /\ \A i \in DOMAIN blocks : i <= k + 1 => DaaScore[blocks[i]] <= total
        BY <3>1, <3>2
      <3> HIDE DEF total
      <3> QED BY <3>3
    <2>3. CASE k + 1 \notin DOMAIN blocks
      <3>1. \A i \in DOMAIN blocks : i <= k + 1 => i <= k
        BY <2>3
      <3> QED BY <2>1, <3>1
    <2> QED BY <2>2, <2>3
  <1>3. bad = {}
    <2> SUFFICES ASSUME bad # {} PROVE FALSE
      OBVIOUS
    <2>1. PICK m \in bad : \A k \in bad : m <= k
      BY LeastScore
    <2>2. m # 0 /\ m \in Nat
      BY <1>1
    <2> HIDE DEF Bounds
    <2>3. m - 1 \in Nat /\ m - 1 \notin bad /\ (m - 1) + 1 = m
      BY <2>1, <2>2
    <2>4. Bounds((m - 1) + 1)
      BY <1>2, <2>3
    <2>5. Bounds(m)
      BY <2>3, <2>4
    <2> QED BY <2>1, <2>5
  <1>4. Bounds(Len(blocks))
    <2> HIDE DEF Bounds
    <2> QED BY <1>3
  <1> QED BY <1>4, SMTT(30)

-------------------------------------------------------------------------------
(* What is kept of a list is in it.                                          *)

Keeps(set, blocks, kept, n) ==
    kept = [k \in 0..n |->
                IF k = 0 THEN <<>>
                ELSE IF blocks[k] \in set THEN Append(kept[k - 1], blocks[k])
                     ELSE kept[k - 1]]

LEMMA KeptExists ==
    ASSUME NEW set, NEW blocks, NEW n \in Nat
    PROVE  \E kept : Keeps(set, blocks, kept, n)
  <1> DEFINE bad == {k \in Nat : ~\E kept : Keeps(set, blocks, kept, k)}
  <1>1. \E kept : Keeps(set, blocks, kept, 0)
    <2> DEFINE kept == [k \in 0..0 |-> <<>>]
    <2>1. kept = [k \in 0..0 |->
                IF k = 0 THEN <<>>
                ELSE IF blocks[k] \in set THEN Append(kept[k - 1], blocks[k])
                     ELSE kept[k - 1]]
      <3>1. \A k \in 0..0 : k = 0
        OBVIOUS
      <3> QED BY <3>1
    <2> HIDE DEF kept
    <2>2. Keeps(set, blocks, kept, 0)
      BY <2>1 DEF Keeps
    <2> QED BY <2>2
  <1>2. ASSUME NEW k \in Nat, \E kept : Keeps(set, blocks, kept, k)
        PROVE  \E kept : Keeps(set, blocks, kept, k + 1)
    <2>1. PICK old : Keeps(set, blocks, old, k)
      BY <1>2
    <2> DEFINE new == [j \in 0..(k + 1) |->
                        IF j = 0 THEN <<>>
                        ELSE IF blocks[j] \in set THEN Append(old[j - 1], blocks[j])
                             ELSE old[j - 1]]
    <2>2. ASSUME NEW j \in 0..k PROVE new[j] = old[j]
      <3>1. old[j] = IF j = 0 THEN <<>>
                     ELSE IF blocks[j] \in set THEN Append(old[j - 1], blocks[j])
                          ELSE old[j - 1]
        BY <2>1, Zenon DEF Keeps
      <3>2. j \in 0..(k + 1)
        OBVIOUS
      <3>3. new[j] = IF j = 0 THEN <<>>
                     ELSE IF blocks[j] \in set THEN Append(old[j - 1], blocks[j])
                          ELSE old[j - 1]
        BY <3>2, Zenon
      <3> QED BY <3>1, <3>3, Zenon
    <2>3. \A j \in 0..(k + 1) : j # 0 => j - 1 \in 0..k
      OBVIOUS
    <2>4. new = [j \in 0..(k + 1) |->
                    IF j = 0 THEN <<>>
                    ELSE IF blocks[j] \in set THEN Append(new[j - 1], blocks[j])
                         ELSE new[j - 1]]
      BY <2>2, <2>3
    <2> HIDE DEF new
    <2>5. Keeps(set, blocks, new, k + 1)
      BY <2>4 DEF Keeps
    <2> QED BY <2>5
  <1>3. bad = {}
    <2> SUFFICES ASSUME bad # {} PROVE FALSE
      OBVIOUS
    <2>1. PICK m \in bad : \A k \in bad : m <= k
      BY LeastScore
    <2>2. m # 0 /\ m \in Nat
      BY <1>1
    <2>3. m - 1 \in Nat /\ m - 1 \notin bad /\ (m - 1) + 1 = m
      BY <2>1, <2>2
    <2>4. \E kept : Keeps(set, blocks, kept, (m - 1) + 1)
      BY <1>2, <2>3
    <2> QED BY <2>1, <2>3, <2>4
  <1> QED BY <1>3

LEMMA AmongIs ==
    ASSUME NEW set, NEW blocks \in Seq(Block)
    PROVE  Among(set, blocks) \in Seq(Block \cap set)
  <1> DEFINE kept == CHOOSE g : Keeps(set, blocks, g, Len(blocks))
  <1>1. Keeps(set, blocks, kept, Len(blocks))
    BY KeptExists
  <1>2. Among(set, blocks) = kept[Len(blocks)]
    BY DEF Among, Keeps
  <1> HIDE DEF kept
  <1>3. \A n \in 0..Len(blocks) :
            kept[n] = IF n = 0 THEN <<>>
                      ELSE IF blocks[n] \in set THEN Append(kept[n - 1], blocks[n])
                           ELSE kept[n - 1]
    BY <1>1 DEF Keeps
  <1> DEFINE bad == {n \in 0..Len(blocks) : kept[n] \notin Seq(Block \cap set)}
  <1>4. bad = {}
    <2> SUFFICES ASSUME bad # {} PROVE FALSE
      OBVIOUS
    <2>0. bad \subseteq 0..Len(blocks) /\ bad \subseteq Nat
      OBVIOUS
    <2>1. PICK m \in bad : \A n \in bad : m <= n
      BY <2>0, LeastScore
    <2>2. m # 0
      <3>1. kept[0] = <<>>
        BY <1>3
      <3>2. <<>> \in Seq(Block \cap set)
        OBVIOUS
      <3> QED BY <3>1, <3>2
    <2>3. m \in 1..Len(blocks) /\ m - 1 \in 0..Len(blocks) /\ m - 1 \notin bad
      BY <2>1, <2>2
    <2>4. kept[m - 1] \in Seq(Block \cap set) /\ blocks[m] \in Block
      BY <2>3
    <2>5. kept[m] = IF blocks[m] \in set THEN Append(kept[m - 1], blocks[m]) ELSE kept[m - 1]
      BY <1>3, <2>2, <2>3
    <2>6. kept[m] \in Seq(Block \cap set)
      BY <2>4, <2>5
    <2> QED BY <2>6
  <1>5. kept[Len(blocks)] \in Seq(Block \cap set)
    BY <1>4
  <1> QED BY <1>2, <1>5

-------------------------------------------------------------------------------
(* Messages.                                                                 *)

LEMMA AddedIs ==
    ASSUME NEW b \in Block
    PROVE  /\ Added(b).kind = "block" /\ Added(b).removed = {} /\ Added(b).blocks = <<b>>
           /\ Scores(Added(b)) = {DaaScore[b]}
  <1>1. Range(<<b>>) = {b}
    BY DEF Range
  <1> QED BY <1>1 DEF Added, Scores

LEMMA MessageIs ==
    ASSUME NEW m \in Message
    PROVE  /\ Reach(m) \subseteq Nat
           /\ m.kind = "gap" => m \in GapMsg /\ m.from \in Nat /\ m.to \in Nat /\ Reach(m) = {m.to}
           /\ m.kind # "gap" => m.blocks \in Seq(Block) /\ Reach(m) = Scores(m)
           /\ m.kind = "block" => m.blocks[1] \in Block /\ Scores(m) = {DaaScore[m.blocks[1]]}
  <1>1. CASE m \in BlockMsg
    <2>1. PICK b \in Block : m = Added(b)
      BY <1>1 DEF BlockMsg
    <2>2. DaaScore[b] \in Nat
      BY FeedAssumption
    <2>3. m.kind = "block" /\ m.blocks = <<b>> /\ Scores(m) = {DaaScore[b]}
      BY <2>1, AddedIs
    <2>4. <<b>> \in Seq(Block) /\ <<b>>[1] = b
      OBVIOUS
    <2> QED BY <2>2, <2>3, <2>4 DEF Reach
  <1>2. CASE m \in ChainMsg
    <2>1. m.kind = "chain" /\ m.blocks \in Seq(Block)
      BY <1>2 DEF ChainMsg
    <2>2. Scores(m) \subseteq Nat
      <3>1. \A b \in Range(m.blocks) : b \in Block
        BY <2>1 DEF Range
      <3>2. \A b \in Block : DaaScore[b] \in Nat
        BY FeedAssumption
      <3> QED BY <3>1, <3>2 DEF Scores
    <2> QED BY <2>1, <2>2 DEF Reach
  <1>3. CASE m \in GapMsg
    BY <1>3 DEF GapMsg, Reach
  <1> QED BY <1>1, <1>2, <1>3 DEF Message

LEMMA ScoresOf ==
    ASSUME NEW m, m.blocks \in Seq(Block)
    PROVE  /\ Scores(m) \subseteq Nat
           /\ \A i \in DOMAIN m.blocks : DaaScore[m.blocks[i]] \in Scores(m)
           /\ \E n \in Nat : \A s \in Scores(m) : s <= n
  <1>1. Scores(m) = {DaaScore[m.blocks[i]] : i \in DOMAIN m.blocks}
    BY DEF Scores, Range
  <1>2. PICK n \in Nat : \A i \in DOMAIN m.blocks : DaaScore[m.blocks[i]] <= n
    BY ScoresBounded
  <1>3. \A i \in DOMAIN m.blocks : DaaScore[m.blocks[i]] \in Nat
    <2>1. \A i \in DOMAIN m.blocks : m.blocks[i] \in Block
      OBVIOUS
    <2>2. \A b \in Block : DaaScore[b] \in Nat
      BY FeedAssumption
    <2> QED BY <2>1, <2>2
  <1>4. Scores(m) \subseteq Nat /\ \A s \in Scores(m) : s <= n
    BY <1>1, <1>2, <1>3
  <1>5. \A i \in DOMAIN m.blocks : DaaScore[m.blocks[i]] \in Scores(m)
    BY <1>1
  <1> QED BY <1>4, <1>5

LEMMA ChangedIs ==
    ASSUME NEW old \in Block, NEW new \in Block
    PROVE  Changed(old, new) \in ChainMsg
  <1>1. OnChain(old) \subseteq Block
    BY FeedAssumption DEF OnChain, Range
  <1>2. NewBlocks(old, new) \in Seq(Block)
    <2>1. Path[new] \in Seq(Block)
      BY FeedAssumption
    <2>2. NewBlocks(old, new) \in Seq(Block \cap (Block \ OnChain(old)))
      BY <2>1, AmongIs DEF NewBlocks
    <2> QED BY <2>2
  <1> QED BY <1>1, <1>2 DEF Changed, ChainMsg

LEMMA AnnouncementsAre ==
    ASSUME NEW old \in Block, NEW new \in Block
    PROVE  Announcements(old, new) \in Seq(BlockMsg \cup ChainMsg)
  <1>1. Changed(old, new) \in ChainMsg /\ NewBlocks(old, new) \in Seq(Block)
    BY ChangedIs DEF Changed, ChainMsg
  <1>2. [i \in DOMAIN NewBlocks(old, new) |-> Added(NewBlocks(old, new)[i])] \in Seq(BlockMsg)
    BY <1>1 DEF BlockMsg
  <1> QED BY <1>1, <1>2 DEF Announcements

\* The blocks of a list are what the node is told.
LEMMA ToldBlocks ==
    ASSUME NEW blocks \in Seq(Block)
    PROVE  /\ NotFinal(blocks) \in Seq(Entry)
           /\ DOMAIN NotFinal(blocks) = DOMAIN blocks
           /\ \A i \in DOMAIN blocks : NotFinal(blocks)[i].block = blocks[i]
  <1>1. \A i \in DOMAIN blocks : [block |-> blocks[i], final |-> FALSE] \in Entry
    BY DEF Entry
  <1>2. Len(blocks) \in Nat /\ DOMAIN blocks = 1..Len(blocks)
    OBVIOUS
  <1> HIDE DEF Entry
  <1>3. NotFinal(blocks) \in Seq(Entry)
    BY <1>1, <1>2 DEF NotFinal
  <1> QED BY <1>3 DEF NotFinal

-------------------------------------------------------------------------------
(* The loop's side of the queue.                                             *)

\* The queue is unchanged and the node reaches no higher than before.
LEMMA NodeStays ==
    ASSUME FInv, UNCHANGED <<channel, outbox, last>>, FeedTypes',
           \A n \in Int : Below(Known, Awaited, n) => Below(Known', Awaited', n)
    PROVE  FInv'
  <1>1. \A i \in DOMAIN channel : channel[i].kind = "gap" => channel[i].from \in Int
    BY MessageIs DEF FInv, FeedTypes
  <1>2. \A i \in DOMAIN outbox : outbox[i].kind = "gap" => outbox[i].from \in Int
    BY MessageIs DEF FInv, FeedTypes
  <1>3. last + 1 \in Int
    BY DEF FInv, FeedTypes
  <1> QED BY <1>1, <1>2, <1>3 DEF FInv, GapsInv, AllBelow, GapsAbove

\* The node takes the next message, and reaches no higher than it did and the
\* message does.
LEMMA NodeTakes ==
    ASSUME FInv, channel # <<>>, channel' = Tail(channel), UNCHANGED <<outbox, last>>, FeedTypes',
           \A n \in Int : Below(Known, Awaited, n) /\ (\A s \in Reach(Head(channel)) : s < n)
                            => Below(Known', Awaited', n)
    PROVE  FInv'
  <1>0. channel \in Seq(Message) /\ outbox \in Seq(Message) /\ last + 1 \in Int
    BY DEF FInv, FeedTypes
  <1>1. /\ 1 \in DOMAIN channel /\ Head(channel) = channel[1]
        /\ \A i \in DOMAIN channel' :
            i + 1 \in DOMAIN channel /\ channel'[i] = channel[i + 1] /\ i \in Nat
    BY <1>0
  <1>2. Below(Known', Awaited', last + 1)
    BY <1>0, <1>1 DEF FInv, GapsInv, AllBelow
  <1>3. AllBelow(channel', last' + 1) /\ GapsAbove(channel')
    <2>1. AllBelow(channel, last + 1) /\ GapsAbove(channel)
      BY DEF FInv, GapsInv
    <2>2. AllBelow(channel', last' + 1)
      BY <1>1, <2>1 DEF AllBelow
    <2>3. ASSUME NEW i \in DOMAIN channel', NEW j \in DOMAIN channel', j < i,
                 channel'[i].kind = "gap", NEW s \in Reach(channel'[j])
          PROVE  s < channel'[i].from
      <3>1. i + 1 \in DOMAIN channel /\ channel'[i] = channel[i + 1]
        BY <1>1
      <3>2. j + 1 \in DOMAIN channel /\ channel'[j] = channel[j + 1]
        BY <1>1
      <3>3. j + 1 < i + 1
        BY <1>1, <2>3
      <3> QED BY <2>1, <2>3, <3>1, <3>2, <3>3 DEF GapsAbove
    <2>4. GapsAbove(channel')
      BY <2>3 DEF GapsAbove
    <2> QED BY <2>2, <2>4
  <1>4. ASSUME NEW i \in DOMAIN channel', channel'[i].kind = "gap"
        PROVE  Below(Known', Awaited', channel'[i].from)
    <2>1. i + 1 \in DOMAIN channel /\ channel'[i] = channel[i + 1] /\ 1 < i + 1
      BY <1>0, <1>1
    <2>2. channel[i + 1].from \in Int
      BY <1>0, <1>4, <2>1, MessageIs
    <2>3. /\ Below(Known, Awaited, channel[i + 1].from)
          /\ \A s \in Reach(Head(channel)) : s < channel[i + 1].from
      BY <1>1, <1>4, <2>1 DEF FInv, GapsInv, GapsAbove
    <2>4. PICK n \in Int : n = channel[i + 1].from
      BY <2>2
    <2>5. Below(Known', Awaited', n)
      BY <2>3, <2>4
    <2> QED BY <2>1, <2>4, <2>5
  <1>5. ASSUME NEW i \in DOMAIN outbox, outbox[i].kind = "gap"
        PROVE  Below(Known', Awaited', outbox[i].from) /\ AllBelow(channel', outbox[i].from)
    <2>1. PICK n \in Int : n = outbox[i].from
      BY <1>0, <1>5, MessageIs
    <2>2. Below(Known, Awaited, n) /\ AllBelow(channel, n)
      BY <1>5, <2>1 DEF FInv, GapsInv
    <2>3. Below(Known', Awaited', n)
      BY <1>1, <2>2 DEF AllBelow
    <2>4. AllBelow(channel', n)
      BY <1>1, <2>2 DEF AllBelow
    <2> QED BY <2>1, <2>3, <2>4
  <1>6. AllBelow(outbox', last' + 1) /\ GapsAbove(outbox')
    BY DEF FInv, GapsInv
  <1>7. GapsInv'
    BY <1>2, <1>3, <1>4, <1>5, <1>6 DEF GapsInv
  <1> QED BY <1>7 DEF FInv

-------------------------------------------------------------------------------
(* One lemma per kind of step.                                               *)

\* Upstream and the connection change; the queue and the node do not.
LEMMA UpstreamStep ==
    ASSUME FInv, UNCHANGED <<nodeVars, channel, refetch>>, tip' \in Block,
           wire' \in Seq(BlockMsg \cup ChainMsg), last' = last, outbox' = outbox
    PROVE  FInv'
  <1>1. FeedTypes'
    BY DEF FInv, FeedTypes, nodeVars
  <1>2. Known' = Known /\ Awaited' = Awaited
    BY DEF Known, Awaited, TodoBlocks, nodeVars
  <1> QED BY <1>1, <1>2, NodeStays

LEMMA AdvanceStep ==
    ASSUME FInv, Advance
    PROVE  FInv'
  <1>1. PICK b \in Block : /\ tip' = b
                           /\ wire' = IF link = "up" THEN wire \o Announcements(tip, b) ELSE wire
    BY DEF Advance
  <1>2. wire' \in Seq(BlockMsg \cup ChainMsg)
    <2>1. wire \in Seq(BlockMsg \cup ChainMsg) /\ tip \in Block
      BY DEF FInv, FeedTypes
    <2>2. Announcements(tip, b) \in Seq(BlockMsg \cup ChainMsg)
      BY <2>1, AnnouncementsAre
    <2> HIDE DEF BlockMsg, ChainMsg, Announcements
    <2> QED BY <1>1, <2>1, <2>2
  <1> QED BY <1>1, <1>2, UpstreamStep DEF Advance, driverVars

LEMMA LinkStep ==
    ASSUME FInv, Dial \/ Connect \/ StreamEnds \/ AttemptFails \/ Stop
    PROVE  FInv'
  <1>1. <<>> \in Seq(BlockMsg \cup ChainMsg)
    OBVIOUS
  <1>2. wire' \in Seq(BlockMsg \cup ChainMsg) /\ tip' \in Block
    BY <1>1 DEF FInv, FeedTypes, Dial, Connect, StreamEnds, AttemptFails, Disconnect, Stop, chainVars
  <1>3. UNCHANGED <<nodeVars, channel, refetch, last, outbox>>
    BY DEF Dial, Connect, StreamEnds, AttemptFails, Disconnect, Stop
  <1> QED BY <1>2, <1>3, UpstreamStep

LEMMA LeaveStep ==
    ASSUME FInv, Leave
    PROVE  FInv'
  <1>1. wire' \in Seq(BlockMsg \cup ChainMsg) /\ tip' \in Block
    BY DEF FInv, FeedTypes, Leave, chainVars
  <1> QED BY <1>1, UpstreamStep DEF Leave, driverVars

LEMMA StutterStep ==
    ASSUME FInv, UNCHANGED vars
    PROVE  FInv'
  <1>1. wire' \in Seq(BlockMsg \cup ChainMsg) /\ tip' \in Block
    BY DEF FInv, FeedTypes, vars, chainVars
  <1> QED BY <1>1, UpstreamStep DEF vars, driverVars

\* What the driver was about to send is dropped with the receiver.
LEMMA NoticeClosedStep ==
    ASSUME FInv, NoticeClosed
    PROVE  FInv'
  <1>1. <<>> \in Seq(BlockMsg \cup ChainMsg) /\ <<>> \in Seq(Message)
    OBVIOUS
  <1>2. FeedTypes'
    BY <1>1 DEF FInv, FeedTypes, NoticeClosed, HangUp, nodeVars, chainVars
  <1>3. Known' = Known /\ Awaited' = Awaited
    BY DEF Known, Awaited, TodoBlocks, NoticeClosed, HangUp, nodeVars
  <1>4. outbox' = <<>> /\ channel' = channel /\ last' = last
    BY DEF NoticeClosed, HangUp
  <1>5. DOMAIN outbox' = {}
    BY <1>4
  <1>6. GapsInv'
    BY <1>3, <1>4, <1>5 DEF FInv, GapsInv, AllBelow, GapsAbove
  <1> QED BY <1>2, <1>6 DEF FInv

\* The first message of the outbox moves to the end of the channel: the order of the
\* two together is the same.
LEMMA SendStep ==
    ASSUME FInv, Send
    PROVE  FInv'
  <1>0. /\ channel \in Seq(Message) /\ outbox \in Seq(Message) /\ outbox # <<>>
        /\ channel' = Append(channel, Head(outbox)) /\ outbox' = Tail(outbox)
    BY DEF FInv, FeedTypes, Send
  <1>1. last' = last /\ UNCHANGED <<nodeVars, tip, wire, refetch>>
    BY DEF Send, driverVars, chainVars
  <1> HIDE DEF Message
  <1>2. /\ 1 \in DOMAIN outbox /\ Head(outbox) = outbox[1] /\ Head(outbox) \in Message
        /\ \A i \in DOMAIN outbox' :
            i + 1 \in DOMAIN outbox /\ outbox'[i] = outbox[i + 1] /\ i \in Nat /\ 1 < i + 1
    BY <1>0
  <1>3. /\ channel' \in Seq(Message) /\ outbox' \in Seq(Message)
        /\ \A i \in DOMAIN channel' :
            \/ i \in DOMAIN channel /\ channel'[i] = channel[i] /\ i \in Nat
            \/ i = Len(channel) + 1 /\ channel'[i] = outbox[1]
    BY <1>0, <1>2
  <1>4. FeedTypes'
    BY <1>1, <1>3 DEF FInv, FeedTypes, nodeVars
  <1>5. Known' = Known /\ Awaited' = Awaited
    BY <1>1 DEF Known, Awaited, TodoBlocks, nodeVars
  <1>6. /\ AllBelow(channel, last + 1) /\ GapsAbove(channel)
        /\ AllBelow(outbox, last + 1) /\ GapsAbove(outbox)
    BY DEF FInv, GapsInv
  <1>7. AllBelow(channel', last' + 1) /\ AllBelow(outbox', last' + 1)
    <2>1. AllBelow(channel', last' + 1)
      BY <1>1, <1>2, <1>3, <1>6 DEF AllBelow
    <2>2. AllBelow(outbox', last' + 1)
      BY <1>1, <1>2, <1>6 DEF AllBelow
    <2> QED BY <2>1, <2>2
  <1>8. GapsAbove(outbox')
    <2>1. ASSUME NEW i \in DOMAIN outbox', NEW j \in DOMAIN outbox', j < i,
                 outbox'[i].kind = "gap", NEW s \in Reach(outbox'[j])
          PROVE  s < outbox'[i].from
      <3>1. i + 1 \in DOMAIN outbox /\ outbox'[i] = outbox[i + 1]
        BY <1>2
      <3>2. j + 1 \in DOMAIN outbox /\ outbox'[j] = outbox[j + 1]
        BY <1>2
      <3>3. j + 1 < i + 1
        BY <1>2, <2>1
      <3> QED BY <1>6, <2>1, <3>1, <3>2, <3>3 DEF GapsAbove
    <2> QED BY <2>1 DEF GapsAbove
  <1>9. GapsAbove(channel')
    <2>1. ASSUME NEW i \in DOMAIN channel', NEW j \in DOMAIN channel', j < i,
                 channel'[i].kind = "gap", NEW s \in Reach(channel'[j])
          PROVE  s < channel'[i].from
      <3>1. j \in DOMAIN channel /\ channel'[j] = channel[j]
        <4>1. j \in DOMAIN channel'
          BY <2>1
        <4>2. i \in 1..(Len(channel) + 1) /\ j \in 1..(Len(channel) + 1)
          BY <1>0, <1>3, <2>1
        <4>3. j # Len(channel) + 1
          BY <1>0, <2>1, <4>2
        <4> QED BY <1>3, <4>1, <4>3
      <3>2. CASE i \in DOMAIN channel /\ channel'[i] = channel[i]
        BY <1>6, <2>1, <3>1, <3>2 DEF GapsAbove
      <3>3. CASE i = Len(channel) + 1 /\ channel'[i] = outbox[1]
        <4>1. AllBelow(channel, outbox[1].from)
          BY <1>2, <2>1, <3>3 DEF FInv, GapsInv
        <4> QED BY <2>1, <3>1, <3>3, <4>1 DEF AllBelow
      <3> QED BY <1>3, <3>2, <3>3
    <2> QED BY <2>1 DEF GapsAbove
  <1>10. ASSUME NEW i \in DOMAIN channel', channel'[i].kind = "gap"
         PROVE  Below(Known', Awaited', channel'[i].from)
    <2>1. CASE i \in DOMAIN channel /\ channel'[i] = channel[i]
      BY <1>5, <1>10, <2>1 DEF FInv, GapsInv
    <2>2. CASE channel'[i] = outbox[1]
      BY <1>2, <1>5, <1>10, <2>2 DEF FInv, GapsInv
    <2> QED BY <1>3, <2>1, <2>2
  <1>11. ASSUME NEW i \in DOMAIN outbox', outbox'[i].kind = "gap"
         PROVE  Below(Known', Awaited', outbox'[i].from) /\ AllBelow(channel', outbox'[i].from)
    <2>1. i + 1 \in DOMAIN outbox /\ outbox'[i] = outbox[i + 1] /\ 1 < i + 1
      BY <1>2, <1>11
    <2>2. Below(Known, Awaited, outbox[i + 1].from) /\ AllBelow(channel, outbox[i + 1].from)
      BY <1>11, <2>1 DEF FInv, GapsInv
    <2>3. \A s \in Reach(outbox[1]) : s < outbox[i + 1].from
      BY <1>2, <1>6, <1>11, <2>1 DEF GapsAbove
    <2>4. AllBelow(channel', outbox[i + 1].from)
      BY <1>3, <2>2, <2>3 DEF AllBelow
    <2> QED BY <1>5, <2>1, <2>2, <2>4
  <1>12. Below(Known', Awaited', last' + 1)
    BY <1>1, <1>5 DEF FInv, GapsInv
  <1> QED BY <1>4, <1>7, <1>8, <1>9, <1>10, <1>11, <1>12 DEF FInv, GapsInv

LEMMA KnownNumbers ==
    ASSUME FInv
    PROVE  /\ Known \subseteq Block
           /\ \A b \in Known : DaaScore[b] \in Nat
           /\ \A r \in Awaited : r[2] \in Nat
  <1>1. \A i \in DOMAIN todo : todo[i].block \in Block
    <2>1. todo \in Seq(Entry)
      BY DEF FInv, FeedTypes
    <2>2. \A i \in DOMAIN todo : todo[i] \in Entry
      BY <2>1
    <2> QED BY <2>2 DEF Entry
  <1>2. Known \subseteq Block
    BY <1>1 DEF FInv, FeedTypes, Known, TodoBlocks
  <1>3. \A b \in Block : DaaScore[b] \in Nat
    BY FeedAssumption
  <1>4. \A r \in Awaited : r[2] \in Nat
    BY DEF FInv, FeedTypes, Awaited
  <1> QED BY <1>2, <1>3, <1>4

\* A gap and its message come after everything queued, and start above it.
LEMMA ReadStep ==
    ASSUME FInv, Read
    PROVE  FInv'
  <1> DEFINE m     == Head(wire)
             fresh == {s \in Scores(m) : s > last}
  <1>0. /\ last \in Nat \cup {-1} /\ channel \in Seq(Message)
        /\ wire \in Seq(BlockMsg \cup ChainMsg) /\ wire # <<>>
        /\ outbox' = GapBefore(m) \o <<m>> /\ last' = Max(Scores(m) \cup {last})
        /\ wire' = Tail(wire) /\ UNCHANGED <<nodeVars, tip, channel, refetch>>
    BY DEF FInv, FeedTypes, Read, chainVars
  <1>1. m \in BlockMsg \cup ChainMsg /\ wire' \in Seq(BlockMsg \cup ChainMsg)
    <2> HIDE DEF BlockMsg, ChainMsg
    <2> QED BY <1>0
  <1>2. m \in Message /\ m.kind # "gap" /\ m.blocks \in Seq(Block) /\ Reach(m) = Scores(m)
    <2>1. m.kind # "gap"
      <3>1. CASE m \in BlockMsg
        BY <3>1, AddedIs DEF BlockMsg
      <3>2. CASE m \in ChainMsg
        BY <3>2 DEF ChainMsg
      <3> QED BY <1>1, <3>1, <3>2
    <2>2. m \in Message
      BY <1>1 DEF Message
    <2> QED BY <2>1, <2>2, MessageIs
  <1> HIDE DEF m
  <1>3. PICK n \in Nat : \A s \in Scores(m) : s <= n
    BY <1>2, ScoresOf
  <1>4. Scores(m) \subseteq Nat
    BY <1>2, ScoresOf
  <1>5. last' \in Nat \cup {-1} /\ last <= last' /\ \A s \in Scores(m) : s <= last'
    <2> DEFINE all == Scores(m) \cup {last}
    <2>1. all \subseteq Nat \cup {-1} /\ all # {}
      BY <1>0, <1>4
    <2>2. PICK k \in Nat : \A x \in all : x <= k
      <3>1. CASE last <= n
        BY <1>3, <3>1
      <3>2. CASE ~(last <= n)
        <4>1. last \in Nat /\ n <= last
          BY <1>0, <3>2
        <4>2. \A x \in all : x <= last
          BY <1>3, <1>4, <4>1
        <4> QED BY <4>1, <4>2
      <3> QED BY <3>1, <3>2
    <2> HIDE DEF all
    <2>3. Max(all) \in all /\ \A x \in all : x <= Max(all)
      BY <2>1, <2>2, MaxIs
    <2> USE DEF all
    <2> QED BY <1>0, <2>1, <2>3
  <1>6. /\ outbox' \in Seq(Message)
        /\ \A i \in DOMAIN outbox' :
              \/ outbox'[i] = m
              \/ /\ i = 1 /\ outbox'[i].kind = "gap" /\ outbox'[i].from = last + 1
                 /\ \A s \in Reach(outbox'[i]) : s < last' + 1
    <2>1. CASE GapBefore(m) = <<>>
      <3>1. outbox' = <<m>>
        BY <1>0, <2>1
      <3> HIDE DEF Message
      <3> QED BY <1>2, <3>1
    <2>2. CASE GapBefore(m) # <<>>
      <3>1. /\ last # -1 /\ fresh # {} /\ Min(fresh) > last + 1
            /\ GapBefore(m) = <<Gap(last + 1, Min(fresh) - 1)>>
        BY <2>2 DEF GapBefore
      <3>2. fresh \subseteq Nat
        BY <1>4
      <3>3. Min(fresh) \in fresh
        BY <3>1, <3>2, MinIs
      <3>4. last \in Nat /\ Min(fresh) \in Nat /\ Min(fresh) <= last'
        BY <1>0, <1>4, <1>5, <3>1, <3>3
      <3> HIDE DEF fresh
      <3>5. last + 1 \in Nat /\ Min(fresh) - 1 \in Nat /\ Min(fresh) - 1 < last' + 1
        BY <1>5, <3>1, <3>4
      <3> DEFINE gap == Gap(last + 1, Min(fresh) - 1)
      <3>6. /\ gap \in Message /\ gap.kind = "gap" /\ gap.from = last + 1
            /\ Reach(gap) = {Min(fresh) - 1}
        BY <3>5 DEF Gap, GapMsg, Message, Reach
      <3>7. outbox' = <<gap>> \o <<m>>
        BY <1>0, <3>1
      <3> HIDE DEF gap, Message
      <3>8. /\ outbox' \in Seq(Message) /\ DOMAIN outbox' = 1..2
            /\ outbox'[1] = gap /\ outbox'[2] = m
        BY <1>2, <3>6, <3>7
      <3> QED BY <3>5, <3>6, <3>8
    <2> QED BY <2>1, <2>2
  <1>7. FeedTypes'
    BY <1>0, <1>1, <1>5, <1>6 DEF FInv, FeedTypes, nodeVars
  <1>8. Known' = Known /\ Awaited' = Awaited
    BY <1>0 DEF Known, Awaited, TodoBlocks, nodeVars
  <1>9. Below(Known, Awaited, last + 1) /\ AllBelow(channel, last + 1) /\ GapsAbove(channel)
    BY DEF FInv, GapsInv
  <1>10. Below(Known', Awaited', last' + 1)
    <2>1. (\A b \in Known : DaaScore[b] \in Nat) /\ (\A r \in Awaited : r[2] \in Nat)
      BY KnownNumbers
    <2>2. \A b \in Known : DaaScore[b] < last' + 1
      BY <1>0, <1>5, <1>9, <2>1 DEF Below
    <2>3. \A r \in Awaited : r[2] < last' + 1
      BY <1>0, <1>5, <1>9, <2>1 DEF Below
    <2> QED BY <1>8, <2>2, <2>3 DEF Below
  <1>11. AllBelow(channel', last' + 1)
    <2>1. \A i \in DOMAIN channel : Reach(channel[i]) \subseteq Nat
      <3> HIDE DEF Message
      <3> QED BY <1>0, MessageIs
    <2> QED BY <1>0, <1>5, <1>9, <2>1 DEF AllBelow
  <1>12. AllBelow(outbox', last' + 1)
    <2>1. \A s \in Reach(m) : s < last' + 1
      BY <1>2, <1>4, <1>5
    <2> QED BY <1>6, <2>1 DEF AllBelow
  <1>13. GapsAbove(outbox')
    <2>1. ASSUME NEW i \in DOMAIN outbox', NEW j \in DOMAIN outbox', j < i,
                 outbox'[i].kind = "gap"
          PROVE  FALSE
      <3>1. i = 1
        BY <1>2, <1>6, <2>1
      <3>2. j \in Nat /\ j # 0
        BY <1>6
      <3> QED BY <2>1, <3>1, <3>2
    <2> QED BY <2>1 DEF GapsAbove
  <1>14. GapsAbove(channel')
    BY <1>0, <1>9
  <1>15. \A i \in DOMAIN channel' : channel'[i].kind = "gap" =>
            Below(Known', Awaited', channel'[i].from)
    BY <1>0, <1>8 DEF FInv, GapsInv
  <1>16. ASSUME NEW i \in DOMAIN outbox', outbox'[i].kind = "gap"
         PROVE  Below(Known', Awaited', outbox'[i].from) /\ AllBelow(channel', outbox'[i].from)
    <2>1. outbox'[i].from = last + 1
      BY <1>2, <1>6, <1>16
    <2> QED BY <1>0, <1>8, <1>9, <2>1
  <1>17. GapsInv'
    BY <1>10, <1>11, <1>12, <1>13, <1>14, <1>15, <1>16 DEF GapsInv
  <1> QED BY <1>7, <1>17 DEF FInv

-------------------------------------------------------------------------------
(* The steps of the loop.                                                    *)

LEMMA TakenMessage ==
    ASSUME FInv, NEW kind, Take(kind)
    PROVE  /\ channel # <<>> /\ channel' = Tail(channel) /\ channel' \in Seq(Message)
           /\ Head(channel) \in Message /\ Head(channel).kind = kind
           /\ refetch = {} /\ refetch' = {} /\ todo = <<>> /\ recovery = {}
           /\ UNCHANGED <<tip, wire, outbox, last>>
  <1> HIDE DEF Message
  <1>1. channel \in Seq(Message) /\ channel # <<>> /\ channel' = Tail(channel)
    BY DEF FInv, FeedTypes, Take
  <1>2. Head(channel) \in Message /\ channel' \in Seq(Message)
    BY <1>1
  <1> QED BY <1>1, <1>2 DEF Take, Unhandled, chainVars, driverVars, Node!Idle

LEMMA TakeBlockStep ==
    ASSUME FInv, TakeBlock
    PROVE  FInv'
  <1> DEFINE m == Head(channel)
  <1>0. Take("block") /\ Node!BlockAdded(m.blocks[1], FALSE)
    BY DEF TakeBlock
  <1>1. /\ channel # <<>> /\ channel' = Tail(channel) /\ channel' \in Seq(Message)
        /\ m \in Message /\ m.kind = "block" /\ refetch = {} /\ refetch' = {}
        /\ recovery = {} /\ UNCHANGED <<tip, wire, outbox, last>>
    BY <1>0, TakenMessage
  <1> HIDE DEF m
  <1>2. m.blocks[1] \in Block /\ Reach(m) = {DaaScore[m.blocks[1]]}
    BY <1>1, MessageIs
  <1>3. /\ todo' = <<[block |-> m.blocks[1], final |-> FALSE]>>
        /\ UNCHANGED <<committed, probabilistic, recovery>>
    BY <1>0 DEF Node!BlockAdded
  <1>4. todo' \in Seq(Entry) /\ TodoBlocks' = {m.blocks[1]}
    <2>1. [block |-> m.blocks[1], final |-> FALSE] \in Entry
      BY <1>2 DEF Entry
    <2> QED BY <1>3, <2>1 DEF TodoBlocks
  <1>5. FeedTypes'
    BY <1>1, <1>3, <1>4 DEF FInv, FeedTypes
  <1>6. Known' \subseteq Known \cup {m.blocks[1]} /\ Awaited' = {}
    BY <1>1, <1>3, <1>4 DEF Known, Awaited
  <1>7. \A n \in Int : Below(Known, Awaited, n) /\ (\A s \in Reach(m) : s < n)
                          => Below(Known', Awaited', n)
    BY <1>2, <1>6 DEF Below
  <1> QED BY <1>1, <1>5, <1>7, NodeTakes DEF m

LEMMA TakeChainChangeStep ==
    ASSUME FInv, TakeChainChange
    PROVE  FInv'
  <1> DEFINE m == Head(channel)
  <1>0. Take("chain") /\ Node!VirtualChainChanged(m.removed, NotFinal(m.blocks))
    BY DEF TakeChainChange
  <1>1. /\ channel # <<>> /\ channel' = Tail(channel) /\ channel' \in Seq(Message)
        /\ m \in Message /\ m.kind = "chain" /\ refetch = {} /\ refetch' = {}
        /\ recovery = {} /\ UNCHANGED <<tip, wire, outbox, last>>
    BY <1>0, TakenMessage
  <1> HIDE DEF m
  <1>2. m.blocks \in Seq(Block) /\ Reach(m) = Scores(m)
    BY <1>1, MessageIs
  <1>3. /\ todo' = NotFinal(m.blocks) /\ recovery' = recovery
        /\ committed' \subseteq committed /\ probabilistic' \subseteq probabilistic
    BY <1>0 DEF Node!VirtualChainChanged
  <1>4. todo' \in Seq(Entry) /\ \A b \in TodoBlocks' : DaaScore[b] \in Reach(m)
    <2>1. /\ todo' \in Seq(Entry) /\ DOMAIN todo' = DOMAIN m.blocks
          /\ \A i \in DOMAIN m.blocks : todo'[i].block = m.blocks[i]
      BY <1>2, <1>3, ToldBlocks
    <2>2. \A i \in DOMAIN m.blocks : DaaScore[m.blocks[i]] \in Reach(m)
      BY <1>2, ScoresOf
    <2> QED BY <2>1, <2>2 DEF TodoBlocks
  <1>5. FeedTypes'
    BY <1>1, <1>3, <1>4 DEF FInv, FeedTypes
  <1>6. Known' \subseteq Known \cup TodoBlocks' /\ Awaited' = {}
    BY <1>1, <1>3 DEF Known, Awaited
  <1>7. \A n \in Int : Below(Known, Awaited, n) /\ (\A s \in Reach(m) : s < n)
                          => Below(Known', Awaited', n)
    BY <1>4, <1>6 DEF Below
  <1> QED BY <1>1, <1>5, <1>7, NodeTakes DEF m

LEMMA TakeGapStep ==
    ASSUME FInv, TakeGap
    PROVE  FInv'
  <1> DEFINE m == Head(channel)
  <1>0. Take("gap") /\ Node!RecoveryRequired(m.from, m.to)
    BY DEF TakeGap
  <1>1. /\ channel # <<>> /\ channel' = Tail(channel) /\ channel' \in Seq(Message)
        /\ m \in Message /\ m.kind = "gap" /\ refetch = {} /\ refetch' = {}
        /\ todo = <<>> /\ recovery = {} /\ UNCHANGED <<tip, wire, outbox, last>>
    BY <1>0, TakenMessage
  <1> HIDE DEF m
  <1>2. m.from \in Nat /\ m.to \in Nat /\ Reach(m) = {m.to}
    BY <1>1, MessageIs
  <1>3. /\ recovery' = {<<m.from, m.to>>} /\ todo' = todo
        /\ committed' \subseteq committed /\ probabilistic' \subseteq probabilistic
    BY <1>0 DEF Node!RecoveryRequired
  <1>4. FeedTypes'
    BY <1>1, <1>2, <1>3 DEF FInv, FeedTypes
  <1>5. Known' \subseteq Known /\ Awaited' = {<<m.from, m.to>>}
    BY <1>1, <1>3 DEF Known, Awaited, TodoBlocks
  <1>6. \A n \in Int : Below(Known, Awaited, n) /\ (\A s \in Reach(m) : s < n)
                          => Below(Known', Awaited', n)
    BY <1>2, <1>5 DEF Below
  <1> QED BY <1>1, <1>4, <1>6, NodeTakes DEF m

\* Applying a block moves what is known from one place to another.
LEMMA ApplyBlockStep ==
    ASSUME FInv, ApplyBlock
    PROVE  FInv'
  <1>0. /\ Node!ApplyBlock
        /\ UNCHANGED <<tip, wire, outbox, channel, last, refetch>>
    BY DEF ApplyBlock, Unhandled, chainVars, driverVars
  <1>1. todo \in Seq(Entry) /\ todo # <<>> /\ todo' = Tail(todo) /\ recovery' = recovery
    BY <1>0 DEF FInv, FeedTypes, Node!ApplyBlock, Node!IgnoreBlock, Node!BufferAndPromote
  <1> HIDE DEF Entry
  <1>2. /\ todo' \in Seq(Entry) /\ Head(todo) = todo[1] /\ 1 \in DOMAIN todo
        /\ \A i \in DOMAIN todo' : i + 1 \in DOMAIN todo /\ todo'[i] = todo[i + 1]
    BY <1>1
  <1>3. TodoBlocks' \subseteq TodoBlocks /\ Head(todo).block \in TodoBlocks
    <2>1. Head(todo).block \in TodoBlocks
      BY <1>2 DEF TodoBlocks
    <2>2. TodoBlocks' \subseteq TodoBlocks
      BY <1>2 DEF TodoBlocks
    <2> QED BY <2>1, <2>2
  <1>4. /\ committed' \subseteq committed \cup probabilistic \cup {Head(todo).block}
        /\ probabilistic' \subseteq probabilistic \cup {Head(todo).block}
    <2>1. CASE Node!IgnoreBlock
      BY <2>1 DEF Node!IgnoreBlock
    <2>2. CASE Node!BufferAndPromote
      <3> DEFINE b        == Head(todo).block
                 final    == Head(todo).final
                 buffered == Node!Put(Node!Survivors(b), {b})
                 flags    == {p \in buffered : \/ p # b /\ p \in finalized
                                               \/ p = b /\ final
                                               \/ Node!BelowCutoff(p, b)}
                 promoted == IF final \/ FinalityDepth # 0
                             THEN Node!Promotable(buffered, flags) ELSE {}
      <3>1. buffered \subseteq probabilistic \cup {b}
        BY DEF Node!Put, Node!Survivors
      <3>2. promoted \subseteq buffered
        BY DEF Node!Promotable
      <3>3. probabilistic' = buffered \ promoted /\ committed' = Node!Put(committed, promoted)
        BY <2>2 DEF Node!BufferAndPromote
      <3> HIDE DEF promoted, buffered
      <3>4. Node!Put(committed, promoted) \subseteq committed \cup promoted
        BY DEF Node!Put
      <3> QED BY <3>1, <3>2, <3>3, <3>4
    <2> QED BY <1>0, <2>1, <2>2 DEF Node!ApplyBlock
  <1>5. Known' \subseteq Known /\ Awaited' = Awaited
    BY <1>0, <1>1, <1>3, <1>4 DEF Known, Awaited
  <1>6. committed' \subseteq Block /\ probabilistic' \subseteq Block
    <2>1. Known \subseteq Block
      BY KnownNumbers
    <2> QED BY <1>5, <2>1 DEF Known
  <1>7. FeedTypes'
    BY <1>0, <1>1, <1>2, <1>6 DEF FInv, FeedTypes
  <1>8. \A n \in Int : Below(Known, Awaited, n) => Below(Known', Awaited', n)
    BY <1>5 DEF Below
  <1> QED BY <1>0, <1>7, <1>8, NodeStays

LEMMA HandledStep ==
    ASSUME FInv, Handled
    PROVE  FInv'
  <1>1. /\ refetch' = recovery /\ recovery' = {}
        /\ UNCHANGED <<committed, probabilistic, todo, tip, wire, outbox, channel, last>>
    BY DEF Handled, Unhandled, chainVars, driverVars, Node!Return
  <1>2. FeedTypes'
    BY <1>1 DEF FInv, FeedTypes
  <1>3. Known' = Known /\ Awaited' \subseteq Awaited
    BY <1>1 DEF Known, Awaited, TodoBlocks
  <1>4. \A n \in Int : Below(Known, Awaited, n) => Below(Known', Awaited', n)
    BY <1>3 DEF Below
  <1> QED BY <1>1, <1>2, <1>4, NodeStays

LEMMA GiveUpRecoveryStep ==
    ASSUME FInv, GiveUpRecovery
    PROVE  FInv'
  <1>1. /\ refetch' = {}
        /\ UNCHANGED <<committed, probabilistic, todo, recovery, tip, wire, outbox, channel, last>>
    BY DEF GiveUpRecovery, Unhandled, chainVars, driverVars, nodeVars
  <1>2. FeedTypes'
    BY <1>1 DEF FInv, FeedTypes
  <1>3. Known' = Known /\ Awaited' \subseteq Awaited
    BY <1>1 DEF Known, Awaited, TodoBlocks
  <1>4. \A n \in Int : Below(Known, Awaited, n) => Below(Known', Awaited', n)
    BY <1>3 DEF Below
  <1> QED BY <1>1, <1>2, <1>4, NodeStays

\* What a recovery tells the node lies in the gap that was awaited.
LEMMA RecoverStep ==
    ASSUME FInv, Recover
    PROVE  FInv'
  <1>1. PICK r \in refetch : \E anchor \in Anchors(r[1]) :
            Node!VirtualChainChanged(
                Changed(anchor, tip).removed,
                NotFinal(Among({b \in Block : DaaScore[b] \in r[1] .. r[2]},
                               Changed(anchor, tip).blocks)))
    BY DEF Recover
  <1>2. PICK anchor \in Anchors(r[1]) :
            Node!VirtualChainChanged(
                Changed(anchor, tip).removed,
                NotFinal(Among({b \in Block : DaaScore[b] \in r[1] .. r[2]},
                               Changed(anchor, tip).blocks)))
    BY <1>1
  <1> DEFINE gap    == {b \in Block : DaaScore[b] \in r[1] .. r[2]}
             blocks == Among(gap, Changed(anchor, tip).blocks)
  <1>3. anchor \in Block /\ tip \in Block
    BY DEF FInv, FeedTypes, Anchors
  <1>4. Changed(anchor, tip).blocks \in Seq(Block)
    BY <1>3, ChangedIs DEF ChainMsg
  <1>5. blocks \in Seq(Block \cap gap)
    <2> HIDE DEF gap
    <2> QED BY <1>4, AmongIs
  <1>6. /\ todo' = NotFinal(blocks) /\ recovery' = recovery
        /\ committed' \subseteq committed /\ probabilistic' \subseteq probabilistic
    BY <1>2 DEF Node!VirtualChainChanged
  <1> HIDE DEF blocks
  <1>7. refetch' = {} /\ UNCHANGED <<tip, wire, outbox, channel, last>>
    BY DEF Recover, Unhandled, chainVars, driverVars
  <1>8. blocks \in Seq(Block) /\ \A i \in DOMAIN blocks : blocks[i] \in gap
    <2> HIDE DEF gap
    <2> QED BY <1>5
  <1>9. todo' \in Seq(Entry) /\ TodoBlocks' \subseteq gap
    <2>1. /\ todo' \in Seq(Entry) /\ DOMAIN todo' = DOMAIN blocks
          /\ \A i \in DOMAIN blocks : todo'[i].block = blocks[i]
      BY <1>6, <1>8, ToldBlocks
    <2> HIDE DEF gap
    <2> QED BY <1>8, <2>1 DEF TodoBlocks
  <1>10. FeedTypes'
    BY <1>6, <1>7, <1>9 DEF FInv, FeedTypes
  <1>11. Known' \subseteq Known \cup gap /\ Awaited' \subseteq Awaited
    BY <1>6, <1>7, <1>9 DEF Known, Awaited
  <1>12. ASSUME NEW n \in Int, Below(Known, Awaited, n)
         PROVE  Below(Known', Awaited', n)
    <2>1. r \in Nat \X Nat /\ r \in Awaited
      BY DEF FInv, FeedTypes, Awaited
    <2>2. r[1] \in Nat /\ r[2] \in Nat /\ r[2] < n
      BY <1>12, <2>1 DEF Below
    <2>3. ASSUME NEW b \in gap PROVE DaaScore[b] < n
      <3>1. DaaScore[b] \in r[1] .. r[2]
        OBVIOUS
      <3> QED BY <2>2, <3>1
    <2> HIDE DEF gap
    <2> QED BY <1>11, <1>12, <2>3 DEF Below
  <1> QED BY <1>7, <1>10, <1>12, NodeStays

-------------------------------------------------------------------------------

LEMMA InitInvariant == Init => FInv
  <1> SUFFICES ASSUME Init PROVE FInv
    OBVIOUS
  <1>1. /\ committed = {} /\ probabilistic = {} /\ todo = <<>> /\ recovery = {} /\ refetch = {}
        /\ tip = Root /\ wire = <<>> /\ outbox = <<>> /\ channel = <<>> /\ last = -1
    BY DEF Init, Node!Init
  <1>2. FeedTypes
    <2>1. <<>> \in Seq(Entry) /\ <<>> \in Seq(Message) /\ <<>> \in Seq(BlockMsg \cup ChainMsg)
      OBVIOUS
    <2> QED BY <1>1, <2>1, FeedAssumption DEF FeedTypes
  <1>3. Known = {} /\ Awaited = {} /\ DOMAIN channel = {} /\ DOMAIN outbox = {}
    BY <1>1 DEF Known, Awaited, TodoBlocks
  <1>4. GapsInv
    BY <1>3 DEF GapsInv, Below, AllBelow, GapsAbove
  <1> QED BY <1>2, <1>4 DEF FInv

LEMMA StepInvariant == FInv /\ [Next]_vars => FInv'
  <1> SUFFICES ASSUME FInv, [Next]_vars PROVE FInv'
    OBVIOUS
  <1>1. CASE Advance
    BY <1>1, AdvanceStep
  <1>2. CASE Dial \/ Connect \/ StreamEnds \/ AttemptFails \/ Stop
    BY <1>2, LinkStep
  <1>3. CASE Read
    BY <1>3, ReadStep
  <1>4. CASE Send
    BY <1>4, SendStep
  <1>5. CASE NoticeClosed
    BY <1>5, NoticeClosedStep
  <1>6. CASE TakeBlock
    BY <1>6, TakeBlockStep
  <1>7. CASE TakeChainChange
    BY <1>7, TakeChainChangeStep
  <1>8. CASE TakeGap
    BY <1>8, TakeGapStep
  <1>9. CASE ApplyBlock
    BY <1>9, ApplyBlockStep
  <1>10. CASE Handled
    BY <1>10, HandledStep
  <1>11. CASE Recover
    BY <1>11, RecoverStep
  <1>12. CASE GiveUpRecovery
    BY <1>12, GiveUpRecoveryStep
  <1>13. CASE Leave
    BY <1>13, LeaveStep
  <1>14. CASE UNCHANGED vars
    BY <1>14, StutterStep
  <1> QED
    BY <1>1, <1>2, <1>3, <1>4, <1>5, <1>6, <1>7, <1>8, <1>9, <1>10, <1>11, <1>12, <1>13, <1>14
    DEF Next, DriverStep, LoopStep, ChannelClosed, Shutdown

\* Only a gap taken from the channel is requested, and it starts above what is known.
LEMMA RequestedIsUnknown ==
    ASSUME FInv, [Next]_vars, NEW r \in recovery' \ recovery,
           NEW b \in committed \cup probabilistic
    PROVE  DaaScore[b] \notin r[1] .. r[2]
  <1>1. CASE TakeGap
    <2> DEFINE m == Head(channel)
    <2>0. Take("gap") /\ Node!RecoveryRequired(m.from, m.to)
      BY <1>1 DEF TakeGap
    <2>1. channel # <<>> /\ m \in Message /\ m.kind = "gap" /\ channel \in Seq(Message)
      BY <2>0, TakenMessage DEF FInv, FeedTypes
    <2>2. m.from \in Nat /\ m.to \in Nat
      BY <2>1, MessageIs
    <2>3. m = channel[1] /\ 1 \in DOMAIN channel
      BY <2>1
    <2> HIDE DEF m
    <2>4. Below(Known, Awaited, m.from)
      BY <2>1, <2>3 DEF FInv, GapsInv
    <2>5. DaaScore[b] < m.from /\ DaaScore[b] \in Nat
      BY <2>4, KnownNumbers DEF Below, Known
    <2>6. r = <<m.from, m.to>>
      BY <2>0 DEF Node!RecoveryRequired
    <2>7. r[1] = m.from /\ r[2] = m.to
      BY <2>6
    <2> QED BY <2>2, <2>5, <2>7
  <1>2. CASE ~TakeGap
    <2>1. recovery' \subseteq recovery
      <3>1. CASE \/ Advance \/ Dial \/ Connect \/ StreamEnds \/ AttemptFails \/ Read \/ Send
                 \/ NoticeClosed \/ Stop
        BY <3>1 DEF Advance, Dial, Connect, StreamEnds, AttemptFails, Disconnect, Read, Send,
                    NoticeClosed, HangUp, Stop, nodeVars
      <3>2. CASE TakeBlock
        BY <3>2 DEF TakeBlock, Node!BlockAdded
      <3>3. CASE TakeChainChange
        BY <3>3 DEF TakeChainChange, Node!VirtualChainChanged
      <3>4. CASE ApplyBlock
        BY <3>4 DEF ApplyBlock, Node!ApplyBlock, Node!IgnoreBlock, Node!BufferAndPromote
      <3>5. CASE Handled
        BY <3>5 DEF Handled, Node!Return
      <3>6. CASE Recover
        BY <3>6 DEF Recover, Node!VirtualChainChanged
      <3>7. CASE GiveUpRecovery \/ Leave \/ UNCHANGED vars
        BY <3>7 DEF GiveUpRecovery, Leave, vars, nodeVars
      <3> QED BY <1>2, <3>1, <3>2, <3>3, <3>4, <3>5, <3>6, <3>7
          DEF Next, DriverStep, LoopStep, ChannelClosed, Shutdown
    <2> QED BY <2>1
  <1> QED BY <1>1, <1>2

\* When a gap the driver reported reaches the node, the node knows no block with a
\* score inside it, however many notifications were queued in front of the gap and
\* whatever reconnects, reorganizations and recoveries came in between: rolling the
\* range back before recovering it (`recovery_required`) loses nothing.
THEOREM GapsAreUnknown == Spec => GapHoldsNothingKnown
  <1>1. FInv /\ [Next]_vars =>
            [\A r \in recovery' \ recovery :
                \A b \in committed \cup probabilistic : DaaScore[b] \notin r[1] .. r[2]]_vars
    BY RequestedIsUnknown
  <1> QED BY <1>1, InitInvariant, StepInvariant, PTL DEF Spec, GapHoldsNothingKnown

-------------------------------------------------------------------------------
(* Chains.                                                                   *)

LEMMA PathIs ==
    ASSUME NEW b \in Block
    PROVE  /\ Path[b] \in Seq(Block) /\ Len(Path[b]) \in DOMAIN Path[b] /\ Path[b][Len(Path[b])] = b
           /\ DOMAIN Path[b] = 1..Len(Path[b]) /\ Len(Path[b]) \in Nat
           /\ \A i \in DOMAIN Path[b] : Path[Path[b][i]] = SubSeq(Path[b], 1, i)
           /\ \A i, j \in DOMAIN Path[b] : i < j => DaaScore[Path[b][i]] < DaaScore[Path[b][j]]
           /\ OnChain(b) = {Path[b][i] : i \in DOMAIN Path[b]}
  <1>1. Path[b] \in Seq(Block) /\ Path[b] # <<>> /\ Path[b][Len(Path[b])] = b
    BY FeedAssumption
  <1>2. /\ \A i \in DOMAIN Path[b] : Path[Path[b][i]] = SubSeq(Path[b], 1, i)
        /\ \A i, j \in DOMAIN Path[b] : i < j => DaaScore[Path[b][i]] < DaaScore[Path[b][j]]
    BY FeedAssumption, Zenon
  <1>3. Len(Path[b]) \in DOMAIN Path[b] /\ DOMAIN Path[b] = 1..Len(Path[b]) /\ Len(Path[b]) \in Nat
    BY <1>1
  <1>4. OnChain(b) = {Path[b][i] : i \in DOMAIN Path[b]}
    BY Zenon DEF OnChain, Range
  <1> QED BY <1>1, <1>2, <1>3, <1>4

LEMMA ScoreIs ==
    ASSUME NEW b \in Block
    PROVE  DaaScore[b] \in Nat
  BY FeedAssumption

LEMMA OnChainBlocks ==
    ASSUME NEW d \in Block
    PROVE  OnChain(d) \subseteq Block /\ d \in OnChain(d)
  BY PathIs

\* Where a block stands on a chain, the chain before it is its own.
LEMMA OnChainBelow ==
    ASSUME NEW d \in Block, NEW j \in DOMAIN Path[d]
    PROVE  OnChain(Path[d][j]) = {Path[d][i] : i \in 1..j}
  <1> PICK p : p = Path[d]
    OBVIOUS
  <1> PICK c : c = Path[d][j]
    OBVIOUS
  <1>1. p \in Seq(Block) /\ c \in Block /\ Path[c] = SubSeq(p, 1, j) /\ j \in 1..Len(p)
    BY PathIs
  <1>2. OnChain(c) = {Path[c][i] : i \in DOMAIN Path[c]}
    BY <1>1, PathIs
  <1>3. DOMAIN SubSeq(p, 1, j) = 1..j /\ \A i \in 1..j : SubSeq(p, 1, j)[i] = p[i]
    BY <1>1
  <1>4. DOMAIN Path[c] = 1..j /\ \A i \in 1..j : Path[c][i] = p[i]
    <2> PICK s : s = SubSeq(p, 1, j)
      OBVIOUS
    <2> QED BY <1>1, <1>3
  <1>5. OnChain(c) = {p[i] : i \in 1..j}
    BY <1>2, <1>4
  <1> QED BY <1>5

LEMMA OnChainTransitive ==
    ASSUME NEW d \in Block, NEW c \in OnChain(d), NEW b \in OnChain(c)
    PROVE  b \in OnChain(d)
  <1>1. PICK j \in DOMAIN Path[d] : c = Path[d][j]
    BY PathIs
  <1>2. PICK i \in 1..j : b = Path[d][i]
    BY <1>1, OnChainBelow
  <1>3. i \in DOMAIN Path[d]
    BY PathIs
  <1> QED BY <1>2, <1>3, PathIs

LEMMA OnChainRises ==
    ASSUME NEW d \in Block, NEW b \in OnChain(d)
    PROVE  b = d \/ DaaScore[b] < DaaScore[d]
  <1>1. PICK i \in DOMAIN Path[d] : b = Path[d][i]
    BY PathIs
  <1>2. /\ DOMAIN Path[d] = 1..Len(Path[d]) /\ Len(Path[d]) \in Nat /\ Path[d][Len(Path[d])] = d
        /\ \A k, l \in DOMAIN Path[d] : k < l => DaaScore[Path[d][k]] < DaaScore[Path[d][l]]
    BY PathIs
  <1>3. CASE i = Len(Path[d])
    BY <1>1, <1>2, <1>3
  <1>4. CASE i < Len(Path[d])
    <2>1. Len(Path[d]) \in DOMAIN Path[d]
      BY <1>2
    <2> QED BY <1>1, <1>2, <1>4, <2>1
  <1> QED BY <1>1, <1>2, <1>3, <1>4

\* On one chain the scores tell the order.
LEMMA OnChainOrder ==
    ASSUME NEW d \in Block, NEW b \in OnChain(d), NEW c \in OnChain(d), DaaScore[b] <= DaaScore[c]
    PROVE  b \in OnChain(c)
  <1>1. PICK i \in DOMAIN Path[d] : b = Path[d][i]
    BY PathIs
  <1>2. PICK j \in DOMAIN Path[d] : c = Path[d][j]
    BY PathIs
  <1>3. /\ DOMAIN Path[d] = 1..Len(Path[d]) /\ Len(Path[d]) \in Nat
        /\ \A k, l \in DOMAIN Path[d] : k < l => DaaScore[Path[d][k]] < DaaScore[Path[d][l]]
    BY PathIs
  <1>4. DaaScore[b] \in Nat /\ DaaScore[c] \in Nat
    BY OnChainBlocks, ScoreIs
  <1>5. i <= j
    <2>1. j < i => DaaScore[c] < DaaScore[b]
      BY <1>1, <1>2, <1>3
    <2> QED BY <1>3, <1>4, <2>1
  <1>6. i \in 1..j
    BY <1>3, <1>5
  <1> QED BY <1>1, <1>2, <1>6, OnChainBelow

LEMMA OnChainSame ==
    ASSUME NEW d \in Block, NEW b \in OnChain(d), NEW c \in OnChain(d), DaaScore[b] = DaaScore[c]
    PROVE  b = c
  <1>1. DaaScore[b] \in Nat /\ DaaScore[c] \in Nat /\ c \in Block
    BY OnChainBlocks, ScoreIs
  <1>2. b \in OnChain(c)
    BY <1>1, OnChainOrder
  <1> QED BY <1>1, <1>2, OnChainRises

\* What two chains share lies below what one of them has alone.
LEMMA SharedBelow ==
    ASSUME NEW new \in Block, NEW old \in Block,
           NEW b \in OnChain(new) \cap OnChain(old), NEW x \in OnChain(new) \ OnChain(old)
    PROVE  b \in OnChain(x) /\ DaaScore[b] < DaaScore[x]
  <1>1. b \in Block /\ x \in Block /\ DaaScore[b] \in Nat /\ DaaScore[x] \in Nat
    BY OnChainBlocks, ScoreIs
  <1>2. ~(DaaScore[x] <= DaaScore[b])
    <2> SUFFICES ASSUME DaaScore[x] <= DaaScore[b] PROVE FALSE
      OBVIOUS
    <2>1. x \in OnChain(b)
      BY OnChainOrder
    <2> QED BY <2>1, OnChainTransitive
  <1>3. DaaScore[b] <= DaaScore[x] /\ DaaScore[b] < DaaScore[x]
    BY <1>1, <1>2
  <1> QED BY <1>3, OnChainOrder

-------------------------------------------------------------------------------
(* The order of what is kept of a list.                                      *)

\* The elements of a list come from another one, in its order.
Picked(list, from, n) ==
    /\ \A p \in DOMAIN list : \E k \in 1..n : list[p] = from[k]
    /\ \A p, q \in DOMAIN list : p < q =>
        \E k, l \in 1..n : k < l /\ list[p] = from[k] /\ list[q] = from[l]

LEMMA AmongOrder ==
    ASSUME NEW set, NEW blocks \in Seq(Block)
    PROVE  /\ Among(set, blocks) \in Seq(Block \cap set)
           /\ Picked(Among(set, blocks), blocks, Len(blocks))
           /\ \A k \in DOMAIN blocks : blocks[k] \in set =>
                \E p \in DOMAIN Among(set, blocks) : Among(set, blocks)[p] = blocks[k]
  <1> DEFINE kept == CHOOSE g : Keeps(set, blocks, g, Len(blocks))
  <1>1. Keeps(set, blocks, kept, Len(blocks))
    BY KeptExists
  <1>2. Among(set, blocks) = kept[Len(blocks)]
    BY DEF Among, Keeps
  <1>0. Among(set, blocks) \in Seq(Block \cap set)
    BY AmongIs
  <1> HIDE DEF kept
  <1>3. \A n \in 0..Len(blocks) :
            kept[n] = IF n = 0 THEN <<>>
                      ELSE IF blocks[n] \in set THEN Append(kept[n - 1], blocks[n])
                           ELSE kept[n - 1]
    BY <1>1 DEF Keeps
  <1> DEFINE Good(n) == /\ kept[n] \in Seq(Block)
                        /\ Picked(kept[n], blocks, n)
                        /\ \A k \in 1..n : blocks[k] \in set =>
                            \E p \in DOMAIN kept[n] : kept[n][p] = blocks[k]
             bad == {n \in 0..Len(blocks) : ~Good(n)}
  <1>4. Good(0)
    <2>0. 0 \in 0..Len(blocks)
      OBVIOUS
    <2>1. kept[0] = <<>>
      BY <1>3, <2>0
    <2>2. kept[0] \in Seq(Block) /\ DOMAIN kept[0] = {}
      BY <2>1
    <2>3. \A k \in 1..0 : FALSE
      OBVIOUS
    <2> QED BY <2>2, <2>3 DEF Picked
  <1>5. ASSUME NEW n \in 1..Len(blocks), Good(n - 1)
        PROVE  Good(n)
    <2> PICK m \in Nat : m = n - 1
      OBVIOUS
    <2> PICK old : old = kept[n - 1]
      OBVIOUS
    <2>1. /\ old \in Seq(Block) /\ Picked(old, blocks, m)
          /\ \A k \in 1..m : blocks[k] \in set => \E p \in DOMAIN old : old[p] = blocks[k]
      BY <1>5
    <2>2. kept[n] = IF blocks[n] \in set THEN Append(old, blocks[n]) ELSE old
      BY <1>3
    <2>3. blocks[n] \in Block /\ n = m + 1 /\ n \in 1..n /\ \A k \in 1..m : k \in 1..n
      OBVIOUS
    <2>4. CASE blocks[n] \notin set
      <3>1. kept[n] = old
        BY <2>2, <2>4
      <3>2. Picked(old, blocks, n)
        BY <2>1, <2>3 DEF Picked
      <3>3. \A k \in 1..n : blocks[k] \in set => k \in 1..m
        BY <2>3, <2>4
      <3> QED BY <2>1, <3>1, <3>2, <3>3
    <2>5. CASE blocks[n] \in set
      <3>1. kept[n] = Append(old, blocks[n])
        BY <2>2, <2>5
      <3> PICK new : new = kept[n]
        OBVIOUS
      <3>2. /\ new \in Seq(Block) /\ Len(old) \in Nat /\ DOMAIN old = 1..Len(old)
            /\ DOMAIN new = 1..(Len(old) + 1)
            /\ \A p \in DOMAIN old : new[p] = old[p] /\ p \in DOMAIN new
            /\ new[Len(old) + 1] = blocks[n]
        BY <2>1, <2>3, <3>1
      <3>3. \A p \in DOMAIN new : p \in DOMAIN old \/ p = Len(old) + 1
        BY <3>2
      <3>4. \A p \in DOMAIN new : \E k \in 1..n : new[p] = blocks[k]
        BY <2>1, <2>3, <3>2, <3>3, SMTT(30) DEF Picked
      <3>5. ASSUME NEW p \in DOMAIN new, NEW q \in DOMAIN new, p < q
            PROVE  \E k, l \in 1..n : k < l /\ new[p] = blocks[k] /\ new[q] = blocks[l]
        <4>1. p \in DOMAIN old
          BY <3>2, <3>5
        <4>2. CASE q \in DOMAIN old
          <5>1. PICK k \in 1..m, l \in 1..m : k < l /\ old[p] = blocks[k] /\ old[q] = blocks[l]
            BY <2>1, <3>5, <4>1, <4>2 DEF Picked
          <5>2. k \in 1..n /\ l \in 1..n
            BY <2>3
          <5> QED BY <3>2, <4>1, <4>2, <5>1, <5>2
        <4>3. CASE q = Len(old) + 1
          <5>1. PICK k \in 1..m : old[p] = blocks[k]
            BY <2>1, <4>1 DEF Picked
          <5>2. k \in 1..n /\ k < n
            BY <2>3
          <5> QED BY <2>3, <3>2, <4>1, <4>3, <5>1, <5>2
        <4> QED BY <3>3, <4>2, <4>3
      <3>6. Picked(new, blocks, n)
        BY <3>4, <3>5 DEF Picked
      <3>7. ASSUME NEW k \in 1..n, blocks[k] \in set
            PROVE  \E p \in DOMAIN new : new[p] = blocks[k]
        <4>1. CASE k = n
          <5>1. Len(old) + 1 \in DOMAIN new
            BY <3>2
          <5> QED BY <3>2, <4>1, <5>1
        <4>2. CASE k \in 1..m
          BY <2>1, <3>2, <3>7, <4>2
        <4> QED BY <2>3, <4>1, <4>2
      <3> QED BY <3>2, <3>6, <3>7
    <2> QED BY <2>4, <2>5
  <1>6. bad = {}
    <2> SUFFICES ASSUME bad # {} PROVE FALSE
      OBVIOUS
    <2>0. bad \subseteq Nat
      OBVIOUS
    <2>1. PICK n \in bad : \A k \in bad : n <= k
      BY <2>0, LeastScore
    <2>2. n # 0 /\ n \in 0..Len(blocks) /\ ~Good(n)
      BY <1>4
    <2> HIDE DEF Good
    <2>3. n \in 1..Len(blocks) /\ n - 1 \in 0..Len(blocks) /\ n - 1 \notin bad
      BY <2>1, <2>2
    <2>4. Good(n - 1)
      BY <2>3
    <2> QED BY <1>5, <2>2, <2>3, <2>4
  <1>7. Good(Len(blocks))
    <2>1. Len(blocks) \in 0..Len(blocks)
      OBVIOUS
    <2> HIDE DEF Good
    <2> QED BY <1>6, <2>1
  <1>8. DOMAIN blocks = 1..Len(blocks)
    OBVIOUS
  <1> QED BY <1>0, <1>2, <1>7, <1>8

-------------------------------------------------------------------------------
(* What upstream announces.                                                  *)

\* What the wire carries: each change is one to a heavier tip.
Rises(o, n) == DaaScore[o] < DaaScore[n]
ChangeMsg == {m \in ChainMsg : \E o, n \in Block : Rises(o, n) /\ m = Changed(o, n)}

LEMMA NewBlocksAre ==
    ASSUME NEW o \in Block, NEW n \in Block
    PROVE  /\ NewBlocks(o, n) \in Seq(Block)
           /\ Range(NewBlocks(o, n)) = OnChain(n) \ OnChain(o)
           /\ \A p, q \in DOMAIN NewBlocks(o, n) : p < q =>
                /\ NewBlocks(o, n)[p] \in OnChain(NewBlocks(o, n)[q])
                /\ DaaScore[NewBlocks(o, n)[p]] < DaaScore[NewBlocks(o, n)[q]]
           /\ Rises(o, n) => n \in Range(NewBlocks(o, n))
  <1> DEFINE set == Block \ OnChain(o)
             list == NewBlocks(o, n)
             path == Path[n]
  <1>1. path \in Seq(Block) /\ DOMAIN path = 1..Len(path) /\ OnChain(n) = {path[k] : k \in DOMAIN path}
    BY PathIs
  <1>2. /\ list \in Seq(Block \cap set) /\ Picked(list, path, Len(path))
        /\ \A k \in DOMAIN path : path[k] \in set => \E p \in DOMAIN list : list[p] = path[k]
    <2>1. list = Among(set, path)
      BY DEF NewBlocks
    <2> HIDE DEF set, list, path
    <2> QED BY <1>1, <2>1, AmongOrder, ZenonT(60)
  <1>3. Range(list) = {list[p] : p \in DOMAIN list}
    BY DEF Range
  <1> HIDE DEF list
  <1>4. list \in Seq(Block) /\ \A p \in DOMAIN list : list[p] \in set
    <2>1. Block \cap set \subseteq Block /\ Block \cap set \subseteq set
      OBVIOUS
    <2> HIDE DEF set
    <2> QED BY <1>2, <2>1
  <1>5. Range(list) = OnChain(n) \ OnChain(o)
    <2>1. ASSUME NEW p \in DOMAIN list PROVE list[p] \in OnChain(n) \ OnChain(o)
      <3>1. PICK k \in 1..Len(path) : list[p] = path[k]
        BY <1>2 DEF Picked
      <3> QED BY <1>1, <1>4, <3>1
    <2>2. ASSUME NEW b \in OnChain(n) \ OnChain(o) PROVE b \in Range(list)
      <3>1. PICK k \in DOMAIN path : b = path[k]
        BY <1>1
      <3>2. path[k] \in set
        BY <1>1, <3>1
      <3> QED BY <1>2, <1>3, <3>1, <3>2
    <2> QED BY <1>3, <2>1, <2>2
  <1>6. ASSUME NEW p \in DOMAIN list, NEW q \in DOMAIN list, p < q
        PROVE  list[p] \in OnChain(list[q]) /\ DaaScore[list[p]] < DaaScore[list[q]]
    <2>1. PICK k \in 1..Len(path), l \in 1..Len(path) : k < l /\ list[p] = path[k] /\ list[q] = path[l]
      BY <1>2, <1>6 DEF Picked
    <2>2. k \in 1..l /\ OnChain(path[l]) = {path[i] : i \in 1..l}
      <3>1. k \in 1..l /\ l \in DOMAIN Path[n]
        BY <1>1, <2>1
      <3> QED BY <3>1, OnChainBelow
    <2>3. DaaScore[path[k]] < DaaScore[path[l]]
      BY <1>1, <2>1, PathIs
    <2> QED BY <2>1, <2>2, <2>3
  <1>7. Rises(o, n) => n \in Range(list)
    <2> SUFFICES ASSUME Rises(o, n), n \in OnChain(o) PROVE FALSE
      BY <1>5, OnChainBlocks
    <2>1. n = o \/ DaaScore[n] < DaaScore[o]
      BY OnChainRises
    <2>2. DaaScore[n] \in Nat /\ DaaScore[o] \in Nat
      BY ScoreIs
    <2> QED BY <2>1, <2>2 DEF Rises
  <1> QED BY <1>4, <1>5, <1>6, <1>7 DEF list

LEMMA ChangeIs ==
    ASSUME NEW o \in Block, NEW n \in Block
    PROVE  /\ Changed(o, n).kind = "chain"
           /\ Changed(o, n).removed = OnChain(o) \ OnChain(n)
           /\ Changed(o, n).blocks = NewBlocks(o, n)
           /\ Changed(o, n).blocks \in Seq(Block)
           /\ Range(Changed(o, n).blocks) = OnChain(n) \ OnChain(o)
  BY NewBlocksAre DEF Changed

LEMMA AnnouncedIs ==
    ASSUME NEW o \in Block, NEW n \in Block, Rises(o, n)
    PROVE  LET k == Len(NewBlocks(o, n))
           IN  /\ k \in Nat
               /\ DOMAIN NewBlocks(o, n) = 1..k
               /\ Announcements(o, n) \in Seq(BlockMsg \cup ChangeMsg)
               /\ DOMAIN Announcements(o, n) = 1..(k + 1)
               /\ \A i \in 1..k : Announcements(o, n)[i] = Added(NewBlocks(o, n)[i])
               /\ Announcements(o, n)[k + 1] = Changed(o, n)
  <1> PICK list : list = NewBlocks(o, n)
    OBVIOUS
  <1>1. list \in Seq(Block)
    BY NewBlocksAre
  <1> DEFINE added == [i \in DOMAIN list |-> Added(list[i])]
  <1> PICK last0 : last0 = Changed(o, n)
    OBVIOUS
  <1>2. last0 \in ChangeMsg
    BY ChangedIs DEF ChangeMsg
  <1>3. \A i \in DOMAIN list : Added(list[i]) \in BlockMsg
    BY <1>1 DEF BlockMsg
  <1>4. added \in Seq(BlockMsg) /\ DOMAIN added = 1..Len(list) /\ Len(added) = Len(list) /\ Len(list) \in Nat
    BY <1>1, <1>3
  <1>5. Announcements(o, n) = added \o <<last0>>
    BY DEF Announcements
  <1>6. \A i \in 1..Len(list) : added[i] = Added(list[i])
    BY <1>4
  <1> HIDE DEF added
  <1>7. /\ added \o <<last0>> \in Seq(BlockMsg \cup ChangeMsg)
        /\ DOMAIN (added \o <<last0>>) = 1..(Len(list) + 1)
        /\ \A i \in 1..Len(list) : (added \o <<last0>>)[i] = added[i]
        /\ (added \o <<last0>>)[Len(list) + 1] = last0
    BY <1>2, <1>4
  <1>8. DOMAIN list = 1..Len(list)
    BY <1>1
  <1> QED BY <1>4, <1>5, <1>6, <1>7, <1>8

-------------------------------------------------------------------------------
(* Queues of messages, seen from one block.                                  *)

UpMsg == BlockMsg \cup ChangeMsg
Note == UpMsg \cup GapMsg

\* A message brings a block, or brings it through the recovery of a gap.
Mentions(b, m) == m.kind # "gap" /\ b \in Range(m.blocks)
Covers(b, m) == m.kind = "gap" /\ DaaScore[b] \in m.from .. m.to
Brings(b, m) == Mentions(b, m) \/ Covers(b, m)

\* A message leaves a block where it is: all it brings stands above the block.
Through(b, m) ==
    m.kind # "gap" => b \notin m.removed /\ \A x \in Range(m.blocks) : b \in OnChain(x)

Removes(b, m) == m.kind # "gap" /\ b \in m.removed

AllThrough(b, queue) == \A j \in DOMAIN queue : Through(b, queue[j])

\* The last message that is about a block brings it.
Announced(b, queue) ==
    \E i \in DOMAIN queue :
        Brings(b, queue[i]) /\ \A j \in DOMAIN queue : j > i => Through(b, queue[j])

Retracted(b, queue) == \E i \in DOMAIN queue : Removes(b, queue[i])

\* Whatever brings a block, a later message removes it.
Passing(b, queue) ==
    \A i \in DOMAIN queue : Mentions(b, queue[i]) =>
        \E j \in DOMAIN queue : j > i /\ Removes(b, queue[j])

LEMMA UpMsgIs ==
    ASSUME NEW m \in UpMsg
    PROVE  /\ m \in BlockMsg \cup ChainMsg /\ m \in Message /\ m \in Note
           /\ m.kind \in {"block", "chain"}
           /\ m.kind = "block" => \E x \in Block : m = Added(x)
           /\ m.kind = "chain" => \E o, n \in Block : Rises(o, n) /\ m = Changed(o, n)
           /\ m.blocks \in Seq(Block) /\ Range(m.blocks) \subseteq Block /\ Range(m.blocks) # {}
  <1>1. CASE m \in BlockMsg
    <2>1. PICK x \in Block : m = Added(x)
      BY <1>1 DEF BlockMsg
    <2>2. m.kind = "block" /\ m.blocks = <<x>>
      BY <2>1, AddedIs
    <2>3. <<x>> \in Seq(Block) /\ Range(<<x>>) = {x}
      BY DEF Range
    <2> QED BY <1>1, <2>1, <2>2, <2>3 DEF Message, Note
  <1>2. CASE m \in ChangeMsg
    <2>1. m \in ChainMsg
      BY <1>2 DEF ChangeMsg
    <2>2. PICK o \in Block, n \in Block : Rises(o, n) /\ m = Changed(o, n)
      BY <1>2 DEF ChangeMsg
    <2>3. /\ m.kind = "chain" /\ m.blocks \in Seq(Block)
          /\ Range(m.blocks) = OnChain(n) \ OnChain(o) /\ n \in Range(m.blocks)
      BY <2>2, ChangeIs, NewBlocksAre
    <2>4. OnChain(n) \subseteq Block
      BY OnChainBlocks
    <2> QED BY <1>2, <2>1, <2>2, <2>3, <2>4 DEF Message, Note
  <1> QED BY <1>1, <1>2 DEF UpMsg

LEMMA NoteIs ==
    ASSUME NEW m \in Note
    PROVE  m \in Message /\ (m.kind = "gap" => m \in GapMsg) /\ (m.kind # "gap" => m \in UpMsg)
  <1>1. CASE m \in UpMsg
    BY <1>1, UpMsgIs
  <1>2. CASE m \in GapMsg
    BY <1>2 DEF Message, GapMsg
  <1> QED BY <1>1, <1>2 DEF Note

LEMMA EmptyQueue ==
    ASSUME NEW b
    PROVE  /\ AllThrough(b, <<>>) /\ ~Announced(b, <<>>)
           /\ ~Retracted(b, <<>>) /\ Passing(b, <<>>)
  <1>1. DOMAIN <<>> = {}
    OBVIOUS
  <1> QED BY <1>1 DEF AllThrough, Announced, Retracted, Passing

LEMMA OneMessage ==
    ASSUME NEW b, NEW m
    PROVE  /\ AllThrough(b, <<m>>) <=> Through(b, m)
           /\ Announced(b, <<m>>) <=> Brings(b, m)
           /\ Retracted(b, <<m>>) <=> Removes(b, m)
           /\ Passing(b, <<m>>) <=> ~Mentions(b, m)
  <1>1. DOMAIN <<m>> = {1} /\ <<m>>[1] = m /\ ~(1 > 1)
    OBVIOUS
  <1> QED BY <1>1 DEF AllThrough, Announced, Retracted, Passing

\* How two queues behind one another act.
LEMMA QueueConcat ==
    ASSUME NEW S, NEW p \in Seq(S), NEW q \in Seq(S), NEW r, r = p \o q, NEW b
    PROVE  /\ AllThrough(b, r) <=> AllThrough(b, p) /\ AllThrough(b, q)
           /\ Announced(b, r) <=> Announced(b, q) \/ (Announced(b, p) /\ AllThrough(b, q))
           /\ Retracted(b, r) <=> Retracted(b, p) \/ Retracted(b, q)
           /\ Passing(b, r) <=> Passing(b, q) /\ (Retracted(b, q) \/ Passing(b, p))
  <1> PICK n \in Nat : n = Len(p)
    OBVIOUS
  <1>1. /\ \A i \in DOMAIN p : i \in DOMAIN r /\ r[i] = p[i]
        /\ \A j \in DOMAIN q : n + j \in DOMAIN r /\ r[n + j] = q[j]
        /\ \A i \in DOMAIN r : i \in DOMAIN p \/ \E j \in DOMAIN q : i = n + j
        /\ \A i \in DOMAIN p, j \in DOMAIN q : i < n + j
        /\ DOMAIN p \subseteq Nat /\ DOMAIN q \subseteq Nat /\ DOMAIN r \subseteq Nat
    <2>1. /\ DOMAIN p = 1..n /\ DOMAIN q = 1..Len(q) /\ Len(q) \in Nat
          /\ DOMAIN r = 1..(n + Len(q))
          /\ \A i \in 1..(n + Len(q)) : r[i] = IF i <= n THEN p[i] ELSE q[i - n]
      OBVIOUS
    <2>2. ASSUME NEW i \in DOMAIN r, i \notin DOMAIN p
          PROVE  \E j \in DOMAIN q : i = n + j
      <3>1. i - n \in DOMAIN q /\ i = n + (i - n)
        BY <2>1, <2>2
      <3> QED BY <3>1
    <2>3. \A i \in DOMAIN p : i \in DOMAIN r /\ r[i] = p[i]
      BY <2>1
    <2>4. \A j \in DOMAIN q : n + j \in DOMAIN r /\ r[n + j] = q[j]
      BY <2>1
    <2>5. \A i \in DOMAIN p, j \in DOMAIN q : i < n + j
      BY <2>1
    <2> QED BY <2>1, <2>2, <2>3, <2>4, <2>5
  <1>2. AllThrough(b, r) <=> AllThrough(b, p) /\ AllThrough(b, q)
    BY <1>1 DEF AllThrough
  <1>3. Retracted(b, r) <=> Retracted(b, p) \/ Retracted(b, q)
    BY <1>1 DEF Retracted
  <1>4. Announced(b, r) => Announced(b, q) \/ (Announced(b, p) /\ AllThrough(b, q))
    <2> SUFFICES ASSUME Announced(b, r)
                 PROVE  Announced(b, q) \/ (Announced(b, p) /\ AllThrough(b, q))
      OBVIOUS
    <2>1. PICK i \in DOMAIN r : Brings(b, r[i]) /\ \A j \in DOMAIN r : j > i => Through(b, r[j])
      BY DEF Announced
    <2>2. CASE i \in DOMAIN p
      <3>1. Announced(b, p)
        <4>1. \A j \in DOMAIN p : j > i => Through(b, p[j])
          BY <1>1, <2>1
        <4>2. Brings(b, p[i])
          BY <1>1, <2>1, <2>2
        <4> QED BY <2>2, <4>1, <4>2 DEF Announced
      <3>2. ASSUME NEW j \in DOMAIN q PROVE Through(b, q[j])
        <4>1. n + j \in DOMAIN r /\ r[n + j] = q[j] /\ i < n + j
          BY <1>1, <2>2
        <4>2. n + j > i
          BY <1>1, <4>1
        <4> QED BY <2>1, <4>1, <4>2
      <3> QED BY <3>1, <3>2 DEF AllThrough
    <2>3. CASE \E j \in DOMAIN q : i = n + j
      <3>1. PICK k \in DOMAIN q : i = n + k
        BY <2>3
      <3>2. Brings(b, q[k])
        BY <1>1, <2>1, <3>1
      <3>3. ASSUME NEW j \in DOMAIN q, j > k PROVE Through(b, q[j])
        <4>1. n + j \in DOMAIN r /\ r[n + j] = q[j] /\ n + j > i
          BY <1>1, <3>1, <3>3, SMTT(30)
        <4> QED BY <2>1, <4>1
      <3> QED BY <3>2, <3>3 DEF Announced
    <2> QED BY <1>1, <2>2, <2>3
  <1>5. Announced(b, q) => Announced(b, r)
    <2> SUFFICES ASSUME Announced(b, q) PROVE Announced(b, r)
      OBVIOUS
    <2>1. PICK k \in DOMAIN q : Brings(b, q[k]) /\ \A j \in DOMAIN q : j > k => Through(b, q[j])
      BY DEF Announced
    <2>2. n + k \in DOMAIN r /\ Brings(b, r[n + k])
      BY <1>1, <2>1
    <2>3. ASSUME NEW i \in DOMAIN r, i > n + k PROVE Through(b, r[i])
      <3>1. i \notin DOMAIN p
        BY <1>1, <2>3
      <3>2. PICK j \in DOMAIN q : i = n + j
        BY <1>1, <3>1
      <3>3. j > k
        BY <1>1, <2>3, <3>2
      <3> QED BY <1>1, <2>1, <3>2, <3>3
    <2> QED BY <2>2, <2>3 DEF Announced
  <1>6. Announced(b, p) /\ AllThrough(b, q) => Announced(b, r)
    <2> SUFFICES ASSUME Announced(b, p), AllThrough(b, q) PROVE Announced(b, r)
      OBVIOUS
    <2>1. PICK k \in DOMAIN p : Brings(b, p[k]) /\ \A j \in DOMAIN p : j > k => Through(b, p[j])
      BY DEF Announced
    <2>2. k \in DOMAIN r /\ Brings(b, r[k])
      BY <1>1, <2>1
    <2>3. ASSUME NEW i \in DOMAIN r, i > k PROVE Through(b, r[i])
      <3>1. CASE i \in DOMAIN p
        BY <1>1, <2>1, <2>3, <3>1
      <3>2. CASE \E j \in DOMAIN q : i = n + j
        BY <1>1, <3>2 DEF AllThrough
      <3> QED BY <1>1, <3>1, <3>2
    <2> QED BY <2>2, <2>3 DEF Announced
  <1>7. Passing(b, r) => Passing(b, q) /\ (Retracted(b, q) \/ Passing(b, p))
    <2> SUFFICES ASSUME Passing(b, r) PROVE Passing(b, q) /\ (Retracted(b, q) \/ Passing(b, p))
      OBVIOUS
    <2>1. ASSUME NEW k \in DOMAIN q, Mentions(b, q[k])
          PROVE  \E j \in DOMAIN q : j > k /\ Removes(b, q[j])
      <3>1. n + k \in DOMAIN r /\ Mentions(b, r[n + k])
        BY <1>1, <2>1
      <3>2. PICK i \in DOMAIN r : i > n + k /\ Removes(b, r[i])
        BY <3>1 DEF Passing
      <3>3. i \notin DOMAIN p
        BY <1>1, <3>2
      <3>4. PICK j \in DOMAIN q : i = n + j
        BY <1>1, <3>3
      <3>5. j > k /\ Removes(b, q[j])
        BY <1>1, <3>2, <3>4, SMTT(30)
      <3> QED BY <3>5
    <2>2. ASSUME ~Retracted(b, q), NEW k \in DOMAIN p, Mentions(b, p[k])
          PROVE  \E j \in DOMAIN p : j > k /\ Removes(b, p[j])
      <3>1. k \in DOMAIN r /\ Mentions(b, r[k])
        BY <1>1, <2>2
      <3>2. PICK i \in DOMAIN r : i > k /\ Removes(b, r[i])
        BY <3>1 DEF Passing
      <3>3. i \in DOMAIN p
        BY <1>1, <2>2, <3>2 DEF Retracted
      <3> QED BY <1>1, <3>2, <3>3
    <2> QED BY <2>1, <2>2 DEF Passing
  <1>8. Passing(b, q) /\ (Retracted(b, q) \/ Passing(b, p)) => Passing(b, r)
    <2> SUFFICES ASSUME Passing(b, q), Retracted(b, q) \/ Passing(b, p),
                        NEW i \in DOMAIN r, Mentions(b, r[i])
                 PROVE  \E j \in DOMAIN r : j > i /\ Removes(b, r[j])
      BY DEF Passing
    <2>1. CASE i \in DOMAIN p /\ Retracted(b, q)
      <3>1. PICK j \in DOMAIN q : Removes(b, q[j])
        BY <2>1 DEF Retracted
      <3>2. n + j \in DOMAIN r /\ Removes(b, r[n + j]) /\ i < n + j
        BY <1>1, <2>1, <3>1
      <3>3. n + j > i
        BY <1>1, <3>2
      <3> QED BY <3>2, <3>3
    <2>2. CASE i \in DOMAIN p /\ Passing(b, p)
      <3>1. PICK j \in DOMAIN p : j > i /\ Removes(b, p[j])
        BY <1>1, <2>2 DEF Passing
      <3> QED BY <1>1, <3>1
    <2>3. CASE i \notin DOMAIN p
      <3>1. PICK k \in DOMAIN q : i = n + k
        BY <1>1, <2>3
      <3>2. PICK j \in DOMAIN q : j > k /\ Removes(b, q[j])
        BY <1>1, <3>1 DEF Passing
      <3>3. n + j \in DOMAIN r /\ n + j > i /\ Removes(b, r[n + j])
        BY <1>1, <3>1, <3>2, SMTT(30)
      <3> QED BY <3>3
    <2> QED BY <2>1, <2>2, <2>3
  <1> QED BY <1>2, <1>3, <1>4, <1>5, <1>6, <1>7, <1>8

\* A queue is its first message and the rest.
LEMMA HeadAndTail ==
    ASSUME NEW S, NEW q \in Seq(S), q # <<>>
    PROVE  Head(q) \in S /\ Tail(q) \in Seq(S) /\ <<Head(q)>> \in Seq(S) /\ q = <<Head(q)>> \o Tail(q)
  <1>1. Head(q) \in S /\ Tail(q) \in Seq(S) /\ <<Head(q)>> \in Seq(S)
    OBVIOUS
  <1> QED BY <1>1

LEMMA QueueHead ==
    ASSUME NEW S, NEW q \in Seq(S), q # <<>>, NEW b
    PROVE  /\ AllThrough(b, q) <=> Through(b, Head(q)) /\ AllThrough(b, Tail(q))
           /\ Announced(b, q) <=>
                Announced(b, Tail(q)) \/ (Brings(b, Head(q)) /\ AllThrough(b, Tail(q)))
           /\ Retracted(b, q) <=> Removes(b, Head(q)) \/ Retracted(b, Tail(q))
           /\ Passing(b, q) <=>
                Passing(b, Tail(q)) /\ (Retracted(b, Tail(q)) \/ ~Mentions(b, Head(q)))
  <1> PICK h, t : h = Head(q) /\ t = Tail(q)
    OBVIOUS
  <1>1. h \in S /\ t \in Seq(S) /\ <<h>> \in Seq(S) /\ q = <<h>> \o t
    BY HeadAndTail
  <1>2. /\ AllThrough(b, q) <=> AllThrough(b, <<h>>) /\ AllThrough(b, t)
        /\ Announced(b, q) <=> Announced(b, t) \/ (Announced(b, <<h>>) /\ AllThrough(b, t))
        /\ Retracted(b, q) <=> Retracted(b, <<h>>) \/ Retracted(b, t)
        /\ Passing(b, q) <=> Passing(b, t) /\ (Retracted(b, t) \/ Passing(b, <<h>>))
    BY <1>1, QueueConcat
  <1> QED BY <1>2, OneMessage

-------------------------------------------------------------------------------
(* The node, between the queue and its maps.                                 *)

Kept == committed \cup probabilistic

Emitted == channel \o outbox
Queue == Emitted \o wire

\* A block the node keeps, and keeps until it is idle; one that it is about to
\* apply; one that it is about to ask for.
Held(b) == b \in Kept /\ \A i \in DOMAIN todo : b \in OnChain(todo[i].block)
Due(b) == \E i \in DOMAIN todo :
            /\ todo[i].block = b
            /\ \A j \in DOMAIN todo : j > i => b \in OnChain(todo[j].block)
Requested(b) == \E r \in Awaited : DaaScore[b] \in r[1] .. r[2]
Arriving(b) == Held(b) \/ Due(b) \/ Requested(b)

\* The node keeps one block of a score, and at most one gap is waited for, above all
\* that is kept.
NodeInv ==
    /\ \A b, c \in Kept : DaaScore[b] = DaaScore[c] => b = c
    /\ committed \cap probabilistic = {}
    /\ refetch # {} => Node!Idle
    /\ recovery # {} => refetch = {} /\ todo = <<>>
    /\ \A r, s \in Awaited : r = s
    /\ \A r \in Awaited : \A b \in Kept : DaaScore[b] < r[1]

QueueTypes ==
    /\ wire \in Seq(UpMsg) /\ outbox \in Seq(Note) /\ channel \in Seq(Note)
    /\ base \in Block

BaseInv == FInv /\ QueueTypes /\ NodeInv

TakeStep == TakeBlock \/ TakeChainChange \/ TakeGap

LEMMA HeadNote ==
    ASSUME BaseInv, TakeStep
    PROVE  LET m == Head(channel)
           IN  /\ channel # <<>> /\ m \in Note
               /\ todo = <<>> /\ recovery = {} /\ Awaited = {}
               /\ refetch' = {} /\ channel' = Tail(channel)
               /\ UNCHANGED <<chainVars, wire, driverVars, outbox, open, gaveUp>>
               /\ (TakeBlock => \E x \in Block :
                    /\ m = Added(x) /\ todo' = <<[block |-> x, final |-> FALSE]>>
                    /\ UNCHANGED <<committed, probabilistic, recovery>>)
               /\ (TakeChainChange => \E o, n \in Block :
                    /\ m = Changed(o, n) /\ Rises(o, n)
                    /\ committed' = committed \ m.removed
                    /\ probabilistic' = probabilistic \ m.removed
                    /\ todo' = NotFinal(m.blocks) /\ UNCHANGED recovery)
               /\ (TakeGap =>
                    /\ m \in GapMsg
                    /\ recovery' = {<<m.from, m.to>>}
                    /\ UNCHANGED <<committed, probabilistic, todo>>)
  <1> DEFINE m == Head(channel)
  <1>1. /\ channel # <<>> /\ channel' = Tail(channel) /\ Node!Idle /\ refetch = {}
        /\ UNCHANGED <<chainVars, wire, driverVars, outbox, open, gaveUp, refetch>>
    BY DEF TakeStep, TakeBlock, TakeChainChange, TakeGap, Take, Unhandled
  <1>2. m \in Note
    <2>1. channel \in Seq(Note)
      BY DEF BaseInv, QueueTypes
    <2> HIDE DEF Note
    <2> QED BY <1>1, <2>1
  <1> HIDE DEF m
  <1>3. TakeBlock => \E x \in Block :
            /\ m = Added(x) /\ todo' = <<[block |-> x, final |-> FALSE]>>
            /\ UNCHANGED <<committed, probabilistic, recovery>>
    <2> SUFFICES ASSUME TakeBlock
                 PROVE  \E x \in Block :
                            /\ m = Added(x) /\ todo' = <<[block |-> x, final |-> FALSE]>>
                            /\ UNCHANGED <<committed, probabilistic, recovery>>
      OBVIOUS
    <2>1. m.kind = "block" /\ Node!BlockAdded(m.blocks[1], FALSE)
      BY DEF TakeBlock, Take, m
    <2>2. PICK x \in Block : m = Added(x)
      BY <1>2, <2>1, NoteIs, UpMsgIs
    <2>3. m.blocks[1] = x
      BY <2>2, AddedIs
    <2> QED BY <2>1, <2>2, <2>3 DEF Node!BlockAdded
  <1>4. TakeChainChange => \E o, n \in Block :
            /\ m = Changed(o, n) /\ Rises(o, n)
            /\ committed' = committed \ m.removed
            /\ probabilistic' = probabilistic \ m.removed
            /\ todo' = NotFinal(m.blocks) /\ UNCHANGED recovery
    <2> SUFFICES ASSUME TakeChainChange
                 PROVE  \E o, n \in Block :
                            /\ m = Changed(o, n) /\ Rises(o, n)
                            /\ committed' = committed \ m.removed
                            /\ probabilistic' = probabilistic \ m.removed
                            /\ todo' = NotFinal(m.blocks) /\ UNCHANGED recovery
      OBVIOUS
    <2>1. m.kind = "chain" /\ Node!VirtualChainChanged(m.removed, NotFinal(m.blocks))
      BY DEF TakeChainChange, Take, m
    <2>2. PICK o \in Block, n \in Block : Rises(o, n) /\ m = Changed(o, n)
      BY <1>2, <2>1, NoteIs, UpMsgIs
    <2>3. /\ committed' = committed \ m.removed /\ probabilistic' = probabilistic \ m.removed
          /\ todo' = NotFinal(m.blocks) /\ UNCHANGED recovery
      BY <2>1 DEF Node!VirtualChainChanged
    <2> QED BY <2>2, <2>3
  <1>5. TakeGap => /\ m \in GapMsg
                   /\ recovery' = {<<m.from, m.to>>}
                   /\ UNCHANGED <<committed, probabilistic, todo>>
    <2> SUFFICES ASSUME TakeGap
                 PROVE  /\ m \in GapMsg
                        /\ recovery' = {<<m.from, m.to>>}
                        /\ UNCHANGED <<committed, probabilistic, todo>>
      OBVIOUS
    <2>1. m.kind = "gap" /\ Node!RecoveryRequired(m.from, m.to)
      BY DEF TakeGap, Take, m
    <2>2. m \in GapMsg
      BY <1>2, <2>1, NoteIs
    <2>3. recovery = {} /\ recovery' = {<<m.from, m.to>>} /\ UNCHANGED <<committed, todo>>
      BY <1>1, <2>1 DEF Node!RecoveryRequired, Node!Idle
    <2>4. probabilistic' = {p \in probabilistic : DaaScore[p] \notin m.from .. m.to}
      BY <2>1 DEF Node!RecoveryRequired
    <2>5. \A p \in probabilistic : DaaScore[p] \notin m.from .. m.to
      <3>1. <<m.from, m.to>> \in recovery' \ recovery
        BY <2>3
      <3>2. [Next]_vars
        BY DEF Next, LoopStep
      <3>3. \A r \in recovery' \ recovery, p \in committed \cup probabilistic :
                DaaScore[p] \notin r[1] .. r[2]
        BY <3>2, RequestedIsUnknown DEF BaseInv
      <3> QED BY <3>1, <3>3
    <2> QED BY <2>2, <2>3, <2>4, <2>5
  <1>6. todo = <<>> /\ recovery = {} /\ Awaited = {}
    BY <1>1 DEF Node!Idle, Awaited
  <1> QED BY <1>1, <1>2, <1>3, <1>4, <1>5, <1>6 DEF m

LEMMA GapIs ==
    ASSUME NEW m \in GapMsg
    PROVE  /\ m.kind = "gap" /\ m.from \in Nat /\ m.to \in Nat
           /\ \A b : ~Mentions(b, m) /\ ~Removes(b, m) /\ Through(b, m)
  BY DEF GapMsg, Mentions, Removes, Through

LEMMA AddedSays ==
    ASSUME NEW x \in Block
    PROVE  \A b : /\ Brings(b, Added(x)) <=> b = x
                  /\ Mentions(b, Added(x)) <=> b = x
                  /\ Through(b, Added(x)) <=> b \in OnChain(x)
                  /\ ~Removes(b, Added(x))
  <1>1. Range(<<x>>) = {x}
    BY DEF Range
  <1> QED BY <1>1, AddedIs DEF Brings, Mentions, Covers, Through, Removes

LEMMA ChangedSays ==
    ASSUME NEW o \in Block, NEW n \in Block
    PROVE  \A b : /\ Brings(b, Changed(o, n)) <=> b \in OnChain(n) \ OnChain(o)
                  /\ Mentions(b, Changed(o, n)) <=> b \in OnChain(n) \ OnChain(o)
                  /\ Removes(b, Changed(o, n)) <=> b \in OnChain(o) \ OnChain(n)
                  /\ Through(b, Changed(o, n)) <=>
                        /\ b \notin OnChain(o) \ OnChain(n)
                        /\ \A x \in OnChain(n) \ OnChain(o) : b \in OnChain(x)
  BY ChangeIs DEF Brings, Mentions, Covers, Through, Removes

\* The blocks of a chain change, as the node is to apply them.
LEMMA DueInOrder ==
    ASSUME NEW blocks \in Seq(Block), NEW list, list = NotFinal(blocks),
           \A p, q \in DOMAIN blocks : p < q => blocks[p] \in OnChain(blocks[q])
    PROVE  /\ DOMAIN list = DOMAIN blocks
           /\ \A i \in DOMAIN list : list[i].block = blocks[i]
           /\ \A b \in Range(blocks) : \E i \in DOMAIN list :
                /\ list[i].block = b
                /\ \A j \in DOMAIN list : j > i => b \in OnChain(list[j].block)
           /\ {list[i].block : i \in DOMAIN list} = Range(blocks)
  <1>1. DOMAIN list = DOMAIN blocks /\ \A i \in DOMAIN list : list[i].block = blocks[i]
    BY ToldBlocks
  <1>2. ASSUME NEW b \in Range(blocks)
        PROVE  \E i \in DOMAIN list :
                /\ list[i].block = b
                /\ \A j \in DOMAIN list : j > i => b \in OnChain(list[j].block)
    <2>1. PICK i \in DOMAIN blocks : b = blocks[i]
      BY DEF Range
    <2>2. ASSUME NEW j \in DOMAIN list, j > i PROVE b \in OnChain(list[j].block)
      <3>1. i < j /\ list[j].block = blocks[j] /\ j \in DOMAIN blocks
        BY <1>1, <2>2
      <3> QED BY <2>1, <3>1
    <2> QED BY <1>1, <2>1, <2>2
  <1> QED BY <1>1, <1>2 DEF Range

\* What a message brings is on its way once the message is taken, and what it
\* leaves alone stays on its way.
LEMMA TakeArrives ==
    ASSUME BaseInv, TakeStep, NEW b \in Block, NEW m, m = Head(channel),
           Brings(b, m) \/ (Arriving(b) /\ Through(b, m))
    PROVE  Arriving(b)'
  <1>1. /\ todo = <<>> /\ recovery = {} /\ Awaited = {} /\ refetch' = {}
        /\ (TakeBlock => \E x \in Block :
             /\ m = Added(x) /\ todo' = <<[block |-> x, final |-> FALSE]>>
             /\ UNCHANGED <<committed, probabilistic, recovery>>)
        /\ (TakeChainChange => \E o, n \in Block :
             /\ m = Changed(o, n) /\ Rises(o, n)
             /\ committed' = committed \ m.removed
             /\ probabilistic' = probabilistic \ m.removed
             /\ todo' = NotFinal(m.blocks) /\ UNCHANGED recovery)
        /\ (TakeGap =>
             /\ m \in GapMsg
             /\ recovery' = {<<m.from, m.to>>}
             /\ UNCHANGED <<committed, probabilistic, todo>>)
    BY HeadNote
  <1>2. Arriving(b) => b \in Kept
    BY <1>1 DEF Arriving, Held, Due, Requested
  <1>3. CASE TakeBlock
    <2>1. PICK x \in Block : /\ m = Added(x) /\ todo' = <<[block |-> x, final |-> FALSE]>>
                             /\ UNCHANGED <<committed, probabilistic, recovery>>
      BY <1>1, <1>3
    <2>2. DOMAIN todo' = {1} /\ todo'[1].block = x
      BY <2>1
    <2>3. CASE b = x
      <3>1. \A j \in DOMAIN todo' : ~(j > 1)
        BY <2>2
      <3> QED BY <2>2, <2>3, <3>1 DEF Arriving, Due
    <2>4. CASE b \in Kept /\ b \in OnChain(x)
      <3>1. Kept' = Kept
        BY <2>1 DEF Kept
      <3> QED BY <2>2, <2>4, <3>1 DEF Arriving, Held
    <2> QED BY <1>2, <2>1, <2>3, <2>4, AddedSays
  <1>4. CASE TakeChainChange
    <2>1. PICK o \in Block, n \in Block :
             /\ m = Changed(o, n) /\ Rises(o, n)
             /\ committed' = committed \ m.removed
             /\ probabilistic' = probabilistic \ m.removed
             /\ todo' = NotFinal(m.blocks) /\ UNCHANGED recovery
      BY <1>1, <1>4
    <2>2. /\ m.blocks \in Seq(Block) /\ Range(m.blocks) = OnChain(n) \ OnChain(o)
          /\ m.removed = OnChain(o) \ OnChain(n)
          /\ \A p, q \in DOMAIN m.blocks : p < q => m.blocks[p] \in OnChain(m.blocks[q])
      BY <2>1, ChangeIs, NewBlocksAre
    <2> PICK blocks : blocks = m.blocks
      OBVIOUS
    <2> PICK list : list = todo'
      OBVIOUS
    <2>3. /\ DOMAIN list = DOMAIN blocks
          /\ \A i \in DOMAIN list : list[i].block = blocks[i]
          /\ \A c \in Range(blocks) : \E i \in DOMAIN list :
                /\ list[i].block = c
                /\ \A j \in DOMAIN list : j > i => c \in OnChain(list[j].block)
      BY <2>1, <2>2, DueInOrder
    <2>4. CASE Brings(b, m)
      <3>1. b \in Range(blocks)
        BY <2>1, <2>2, <2>4, ChangedSays
      <3> QED BY <2>3, <3>1 DEF Arriving, Due
    <2>5. CASE b \in Kept /\ Through(b, m)
      <3>1. b \notin m.removed /\ \A x \in Range(blocks) : b \in OnChain(x)
        BY <2>1, <2>2, <2>5, ChangedSays
      <3>2. b \in Kept'
        BY <2>1, <2>5, <3>1 DEF Kept
      <3>3. \A i \in DOMAIN list : b \in OnChain(list[i].block)
        BY <2>3, <3>1 DEF Range
      <3> QED BY <3>2, <3>3 DEF Arriving, Held
    <2> QED BY <1>2, <2>4, <2>5
  <1>5. CASE TakeGap
    <2>1. /\ m \in GapMsg /\ recovery' = {<<m.from, m.to>>}
          /\ UNCHANGED <<committed, probabilistic, todo>>
      BY <1>1, <1>5
    <2>2. CASE Brings(b, m)
      <3>1. DaaScore[b] \in m.from .. m.to
        BY <2>1, <2>2, GapIs DEF Brings, Covers
      <3>2. <<m.from, m.to>> \in Awaited'
        BY <2>1 DEF Awaited
      <3> QED BY <3>1, <3>2 DEF Arriving, Requested
    <2>3. CASE b \in Kept
      <3>1. Kept' = Kept /\ todo' = <<>>
        BY <1>1, <2>1 DEF Kept
      <3> QED BY <2>3, <3>1 DEF Arriving, Held
    <2> QED BY <1>2, <2>2, <2>3
  <1> QED BY <1>3, <1>4, <1>5 DEF TakeStep

\* Applying a block keeps what stands below it, and keeps the block unless its
\* score is committed to another one.
LEMMA ApplyIs ==
    ASSUME BaseInv, ApplyBlock
    PROVE  LET x == Head(todo).block
           IN  /\ todo \in Seq(Entry) /\ todo # <<>> /\ todo' = Tail(todo)
               /\ x \in Block /\ x = todo[1].block
               /\ Kept' \subseteq Kept \cup {x}
               /\ \A b \in Kept : b = x \/ DaaScore[b] < DaaScore[x] => b \in Kept'
               /\ (\A c \in committed : DaaScore[c] = DaaScore[x] => c = x) => x \in Kept'
               /\ \A b, c \in Kept' : DaaScore[b] = DaaScore[c] => b = c
               /\ committed' \cap probabilistic' = {}
               /\ UNCHANGED <<recovery, refetch, channel, outbox, wire, chainVars, driverVars,
                              open, gaveUp>>
  <1> DEFINE x == Head(todo).block
  <1>0. /\ Node!ApplyBlock
        /\ UNCHANGED <<refetch, channel, outbox, wire, chainVars, driverVars, open, gaveUp>>
    BY DEF ApplyBlock, Unhandled
  <1>1. todo \in Seq(Entry) /\ todo # <<>> /\ todo' = Tail(todo) /\ recovery' = recovery
    BY <1>0 DEF BaseInv, FInv, FeedTypes, Node!ApplyBlock, Node!IgnoreBlock, Node!BufferAndPromote
  <1>2. Head(todo) \in Entry /\ Head(todo) = todo[1]
    <2> HIDE DEF Entry
    <2> QED BY <1>1
  <1>3. x \in Block /\ x = todo[1].block
    BY <1>2 DEF Entry
  <1> HIDE DEF x
  <1>4. /\ \A b, c \in Kept : DaaScore[b] = DaaScore[c] => b = c
        /\ committed \cap probabilistic = {}
    BY DEF BaseInv, NodeInv
  <1>5. /\ Kept' \subseteq Kept \cup {x}
        /\ \A b \in Kept : b = x \/ DaaScore[b] < DaaScore[x] => b \in Kept'
        /\ (\A c \in committed : DaaScore[c] = DaaScore[x] => c = x) => x \in Kept'
        /\ \A b, c \in Kept' : DaaScore[b] = DaaScore[c] => b = c
        /\ committed' \cap probabilistic' = {}
    <2>1. CASE Node!IgnoreBlock
      <3>1. UNCHANGED <<committed, probabilistic>>
        BY <2>1 DEF Node!IgnoreBlock
      <3>2. PICK c \in committed : DaaScore[c] = DaaScore[x]
        BY <2>1 DEF Node!IgnoreBlock, Node!Taken, Node!SameScore, x
      <3> QED BY <1>4, <3>1, <3>2 DEF Kept
    <2>2. CASE Node!BufferAndPromote
      <3> DEFINE final    == Head(todo).final
                 buffered == Node!Put(Node!Survivors(x), {x})
                 flags    == {p \in buffered : \/ p # x /\ p \in finalized
                                               \/ p = x /\ final
                                               \/ Node!BelowCutoff(p, x)}
                 promoted == IF final \/ FinalityDepth # 0
                             THEN Node!Promotable(buffered, flags) ELSE {}
      <3>1. promoted \subseteq buffered
        BY DEF Node!Promotable
      <3>2. /\ probabilistic' = buffered \ promoted
            /\ committed' = Node!Put(committed, promoted)
            /\ ~Node!Taken(x)
        BY <2>2 DEF Node!BufferAndPromote, x
      <3>3. /\ buffered = {p \in probabilistic :
                              (DaaScore[p] < DaaScore[x] \/ p = x) /\ DaaScore[x] # DaaScore[p]}
                            \cup {x}
        BY DEF Node!Put, Node!Survivors, Node!SameScore
      <3>4. \A c \in committed : DaaScore[c] # DaaScore[x]
        BY <3>2 DEF Node!Taken, Node!SameScore
      <3> HIDE DEF promoted, buffered
      <3>5. \A c \in committed, p \in buffered : DaaScore[p] # DaaScore[c]
        <4> SUFFICES ASSUME NEW c \in committed, NEW p \in buffered, DaaScore[p] = DaaScore[c]
                     PROVE  FALSE
          OBVIOUS
        <4>1. CASE p = x
          BY <3>4, <4>1
        <4>2. CASE p \in probabilistic
          BY <1>4, <4>2 DEF Kept
        <4> QED BY <3>3, <4>1, <4>2
      <3>6. committed' = committed \cup promoted
        BY <3>1, <3>2, <3>5 DEF Node!Put, Node!SameScore
      <3>7. Kept' = committed \cup buffered
        BY <3>1, <3>2, <3>6 DEF Kept
      <3>8. \A b \in Kept : b = x \/ DaaScore[b] < DaaScore[x] => b \in Kept'
        <4> SUFFICES ASSUME NEW b \in probabilistic, b = x \/ DaaScore[b] < DaaScore[x]
                     PROVE  b \in buffered
          BY <3>7 DEF Kept
        <4>1. b \in Block /\ DaaScore[b] \in Nat /\ DaaScore[x] \in Nat
          BY <1>3, ScoreIs DEF BaseInv, FInv, FeedTypes
        <4> QED BY <3>3, <4>1
      <3>9. \A b, c \in Kept' : DaaScore[b] = DaaScore[c] => b = c
        <4> SUFFICES ASSUME NEW b \in committed \cup buffered, NEW c \in committed \cup buffered,
                            DaaScore[b] = DaaScore[c]
                     PROVE  b = c
          BY <3>7
        <4>1. CASE b \in committed /\ c \in committed
          BY <1>4, <4>1 DEF Kept
        <4>2. CASE b \in buffered /\ c \in buffered
          BY <1>4, <3>3, <4>2 DEF Kept
        <4> QED BY <3>5, <4>1, <4>2
      <3>10. committed' \cap probabilistic' = {}
        BY <3>2, <3>5, <3>6
      <3> QED BY <3>3, <3>7, <3>8, <3>9, <3>10 DEF Kept
    <2> QED BY <1>0, <2>1, <2>2 DEF Node!ApplyBlock
  <1> QED BY <1>0, <1>1, <1>3, <1>5 DEF x

\* Sequences one behind another, taken from and moved within.
LEMMA ConcatTail ==
    ASSUME NEW S, NEW c \in Seq(S), NEW o \in Seq(S), c # <<>>, NEW q, q = c \o o
    PROVE  q \in Seq(S) /\ q # <<>> /\ Head(q) = Head(c) /\ Tail(q) = Tail(c) \o o
  <1>1. q \in Seq(S) /\ q # <<>> /\ Head(q) = Head(c)
    OBVIOUS
  <1> PICK t : t = Tail(c) \o o
    OBVIOUS
  <1> PICK u : u = Tail(q)
    OBVIOUS
  <1>2. /\ Len(c) \in Nat /\ Len(c) > 0 /\ Len(o) \in Nat /\ Len(q) = Len(c) + Len(o)
        /\ \A i \in 1..Len(q) : q[i] = IF i <= Len(c) THEN c[i] ELSE o[i - Len(c)]
    OBVIOUS
  <1>3. u \in Seq(S) /\ Len(u) = Len(q) - 1 /\ \A i \in 1..Len(u) : u[i] = q[i + 1]
    BY <1>1, <1>2
  <1>4. Tail(c) \in Seq(S) /\ Len(Tail(c)) = Len(c) - 1 /\ \A i \in 1..(Len(c) - 1) : Tail(c)[i] = c[i + 1]
    BY <1>2
  <1>5. /\ t \in Seq(S) /\ Len(t) = Len(c) - 1 + Len(o)
        /\ \A i \in 1..Len(t) : t[i] = IF i <= Len(c) - 1 THEN Tail(c)[i] ELSE o[i - (Len(c) - 1)]
    BY <1>4, <1>2
  <1>6. Len(t) = Len(u)
    BY <1>2, <1>3, <1>5
  <1>7. ASSUME NEW i \in 1..Len(t) PROVE t[i] = u[i]
    <2>1. u[i] = q[i + 1] /\ i + 1 \in 1..Len(q)
      BY <1>2, <1>3, <1>6
    <2>2. CASE i <= Len(c) - 1
      BY <1>2, <1>4, <1>5, <2>1, <2>2
    <2>3. CASE ~(i <= Len(c) - 1)
      <3>1. t[i] = o[i - (Len(c) - 1)] /\ u[i] = o[i + 1 - Len(c)]
        BY <1>2, <1>5, <2>1, <2>3
      <3>2. i - (Len(c) - 1) = i + 1 - Len(c)
        BY <1>2
      <3> QED BY <3>1, <3>2
    <2> QED BY <2>2, <2>3
  <1>8. t = u
    BY <1>3, <1>5, <1>6, <1>7
  <1> QED BY <1>1, <1>8

LEMMA MovedWithin ==
    ASSUME NEW S, NEW c \in Seq(S), NEW o \in Seq(S), o # <<>>
    PROVE  Append(c, Head(o)) \o Tail(o) = c \o o
  <1> PICK t : t = Append(c, Head(o)) \o Tail(o)
    OBVIOUS
  <1> PICK u : u = c \o o
    OBVIOUS
  <1> PICK a, l : a = Append(c, Head(o)) /\ l = Tail(o)
    OBVIOUS
  <1>1. /\ Len(c) \in Nat /\ Len(o) \in Nat /\ Len(o) > 0
        /\ a \in Seq(S) /\ Len(a) = Len(c) + 1
        /\ \A i \in 1..Len(a) : a[i] = IF i <= Len(c) THEN c[i] ELSE o[1]
        /\ l \in Seq(S) /\ Len(l) = Len(o) - 1 /\ \A i \in 1..Len(l) : l[i] = o[i + 1]
    BY SMTT(30)
  <1>2. /\ u \in Seq(S) /\ Len(u) = Len(c) + Len(o)
        /\ \A i \in 1..Len(u) : u[i] = IF i <= Len(c) THEN c[i] ELSE o[i - Len(c)]
    BY <1>1
  <1>3. /\ t \in Seq(S) /\ Len(t) = Len(a) + Len(l)
        /\ \A i \in 1..Len(t) : t[i] = IF i <= Len(a) THEN a[i] ELSE l[i - Len(a)]
    BY <1>1
  <1>4. Len(t) = Len(u)
    BY <1>1, <1>2, <1>3
  <1>5. ASSUME NEW i \in 1..Len(t) PROVE t[i] = u[i]
    <2>1. CASE i <= Len(c)
      BY <1>1, <1>2, <1>3, <1>4, <2>1
    <2>2. CASE i = Len(c) + 1
      <3>1. t[i] = o[1] /\ u[i] = o[i - Len(c)] /\ i - Len(c) = 1
        BY <1>1, <1>2, <1>3, <1>4, <2>2
      <3> QED BY <3>1
    <2>3. CASE i > Len(c) + 1
      <3>1. t[i] = l[i - Len(a)] /\ i - Len(a) \in 1..Len(l) /\ u[i] = o[i - Len(c)]
        BY <1>1, <1>2, <1>3, <1>4, <2>3
      <3>2. i - Len(a) + 1 = i - Len(c)
        BY <1>1
      <3> QED BY <1>1, <3>1, <3>2
    <2> QED BY <1>1, <2>1, <2>2, <2>3
  <1>6. t = u
    BY <1>2, <1>3, <1>4, <1>5
  <1> QED BY <1>6

LEMMA QueueIs ==
    ASSUME QueueTypes
    PROVE  Emitted \in Seq(Note) /\ Queue \in Seq(Note) /\ wire \in Seq(Note)
  <1>1. wire \in Seq(UpMsg) /\ UpMsg \subseteq Note
    BY DEF QueueTypes, Note
  <1> HIDE DEF Note, UpMsg
  <1>2. wire \in Seq(Note) /\ channel \in Seq(Note) /\ outbox \in Seq(Note)
    BY <1>1 DEF QueueTypes
  <1> QED BY <1>2 DEF Emitted, Queue

LEMMA QueueTaken ==
    ASSUME QueueTypes, channel # <<>>, channel' = Tail(channel), UNCHANGED <<outbox, wire>>
    PROVE  /\ Emitted # <<>> /\ Head(Emitted) = Head(channel) /\ Emitted' = Tail(Emitted)
           /\ Queue # <<>> /\ Head(Queue) = Head(channel) /\ Queue' = Tail(Queue)
  <1>1. channel \in Seq(Note) /\ outbox \in Seq(Note) /\ wire \in Seq(Note) /\ Emitted \in Seq(Note)
    BY QueueIs DEF QueueTypes
  <1>2. Emitted # <<>> /\ Head(Emitted) = Head(channel) /\ Tail(Emitted) = Tail(channel) \o outbox
    BY <1>1, ConcatTail DEF Emitted
  <1>3. Queue # <<>> /\ Head(Queue) = Head(Emitted) /\ Tail(Queue) = Tail(Emitted) \o wire
    BY <1>1, <1>2, ConcatTail DEF Queue
  <1>4. Emitted' = Tail(Emitted)
    BY <1>2 DEF Emitted
  <1> QED BY <1>2, <1>3, <1>4 DEF Queue

LEMMA QueueSent ==
    ASSUME QueueTypes, Send
    PROVE  Emitted' = Emitted /\ Queue' = Queue
  <1>1. /\ channel \in Seq(Note) /\ outbox \in Seq(Note) /\ outbox # <<>>
        /\ channel' = Append(channel, Head(outbox)) /\ outbox' = Tail(outbox) /\ wire' = wire
    BY DEF QueueTypes, Send
  <1>2. Emitted' = Emitted
    BY <1>1, MovedWithin DEF Emitted
  <1> QED BY <1>1, <1>2 DEF Queue

-------------------------------------------------------------------------------
(* What is on its way stays on its way.                                      *)

LEMMA RemovesIs ==
    ASSUME NEW m \in Note, NEW c, Removes(c, m)
    PROVE  \E o, n \in Block : /\ Rises(o, n) /\ m = Changed(o, n)
                               /\ c \in OnChain(o) /\ c \notin OnChain(n)
  <1>1. m \in UpMsg
    BY NoteIs DEF Removes
  <1>2. CASE m.kind = "block"
    <2>1. PICK x \in Block : m = Added(x)
      BY <1>1, <1>2, UpMsgIs
    <2> QED BY <2>1, AddedSays
  <1>3. CASE m.kind = "chain"
    <2>1. PICK o \in Block, n \in Block : Rises(o, n) /\ m = Changed(o, n)
      BY <1>1, <1>3, UpMsgIs
    <2> QED BY <2>1, ChangedSays
  <1> QED BY <1>1, <1>2, <1>3, UpMsgIs

LEMMA ApplyArrives ==
    ASSUME BaseInv, ApplyBlock, tip \in Block, NEW b \in OnChain(tip), NEW q \in Seq(Note),
           AllThrough(b, q), Arriving(b), \A c \in Kept \ OnChain(tip) : Retracted(c, q)
    PROVE  Arriving(b)' \/ Announced(b, q)
  <1> PICK x : x = Head(todo).block
    OBVIOUS
  <1>1. /\ todo \in Seq(Entry) /\ todo # <<>> /\ todo' = Tail(todo)
        /\ x \in Block /\ x = todo[1].block
        /\ \A c \in Kept : c = x \/ DaaScore[c] < DaaScore[x] => c \in Kept'
        /\ (\A c \in committed : DaaScore[c] = DaaScore[x] => c = x) => x \in Kept'
    BY ApplyIs
  <1>2. b \in Block
    BY OnChainBlocks
  <1>3. /\ 1 \in DOMAIN todo
        /\ \A j \in DOMAIN todo' : j + 1 \in DOMAIN todo /\ todo'[j] = todo[j + 1] /\ j + 1 > 1
        /\ \A i \in DOMAIN todo : i # 1 => i - 1 \in DOMAIN todo' /\ todo'[i - 1] = todo[i]
        /\ DOMAIN todo \subseteq Nat /\ DOMAIN todo' \subseteq Nat
    <2> HIDE DEF Entry
    <2>1. /\ DOMAIN todo = 1..Len(todo) /\ Len(todo) \in Nat /\ Len(todo) > 0
          /\ DOMAIN todo' = 1..(Len(todo) - 1)
          /\ \A j \in 1..(Len(todo) - 1) : todo'[j] = todo[j + 1]
      BY <1>1
    <2>2. 1 \in DOMAIN todo /\ DOMAIN todo \subseteq Nat /\ DOMAIN todo' \subseteq Nat
      BY <2>1
    <2>3. \A j \in DOMAIN todo' : j + 1 \in DOMAIN todo /\ todo'[j] = todo[j + 1] /\ j + 1 > 1
      BY <2>1
    <2>4. ASSUME NEW i \in DOMAIN todo, i # 1
          PROVE  i - 1 \in DOMAIN todo' /\ todo'[i - 1] = todo[i]
      <3>1. i - 1 \in 1..(Len(todo) - 1) /\ (i - 1) + 1 = i
        BY <2>1, <2>4
      <3> QED BY <2>1, <3>1
    <2> QED BY <2>2, <2>3, <2>4
  <1>4. CASE Held(b)
    <2>1. b \in Kept /\ b \in OnChain(x)
      BY <1>1, <1>3, <1>4 DEF Held
    <2>2. b \in Kept'
      BY <1>1, <2>1, OnChainRises
    <2>3. \A j \in DOMAIN todo' : b \in OnChain(todo'[j].block)
      BY <1>3, <1>4 DEF Held
    <2> QED BY <2>2, <2>3 DEF Arriving, Held
  <1>5. CASE Due(b)
    <2>1. PICK i \in DOMAIN todo :
            /\ todo[i].block = b
            /\ \A j \in DOMAIN todo : j > i => b \in OnChain(todo[j].block)
      BY <1>5 DEF Due
    <2>2. CASE i # 1
      <3>1. i - 1 \in DOMAIN todo' /\ todo'[i - 1].block = b
        BY <1>3, <2>1, <2>2
      <3>2. ASSUME NEW j \in DOMAIN todo', j > i - 1 PROVE b \in OnChain(todo'[j].block)
        <4>1. j + 1 \in DOMAIN todo /\ todo'[j] = todo[j + 1] /\ j + 1 > i
          BY <1>3, <2>2, <3>2
        <4> QED BY <2>1, <4>1
      <3> QED BY <3>1, <3>2 DEF Arriving, Due
    <2>3. CASE i = 1 /\ \A c \in committed : DaaScore[c] = DaaScore[x] => c = x
      <3>1. b = x /\ b \in Kept'
        BY <1>1, <2>1, <2>3
      <3>2. \A j \in DOMAIN todo' : b \in OnChain(todo'[j].block)
        BY <1>3, <2>1, <2>3
      <3> QED BY <3>1, <3>2 DEF Arriving, Held
    <2>4. CASE i = 1 /\ \E c \in committed : DaaScore[c] = DaaScore[x] /\ c # x
      <3>1. PICK c \in committed : DaaScore[c] = DaaScore[b] /\ c # b
        BY <1>1, <2>1, <2>4
      <3>2. c \notin OnChain(tip)
        BY <3>1, OnChainSame
      <3>3. PICK j \in DOMAIN q : Removes(c, q[j])
        BY <3>1, <3>2 DEF Retracted, Kept
      <3>4. q[j] \in Note
        OBVIOUS
      <3>5. PICK o \in Block, n \in Block : /\ Rises(o, n) /\ q[j] = Changed(o, n)
                                            /\ c \in OnChain(o) /\ c \notin OnChain(n)
        BY <3>3, <3>4, RemovesIs
      <3>6. n \in OnChain(n) \ OnChain(o)
        BY <3>5, NewBlocksAre
      <3>7. b \in OnChain(n)
        BY <3>5, <3>6, ChangedSays DEF AllThrough
      <3>8. b \notin OnChain(o)
        BY <3>1, <3>5, OnChainSame
      <3>9. Brings(b, q[j])
        BY <3>5, <3>7, <3>8, ChangedSays
      <3> QED BY <3>9 DEF AllThrough, Announced
    <2> QED BY <2>2, <2>3, <2>4
  <1>6. ~Requested(b)
    <2>1. todo # <<>>
      BY <1>1
    <2> QED BY <2>1 DEF Requested, Awaited, BaseInv, NodeInv, Node!Idle
  <1> QED BY <1>4, <1>5, <1>6 DEF Arriving

LEMMA HandledIs ==
    ASSUME BaseInv, Handled
    PROVE  /\ refetch = {} /\ refetch' = recovery /\ recovery' = {} /\ todo = <<>>
           /\ writes' = <<>> /\ unwinds' = {}
           /\ UNCHANGED <<committed, probabilistic, todo, channel, outbox, wire,
                          chainVars, driverVars, open, gaveUp>>
  <1>1. /\ todo = <<>> /\ ~Node!Idle /\ refetch' = recovery /\ recovery' = {}
        /\ writes' = <<>> /\ unwinds' = {}
        /\ UNCHANGED <<committed, probabilistic, todo, channel, outbox, wire,
                       chainVars, driverVars, open, gaveUp>>
    BY DEF Handled, Unhandled, Node!Return
  <1> QED BY <1>1 DEF BaseInv, NodeInv

LEMMA HandledArrives ==
    ASSUME BaseInv, Handled, NEW b, Arriving(b)
    PROVE  Arriving(b)'
  <1>1. Awaited' = Awaited /\ Kept' = Kept /\ todo' = todo
    BY HandledIs DEF Awaited, Kept
  <1> QED BY <1>1 DEF Arriving, Held, Due, Requested

LEMMA RecoverIs ==
    ASSUME BaseInv, Recover, tip \in Block
    PROVE  \E r \in refetch, anchor \in Kept, blocks \in Seq(Block) :
            /\ Awaited = {r} /\ r[1] \in Nat /\ r[2] \in Nat
            /\ anchor \in Block /\ DaaScore[anchor] < r[1]
            /\ \A b \in Kept : DaaScore[b] < r[1]
            /\ Range(blocks) = {b \in OnChain(tip) \ OnChain(anchor) : DaaScore[b] \in r[1] .. r[2]}
            /\ \A p, q \in DOMAIN blocks : p < q => blocks[p] \in OnChain(blocks[q])
            /\ todo = <<>> /\ todo' = NotFinal(blocks)
            /\ committed' = committed \ (OnChain(anchor) \ OnChain(tip))
            /\ probabilistic' = probabilistic \ (OnChain(anchor) \ OnChain(tip))
            /\ refetch' = {} /\ recovery = {} /\ recovery' = {}
            /\ UNCHANGED <<channel, outbox, wire, chainVars, driverVars, open, gaveUp>>
  <1>1. PICK r \in refetch : \E anchor \in Anchors(r[1]) :
            Node!VirtualChainChanged(
                Changed(anchor, tip).removed,
                NotFinal(Among({b \in Block : DaaScore[b] \in r[1] .. r[2]},
                               Changed(anchor, tip).blocks)))
    BY DEF Recover
  <1>2. PICK anchor \in Anchors(r[1]) :
            Node!VirtualChainChanged(
                Changed(anchor, tip).removed,
                NotFinal(Among({b \in Block : DaaScore[b] \in r[1] .. r[2]},
                               Changed(anchor, tip).blocks)))
    BY <1>1
  <1> DEFINE gap == {b \in Block : DaaScore[b] \in r[1] .. r[2]}
  <1> PICK from : from = NewBlocks(anchor, tip)
    OBVIOUS
  <1> PICK blocks : blocks = Among(gap, from)
    OBVIOUS
  <1>3. /\ anchor \in Kept /\ anchor \in Block /\ DaaScore[anchor] < r[1]
        /\ Awaited = {r} /\ r[1] \in Nat /\ r[2] \in Nat
        /\ \A b \in Kept : DaaScore[b] < r[1]
    <2>1. anchor \in Kept /\ DaaScore[anchor] < r[1]
      BY DEF Anchors, Kept
    <2>2. anchor \in Block
      BY <2>1 DEF Kept, BaseInv, FInv, FeedTypes
    <2>3. r \in Awaited /\ r \in Nat \X Nat
      BY DEF Awaited, BaseInv, FInv, FeedTypes
    <2> QED BY <2>1, <2>2, <2>3 DEF BaseInv, NodeInv
  <1>4. /\ from \in Seq(Block) /\ Range(from) = OnChain(tip) \ OnChain(anchor)
        /\ \A p, q \in DOMAIN from : p < q => from[p] \in OnChain(from[q])
    BY <1>3, NewBlocksAre
  <1>5. /\ blocks \in Seq(Block \cap gap) /\ Picked(blocks, from, Len(from))
        /\ \A k \in DOMAIN from : from[k] \in gap => \E p \in DOMAIN blocks : blocks[p] = from[k]
    <2> PICK set : set = gap
      OBVIOUS
    <2> HIDE DEF gap
    <2>1. /\ Among(set, from) \in Seq(Block \cap set) /\ Picked(Among(set, from), from, Len(from))
          /\ \A k \in DOMAIN from : from[k] \in set =>
                \E p \in DOMAIN Among(set, from) : Among(set, from)[p] = from[k]
      <3>1. from \in Seq(Block)
        BY <1>4
      <3> QED BY ONLY <3>1, AmongOrder, Zenon
    <2>2. blocks = Among(set, from)
      OBVIOUS
    <2> QED BY <2>1, <2>2
  <1>6. blocks \in Seq(Block) /\ \A p \in DOMAIN blocks : blocks[p] \in gap
    <2> HIDE DEF gap
    <2> QED BY <1>5
  <1>7. DOMAIN from = 1..Len(from)
    BY <1>4
  <1>8. Range(blocks) = {b \in OnChain(tip) \ OnChain(anchor) : DaaScore[b] \in r[1] .. r[2]}
    <2>1. ASSUME NEW p \in DOMAIN blocks
          PROVE  blocks[p] \in OnChain(tip) \ OnChain(anchor) /\ DaaScore[blocks[p]] \in r[1] .. r[2]
      <3>1. PICK k \in 1..Len(from) : blocks[p] = from[k]
        BY <1>5 DEF Picked
      <3>2. from[k] \in Range(from)
        BY <1>7 DEF Range
      <3>3. blocks[p] \in gap
        BY <1>6
      <3> QED BY <1>4, <3>1, <3>2, <3>3
    <2>2. ASSUME NEW b \in OnChain(tip) \ OnChain(anchor), DaaScore[b] \in r[1] .. r[2]
          PROVE  b \in Range(blocks)
      <3>1. PICK k \in DOMAIN from : b = from[k]
        BY <1>4 DEF Range
      <3>2. from[k] \in gap
        BY <2>2, <3>1, OnChainBlocks
      <3>3. PICK p \in DOMAIN blocks : blocks[p] = from[k]
        BY <1>5, <3>2
      <3> QED BY <3>1, <3>3 DEF Range
    <2> QED BY <2>1, <2>2 DEF Range
  <1>9. ASSUME NEW p \in DOMAIN blocks, NEW q \in DOMAIN blocks, p < q
        PROVE  blocks[p] \in OnChain(blocks[q])
    <2>1. PICK k \in 1..Len(from), l \in 1..Len(from) :
            k < l /\ blocks[p] = from[k] /\ blocks[q] = from[l]
      BY <1>5, <1>9, ZenonT(60) DEF Picked
    <2> QED BY <1>4, <1>7, <2>1
  <1>10. /\ Changed(anchor, tip).removed = OnChain(anchor) \ OnChain(tip)
         /\ Changed(anchor, tip).blocks = from
    BY <1>3, ChangeIs
  <1>11. Node!VirtualChainChanged(OnChain(anchor) \ OnChain(tip), NotFinal(blocks))
    BY <1>2, <1>10
  <1>12. /\ todo = <<>> /\ recovery = {} /\ recovery' = {} /\ todo' = NotFinal(blocks)
         /\ committed' = committed \ (OnChain(anchor) \ OnChain(tip))
         /\ probabilistic' = probabilistic \ (OnChain(anchor) \ OnChain(tip))
    BY <1>11 DEF Node!VirtualChainChanged, Node!Idle
  <1>13. refetch' = {} /\ UNCHANGED <<channel, outbox, wire, chainVars, driverVars, open, gaveUp>>
    BY DEF Recover, Unhandled
  <1>14. \A p, q \in DOMAIN blocks : p < q => blocks[p] \in OnChain(blocks[q])
    BY <1>9
  <1> HIDE DEF gap
  <1> QED BY <1>3, <1>6, <1>8, <1>12, <1>13, <1>14

LEMMA RecoverArrives ==
    ASSUME BaseInv, Recover, tip \in Block, NEW b \in OnChain(tip), Arriving(b)
    PROVE  Arriving(b)'
  <1>1. PICK r \in refetch, anchor \in Kept, blocks \in Seq(Block) :
            /\ Awaited = {r} /\ r[1] \in Nat /\ r[2] \in Nat
            /\ anchor \in Block /\ DaaScore[anchor] < r[1]
            /\ \A c \in Kept : DaaScore[c] < r[1]
            /\ Range(blocks) = {c \in OnChain(tip) \ OnChain(anchor) : DaaScore[c] \in r[1] .. r[2]}
            /\ \A p, q \in DOMAIN blocks : p < q => blocks[p] \in OnChain(blocks[q])
            /\ todo = <<>> /\ todo' = NotFinal(blocks)
            /\ committed' = committed \ (OnChain(anchor) \ OnChain(tip))
            /\ probabilistic' = probabilistic \ (OnChain(anchor) \ OnChain(tip))
    BY RecoverIs
  <1> PICK list : list = todo'
    OBVIOUS
  <1>2. /\ DOMAIN list = DOMAIN blocks
        /\ \A i \in DOMAIN list : list[i].block = blocks[i]
        /\ \A c \in Range(blocks) : \E i \in DOMAIN list :
                /\ list[i].block = c
                /\ \A j \in DOMAIN list : j > i => c \in OnChain(list[j].block)
    BY <1>1, DueInOrder
  <1>3. b \in Block /\ DaaScore[b] \in Nat /\ DaaScore[anchor] \in Nat
    BY <1>1, OnChainBlocks, ScoreIs
  <1>4. CASE b \in Kept
    <2>1. b \in Kept'
      BY <1>1, <1>4 DEF Kept
    <2>2. ASSUME NEW i \in DOMAIN list PROVE b \in OnChain(list[i].block)
      <3>1. list[i].block \in Range(blocks)
        BY <1>2 DEF Range
      <3>2. list[i].block \in OnChain(tip) /\ DaaScore[list[i].block] \in r[1] .. r[2]
        BY <1>1, <3>1
      <3>3. DaaScore[b] <= DaaScore[list[i].block]
        BY <1>1, <1>3, <1>4, <3>2
      <3> QED BY <3>2, <3>3, OnChainOrder
    <2> QED BY <2>1, <2>2 DEF Arriving, Held
  <1>5. CASE Requested(b)
    <2>1. DaaScore[b] \in r[1] .. r[2]
      BY <1>1, <1>5 DEF Requested
    <2>2. b \notin OnChain(anchor)
      <3> SUFFICES ASSUME b \in OnChain(anchor) PROVE FALSE
        OBVIOUS
      <3>1. b = anchor \/ DaaScore[b] < DaaScore[anchor]
        BY <1>1, OnChainRises
      <3> QED BY <1>1, <1>3, <2>1, <3>1
    <2>3. b \in Range(blocks)
      BY <1>1, <2>1, <2>2
    <2> QED BY <1>2, <2>3 DEF Arriving, Due
  <1>6. ~Due(b)
    BY <1>1 DEF Due
  <1> QED BY <1>4, <1>5, <1>6 DEF Arriving, Held

-------------------------------------------------------------------------------
(* Indices of a queue behind another one, and of the rest of a queue.        *)

LEMMA ConcatIndex ==
    ASSUME NEW p \in Seq(UpMsg), NEW q \in Seq(UpMsg), NEW r, r = p \o q
    PROVE  /\ Len(p) \in Nat
           /\ \A i \in DOMAIN p : i \in DOMAIN r /\ r[i] = p[i]
           /\ \A j \in DOMAIN q : Len(p) + j \in DOMAIN r /\ r[Len(p) + j] = q[j]
           /\ \A i \in DOMAIN p, j \in DOMAIN q : i < Len(p) + j
           /\ DOMAIN p \subseteq Nat /\ DOMAIN q \subseteq Nat /\ DOMAIN r \subseteq Nat
  <1> HIDE DEF UpMsg
  <1>1. /\ DOMAIN p = 1..Len(p) /\ Len(p) \in Nat
        /\ DOMAIN q = 1..Len(q) /\ Len(q) \in Nat
        /\ DOMAIN r = 1..(Len(p) + Len(q))
        /\ \A i \in 1..(Len(p) + Len(q)) : r[i] = IF i <= Len(p) THEN p[i] ELSE q[i - Len(p)]
    OBVIOUS
  <1>3. \A i \in DOMAIN p : i \in DOMAIN r /\ r[i] = p[i]
    BY <1>1
  <1>4. \A j \in DOMAIN q : Len(p) + j \in DOMAIN r /\ r[Len(p) + j] = q[j]
    BY <1>1
  <1>5. \A i \in DOMAIN p, j \in DOMAIN q : i < Len(p) + j
    BY <1>1
  <1> QED BY <1>1, <1>3, <1>4, <1>5

LEMMA TailIndex ==
    ASSUME NEW S, NEW q \in Seq(S), q # <<>>, NEW t, t = Tail(q)
    PROVE  /\ t \in Seq(S) /\ 1 \in DOMAIN q /\ q[1] = Head(q)
           /\ \A j \in DOMAIN t : j + 1 \in DOMAIN q /\ t[j] = q[j + 1]
           /\ \A i \in DOMAIN q : i = 1 \/ \E j \in DOMAIN t : i = j + 1
           /\ DOMAIN q \subseteq Nat \ {0} /\ DOMAIN t \subseteq Nat \ {0}
  <1>1. /\ DOMAIN q = 1..Len(q) /\ Len(q) \in Nat /\ Len(q) > 0 /\ t \in Seq(S)
        /\ DOMAIN t = 1..(Len(q) - 1) /\ \A j \in 1..(Len(q) - 1) : t[j] = q[j + 1]
    OBVIOUS
  <1>2. ASSUME NEW i \in DOMAIN q, i # 1
        PROVE  \E j \in DOMAIN t : i = j + 1
    <2>1. i - 1 \in DOMAIN t /\ i = (i - 1) + 1
      BY <1>1, <1>2
    <2> QED BY <2>1
  <1>3. 1 \in DOMAIN q /\ q[1] = Head(q)
    BY <1>1
  <1>4. \A j \in DOMAIN t : j + 1 \in DOMAIN q /\ t[j] = q[j + 1]
    BY <1>1
  <1> QED BY <1>1, <1>2, <1>3, <1>4

LEMMA TailPlace ==
    ASSUME NEW S, NEW q \in Seq(S), q # <<>>, NEW t, t = Tail(q), NEW i \in DOMAIN q, i # 1
    PROVE  i - 1 \in DOMAIN t /\ i = (i - 1) + 1
  <1>1. /\ DOMAIN q = 1..Len(q) /\ Len(q) \in Nat
        /\ DOMAIN t = 1..(Len(q) - 1)
    OBVIOUS
  <1> QED BY <1>1

-------------------------------------------------------------------------------
(* Reading a message.                                                        *)

LEMMA ReadIs ==
    ASSUME BaseInv, Read, NEW m, m = Head(wire), NEW rest, rest = Tail(wire)
    PROVE  /\ wire # <<>> /\ m \in UpMsg /\ rest \in Seq(UpMsg) /\ wire' = rest
           /\ wire = <<m>> \o rest
           /\ link = "up" /\ outbox = <<>>
           /\ last \in Nat \cup {-1} /\ Scores(m) \subseteq Nat /\ Scores(m) # {}
           /\ last' \in Scores(m) \cup {last} /\ last <= last' /\ \A s \in Scores(m) : s <= last'
           /\ \E gap \in Seq(GapMsg) :
                /\ outbox' = gap \o <<m>>
                /\ \A b \in Block :
                    /\ gapCheck /\ last # -1
                    /\ DaaScore[b] > last /\ \A s \in Scores(m) : DaaScore[b] < s
                    => Announced(b, gap)
           /\ UNCHANGED <<nodeVars, chainVars, link, attempt, drops, base, channel, open,
                          refetch, gaveUp>>
  <1> DEFINE fresh == {s \in Scores(m) : s > last}
  <1>1. /\ wire \in Seq(UpMsg) /\ wire # <<>> /\ wire' = rest /\ link = "up" /\ outbox = <<>>
        /\ outbox' = GapBefore(m) \o <<m>> /\ last' = Max(Scores(m) \cup {last})
        /\ last \in Nat \cup {-1}
        /\ UNCHANGED <<nodeVars, chainVars, link, attempt, drops, base, channel, open,
                       refetch, gaveUp>>
    BY DEF Read, BaseInv, FInv, FeedTypes, QueueTypes
  <1>2. m \in UpMsg /\ rest \in Seq(UpMsg) /\ wire = <<m>> \o rest
    <2> HIDE DEF UpMsg
    <2> QED BY <1>1, HeadAndTail
  <1>3. m.blocks \in Seq(Block) /\ Range(m.blocks) # {}
    BY <1>2, UpMsgIs
  <1>4. Scores(m) \subseteq Nat /\ Scores(m) # {}
    BY <1>3, ScoresOf DEF Scores
  <1>5. last' \in Scores(m) \cup {last} /\ last <= last' /\ \A s \in Scores(m) : s <= last'
    <2> DEFINE all == Scores(m) \cup {last}
    <2>1. all \subseteq Nat \cup {-1} /\ all # {} /\ last \in all
      BY <1>1, <1>4
    <2>2. PICK n \in Nat : \A s \in Scores(m) : s <= n
      BY <1>3, ScoresOf
    <2>3. PICK k \in Nat : \A x \in all : x <= k
      <3>1. CASE last <= n
        BY <2>2, <3>1
      <3>2. CASE ~(last <= n)
        <4>1. last \in Nat /\ n <= last
          BY <1>1, <3>2
        <4>2. \A x \in all : x <= last
          BY <1>4, <2>2, <4>1
        <4> QED BY <4>1, <4>2
      <3> QED BY <3>1, <3>2
    <2> HIDE DEF all
    <2>4. Max(all) \in all /\ \A x \in all : x <= Max(all)
      BY <2>1, <2>3, MaxIs
    <2>5. last' = Max(all)
      BY <1>1 DEF all
    <2> QED BY <2>1, <2>4, <2>5 DEF all
  <1>6. fresh \subseteq Nat
    BY <1>4
  <1>7. GapBefore(m) \in Seq(GapMsg)
    <2>1. CASE gapCheck /\ last # -1 /\ fresh # {} /\ Min(fresh) > last + 1
      <3>1. GapBefore(m) = <<Gap(last + 1, Min(fresh) - 1)>>
        BY <2>1 DEF GapBefore
      <3>2. Min(fresh) \in Nat
        BY <1>6, <2>1, MinIs
      <3>3. last + 1 \in Nat /\ Min(fresh) - 1 \in Nat
        BY <1>1, <2>1, <3>2
      <3> PICK gap : gap = Gap(last + 1, Min(fresh) - 1)
        OBVIOUS
      <3>4. gap \in GapMsg
        BY <3>3 DEF Gap, GapMsg
      <3> HIDE DEF GapMsg
      <3>5. <<gap>> \in Seq(GapMsg)
        BY <3>4
      <3> QED BY <3>1, <3>5
    <2>2. CASE ~(gapCheck /\ last # -1 /\ fresh # {} /\ Min(fresh) > last + 1)
      <3>1. GapBefore(m) = <<>>
        BY <2>2 DEF GapBefore
      <3>2. <<>> \in Seq(GapMsg)
        OBVIOUS
      <3> QED BY <3>1, <3>2
    <2> QED BY <2>1, <2>2
  <1>8. ASSUME NEW b \in Block, gapCheck /\ last # -1,
               DaaScore[b] > last, \A s \in Scores(m) : DaaScore[b] < s
        PROVE  Announced(b, GapBefore(m))
    <2>1. DaaScore[b] \in Nat
      BY ScoreIs
    <2>2. \A s \in Scores(m) : s > last
      BY <1>1, <1>4, <1>8, <2>1
    <2>3. fresh = Scores(m)
      BY <2>2
    <2>4. Min(fresh) \in Scores(m) /\ Min(fresh) \in Nat
      BY <1>4, <2>3, MinIs
    <2> HIDE DEF fresh
    <2>5. Min(fresh) > last + 1 /\ DaaScore[b] \in last + 1 .. Min(fresh) - 1 /\ fresh # {}
      BY <1>1, <1>4, <1>8, <2>1, <2>3, <2>4
    <2> PICK low, high : low = last + 1 /\ high = Min(fresh) - 1
      OBVIOUS
    <2>6. GapBefore(m) = <<Gap(low, high)>>
      BY <1>8, <2>5 DEF GapBefore, fresh
    <2>7. Covers(b, Gap(low, high))
      BY <2>5 DEF Covers, Gap
    <2> QED BY <2>6, <2>7, OneMessage DEF Brings
  <1> QED BY <1>1, <1>2, <1>4, <1>5, <1>7, <1>8

-------------------------------------------------------------------------------
(* Types of the queues.                                                      *)

LEMMA QueueTypesStep ==
    ASSUME BaseInv, [Next]_vars
    PROVE  QueueTypes'
  <1>0. QueueTypes /\ tip \in Block
    BY DEF BaseInv, FInv, FeedTypes
  <1> HIDE DEF UpMsg, Note
  <1>1. CASE Advance
    <2>1. PICK t \in Block : /\ DaaScore[t] > DaaScore[tip]
                             /\ wire' = IF link = "up" THEN wire \o Announcements(tip, t) ELSE wire
      BY <1>1 DEF Advance
    <2>2. Rises(tip, t)
      BY <1>0, <2>1, ScoreIs DEF Rises
    <2>3. Announcements(tip, t) \in Seq(UpMsg)
      BY <1>0, <2>2, AnnouncedIs DEF UpMsg
    <2> PICK told : told = Announcements(tip, t)
      OBVIOUS
    <2>4. wire' \in Seq(UpMsg)
      BY <1>0, <2>1, <2>3 DEF QueueTypes
    <2> QED BY <1>0, <1>1, <2>4 DEF Advance, QueueTypes, driverVars
  <1>2. CASE Dial \/ Connect \/ StreamEnds \/ AttemptFails \/ Stop
    <2>1. <<>> \in Seq(UpMsg)
      OBVIOUS
    <2> QED BY <1>0, <1>2, <2>1 DEF Dial, Connect, StreamEnds, AttemptFails, Disconnect, Stop, QueueTypes
  <1>3. CASE Read
    <2> PICK m, rest : m = Head(wire) /\ rest = Tail(wire)
      OBVIOUS
    <2>1. /\ m \in UpMsg /\ rest \in Seq(UpMsg) /\ wire' = rest
          /\ \E gap \in Seq(GapMsg) : outbox' = gap \o <<m>>
          /\ UNCHANGED <<channel, base>>
      BY <1>3, ReadIs
    <2>2. PICK gap \in Seq(GapMsg) : outbox' = gap \o <<m>>
      BY <2>1
    <2>3. m \in Note /\ gap \in Seq(Note)
      <3>1. UpMsg \subseteq Note /\ GapMsg \subseteq Note
        BY DEF Note
      <3> HIDE DEF GapMsg
      <3> QED BY <2>1, <3>1
    <2>4. outbox' \in Seq(Note)
      BY <2>2, <2>3
    <2> QED BY <1>0, <2>1, <2>4 DEF QueueTypes
  <1>4. CASE Send
    <2>1. /\ channel \in Seq(Note) /\ outbox \in Seq(Note) /\ outbox # <<>>
          /\ channel' = Append(channel, Head(outbox)) /\ outbox' = Tail(outbox)
          /\ UNCHANGED <<wire, base>>
      BY <1>0, <1>4 DEF Send, QueueTypes, driverVars
    <2> QED BY <1>0, <2>1 DEF QueueTypes
  <1>5. CASE NoticeClosed
    <2>1. <<>> \in Seq(UpMsg) /\ <<>> \in Seq(Note)
      OBVIOUS
    <2> QED BY <1>0, <1>5, <2>1 DEF NoticeClosed, HangUp, QueueTypes
  <1>6. CASE TakeStep
    <2>1. channel \in Seq(Note) /\ channel # <<>> /\ channel' = Tail(channel)
          /\ UNCHANGED <<wire, base, outbox>>
      BY <1>0, <1>6, HeadNote DEF QueueTypes, driverVars
    <2> QED BY <1>0, <2>1 DEF QueueTypes
  <1>7. CASE ApplyBlock \/ Handled \/ Recover \/ GiveUpRecovery
    BY <1>0, <1>7 DEF ApplyBlock, Handled, Recover, GiveUpRecovery, Unhandled, driverVars, QueueTypes
  <1>8. CASE Leave \/ UNCHANGED vars
    BY <1>0, <1>8 DEF Leave, vars, driverVars, QueueTypes
  <1> QED BY <1>1, <1>2, <1>3, <1>4, <1>5, <1>6, <1>7, <1>8
      DEF Next, DriverStep, LoopStep, ChannelClosed, Shutdown, TakeStep

-------------------------------------------------------------------------------
(* The node.                                                                 *)

\* A gap taken from the channel starts above everything the node keeps.
LEMMA GapStartsAbove ==
    ASSUME BaseInv, TakeGap, NEW b \in Kept
    PROVE  DaaScore[b] < Head(channel).from
  <1> PICK m : m = Head(channel)
    OBVIOUS
  <1>1. channel \in Seq(Message) /\ channel # <<>> /\ m.kind = "gap"
    BY DEF BaseInv, FInv, FeedTypes, TakeGap, Take
  <1>2. 1 \in DOMAIN channel /\ m = channel[1]
    BY <1>1
  <1>3. Below(Known, Awaited, m.from)
    BY <1>1, <1>2 DEF BaseInv, FInv, GapsInv
  <1> QED BY <1>3 DEF Below, Known, Kept

LEMMA NodeStep ==
    ASSUME BaseInv, [Next]_vars
    PROVE  NodeInv'
  <1>0. NodeInv
    BY DEF BaseInv
  <1>1. CASE UNCHANGED <<nodeVars, refetch>>
    BY <1>0, <1>1 DEF NodeInv, Kept, Awaited, nodeVars, Node!Idle
  <1>2. CASE TakeStep
    <2> PICK m : m = Head(channel)
      OBVIOUS
    <2>1. /\ todo = <<>> /\ recovery = {} /\ Awaited = {} /\ refetch' = {}
          /\ (TakeBlock => UNCHANGED <<committed, probabilistic, recovery>>)
          /\ (TakeChainChange => /\ committed' = committed \ m.removed
                                 /\ probabilistic' = probabilistic \ m.removed
                                 /\ UNCHANGED recovery)
          /\ (TakeGap => /\ m \in GapMsg /\ recovery' = {<<m.from, m.to>>}
                         /\ UNCHANGED <<committed, probabilistic, todo>>)
      BY <1>2, HeadNote
    <2>2. Kept' \subseteq Kept /\ committed' \cap probabilistic' = {}
      BY <1>0, <1>2, <2>1 DEF TakeStep, Kept, NodeInv
    <2>3. recovery' # {} => todo' = <<>>
      BY <1>2, <2>1 DEF TakeStep
    <2>4. \A r, s \in Awaited' : r = s
      BY <1>2, <2>1 DEF TakeStep, Awaited
    <2>5. ASSUME NEW r \in Awaited', NEW b \in Kept' PROVE DaaScore[b] < r[1]
      <3>1. TakeGap /\ r = <<m.from, m.to>>
        BY <1>2, <2>1, <2>5 DEF TakeStep, Awaited
      <3>2. DaaScore[b] < m.from
        BY <2>2, <2>5, <3>1, GapStartsAbove
      <3> QED BY <3>1, <3>2
    <2> QED BY <1>0, <2>1, <2>2, <2>3, <2>4, <2>5 DEF NodeInv
  <1>3. CASE ApplyBlock
    <2>1. /\ todo # <<>> /\ UNCHANGED <<recovery, refetch>>
          /\ \A b, c \in Kept' : DaaScore[b] = DaaScore[c] => b = c
          /\ committed' \cap probabilistic' = {}
      BY <1>3, ApplyIs
    <2>2. recovery = {} /\ refetch = {}
      BY <1>0, <2>1 DEF NodeInv, Node!Idle
    <2> QED BY <2>1, <2>2 DEF NodeInv, Awaited
  <1>4. CASE Handled
    <2>1. /\ refetch = {} /\ refetch' = recovery /\ recovery' = {} /\ todo = <<>>
          /\ writes' = <<>> /\ unwinds' = {}
          /\ UNCHANGED <<committed, probabilistic, todo>>
      BY <1>4, HandledIs
    <2>2. Awaited' = Awaited /\ Kept' = Kept /\ Node!Idle'
      BY <2>1 DEF Awaited, Kept, Node!Idle
    <2> QED BY <1>0, <2>1, <2>2 DEF NodeInv
  <1>5. CASE Recover
    <2>1. tip \in Block
      BY DEF BaseInv, FInv, FeedTypes
    <2>2. PICK anchor : /\ committed' = committed \ (OnChain(anchor) \ OnChain(tip))
                        /\ probabilistic' = probabilistic \ (OnChain(anchor) \ OnChain(tip))
                        /\ refetch' = {} /\ recovery' = {}
      BY <1>5, <2>1, RecoverIs
    <2>3. Kept' \subseteq Kept /\ Awaited' = {} /\ committed' \cap probabilistic' = {}
      BY <1>0, <2>2 DEF Kept, Awaited, NodeInv
    <2> QED BY <1>0, <2>2, <2>3 DEF NodeInv
  <1>6. CASE GiveUpRecovery
    <2>1. recovery' = {} /\ refetch' = {} /\ UNCHANGED <<committed, probabilistic>>
      BY <1>6 DEF GiveUpRecovery, nodeVars, Node!Idle
    <2> QED BY <1>0, <2>1 DEF NodeInv, Kept, Awaited
  <1> QED BY <1>1, <1>2, <1>3, <1>4, <1>5, <1>6
      DEF Next, DriverStep, LoopStep, ChannelClosed, Shutdown, TakeStep, vars,
          Advance, Dial, Connect, StreamEnds, AttemptFails, Disconnect, Read, Send, NoticeClosed,
          HangUp, Stop, Leave

LEMMA BaseStep ==
    ASSUME BaseInv, [Next]_vars
    PROVE  BaseInv'
  <1>1. FInv'
    BY StepInvariant DEF BaseInv
  <1> QED BY <1>1, QueueTypesStep, NodeStep DEF BaseInv

-------------------------------------------------------------------------------
(* What announcements and gaps say of a block.                               *)

LEMMA AnnouncementsSay ==
    ASSUME NEW o \in Block, NEW n \in Block, Rises(o, n), NEW told, told = Announcements(o, n)
    PROVE  /\ told \in Seq(Note)
           /\ \A b : b \notin OnChain(n) => Passing(b, told)
           /\ \A b \in OnChain(o) \ OnChain(n) : Retracted(b, told)
           /\ \A b \in OnChain(n) \cap OnChain(o) : AllThrough(b, told)
           /\ \A b \in OnChain(n) \ OnChain(o) : Announced(b, told)
  <1> PICK list : list = NewBlocks(o, n)
    OBVIOUS
  <1> PICK k : k = Len(list)
    OBVIOUS
  <1>1. /\ k \in Nat /\ DOMAIN list = 1..k /\ told \in Seq(UpMsg) /\ DOMAIN told = 1..(k + 1)
        /\ \A i \in 1..k : told[i] = Added(list[i])
        /\ told[k + 1] = Changed(o, n)
    BY AnnouncedIs DEF UpMsg
  <1>2. Range(list) = OnChain(n) \ OnChain(o)
    BY NewBlocksAre
  <1>3. \A i \in 1..k : list[i] \in OnChain(n) \ OnChain(o) /\ list[i] \in Block
    BY <1>1, <1>2, OnChainBlocks DEF Range
  <1>4. \A i \in DOMAIN told : i \in 1..k \/ i = k + 1
    BY <1>1
  <1>5. k + 1 \in DOMAIN told
    BY <1>1
  <1>6. told \in Seq(Note)
    <2>1. UpMsg \subseteq Note
      BY DEF Note
    <2> HIDE DEF UpMsg, Note
    <2> QED BY <1>1, <2>1
  <1>7. ASSUME NEW b, b \notin OnChain(n) PROVE Passing(b, told)
    <2>1. ASSUME NEW i \in DOMAIN told PROVE ~Mentions(b, told[i])
      <3>1. CASE i \in 1..k
        BY <1>1, <1>3, <1>7, <3>1, AddedSays
      <3>2. CASE i = k + 1
        BY <1>1, <1>7, <3>2, ChangedSays
      <3> QED BY <1>4, <3>1, <3>2
    <2> QED BY <2>1 DEF Passing
  <1>8. ASSUME NEW b \in OnChain(o) \ OnChain(n) PROVE Retracted(b, told)
    BY <1>1, <1>5, ChangedSays DEF Retracted
  <1>9. ASSUME NEW b \in OnChain(n) \cap OnChain(o) PROVE AllThrough(b, told)
    <2>1. \A x \in OnChain(n) \ OnChain(o) : b \in OnChain(x)
      BY SharedBelow
    <2>2. ASSUME NEW i \in DOMAIN told PROVE Through(b, told[i])
      <3>1. CASE i \in 1..k
        BY <1>1, <1>3, <2>1, <3>1, AddedSays
      <3>2. CASE i = k + 1
        BY <1>1, <2>1, <3>2, ChangedSays
      <3> QED BY <1>4, <3>1, <3>2
    <2> QED BY <2>2 DEF AllThrough
  <1>10. ASSUME NEW b \in OnChain(n) \ OnChain(o) PROVE Announced(b, told)
    <2>1. Brings(b, told[k + 1])
      BY <1>1, ChangedSays
    <2>2. \A j \in DOMAIN told : ~(j > k + 1)
      BY <1>1
    <2> QED BY <1>5, <2>1, <2>2 DEF Announced
  <1> QED BY <1>6, <1>7, <1>8, <1>9, <1>10

LEMMA GapsSay ==
    ASSUME NEW gap \in Seq(GapMsg), NEW b
    PROVE  AllThrough(b, gap) /\ ~Retracted(b, gap) /\ Passing(b, gap)
  <1>1. \A i \in DOMAIN gap : gap[i] \in GapMsg
    <2> HIDE DEF GapMsg
    <2> QED OBVIOUS
  <1> QED BY <1>1, GapIs DEF AllThrough, Retracted, Passing

LEMMA NotesConcat ==
    ASSUME NEW p \in Seq(Note), NEW q \in Seq(Note), NEW r, r = p \o q, NEW b
    PROVE  /\ AllThrough(b, r) <=> AllThrough(b, p) /\ AllThrough(b, q)
           /\ Announced(b, r) <=> Announced(b, q) \/ (Announced(b, p) /\ AllThrough(b, q))
           /\ Retracted(b, r) <=> Retracted(b, p) \/ Retracted(b, q)
           /\ Passing(b, r) <=> Passing(b, q) /\ (Retracted(b, q) \/ Passing(b, p))
  BY QueueConcat

\* Its two halves, what is brought and what is taken away.
LEMMA BroughtConcat ==
    ASSUME NEW p \in Seq(Note), NEW q \in Seq(Note), NEW r, r = p \o q, NEW b
    PROVE  /\ AllThrough(b, r) <=> AllThrough(b, p) /\ AllThrough(b, q)
           /\ Announced(b, r) <=> Announced(b, q) \/ (Announced(b, p) /\ AllThrough(b, q))
  BY NotesConcat

LEMMA RemovedConcat ==
    ASSUME NEW p \in Seq(Note), NEW q \in Seq(Note), NEW r, r = p \o q, NEW b
    PROVE  /\ Retracted(b, r) <=> Retracted(b, p) \/ Retracted(b, q)
           /\ Passing(b, r) <=> Passing(b, q) /\ (Retracted(b, q) \/ Passing(b, p))
  BY NotesConcat

\* Where a message that is read goes.
LEMMA ReadQueue ==
    ASSUME BaseInv, Read, NEW gap \in Seq(GapMsg), outbox' = gap \o <<Head(wire)>>, NEW b
    PROVE  /\ Emitted' \in Seq(Note) /\ Queue' \in Seq(Note) /\ Tail(wire) \in Seq(Note)
           /\ Emitted' = Emitted \o outbox' /\ Queue' = Emitted' \o Tail(wire)
           /\ Announced(b, outbox')
                <=> Brings(b, Head(wire)) \/ (Announced(b, gap) /\ Through(b, Head(wire)))
           /\ AllThrough(b, outbox') <=> Through(b, Head(wire))
           /\ AllThrough(b, wire) <=> Through(b, Head(wire)) /\ AllThrough(b, Tail(wire))
           /\ Announced(b, wire)
                <=> Announced(b, Tail(wire)) \/ (Brings(b, Head(wire)) /\ AllThrough(b, Tail(wire)))
           /\ AllThrough(b, Queue') <=> AllThrough(b, Queue)
           /\ Retracted(b, Queue') <=> Retracted(b, Queue)
           /\ Passing(b, Queue') <=> Passing(b, Queue)
  <1> PICK m, rest, e, q : m = Head(wire) /\ rest = Tail(wire) /\ e = Emitted' /\ q = Queue'
    OBVIOUS
  <1>0. QueueTypes
    BY DEF BaseInv
  <1>1. /\ wire # <<>> /\ m \in UpMsg /\ rest \in Seq(UpMsg) /\ wire' = rest /\ outbox = <<>>
        /\ channel' = channel
    BY ReadIs
  <1>2. /\ Emitted \in Seq(Note) /\ Queue \in Seq(Note) /\ wire \in Seq(Note)
        /\ channel \in Seq(Note)
    BY <1>0, QueueIs DEF QueueTypes
  <1>3. m \in Note /\ gap \in Seq(Note) /\ rest \in Seq(Note) /\ outbox' \in Seq(Note)
    <2>1. UpMsg \subseteq Note /\ GapMsg \subseteq Note
      BY DEF Note
    <2> HIDE DEF UpMsg, GapMsg, Note
    <2> QED BY <1>1, <2>1
  <1> HIDE DEF Note, UpMsg, GapMsg
  <1>4. Emitted = channel
    BY <1>1, <1>2 DEF Emitted
  <1>5. e = Emitted \o outbox' /\ q = e \o rest
    BY <1>1, <1>4 DEF Emitted, Queue
  <1>6. e \in Seq(Note) /\ q \in Seq(Note)
    BY <1>2, <1>3, <1>5
  <1>7. AllThrough(b, gap) /\ ~Retracted(b, gap) /\ Passing(b, gap)
    BY GapsSay DEF GapMsg
  <1>8. <<m>> \in Seq(Note)
    BY <1>3
  <1> PICK out, old : out = outbox' /\ old = Emitted
    OBVIOUS
  <1>9. /\ Announced(b, out) <=> Brings(b, m) \/ (Announced(b, gap) /\ Through(b, m))
        /\ AllThrough(b, out) <=> Through(b, m)
        /\ Retracted(b, out) <=> Removes(b, m)
        /\ Passing(b, out) <=> ~Mentions(b, m)
    <2>1. gap \in Seq(Note) /\ <<m>> \in Seq(Note) /\ out = gap \o <<m>>
      BY <1>3, <1>8
    <2>2. /\ AllThrough(b, out) <=> AllThrough(b, gap) /\ AllThrough(b, <<m>>)
          /\ Announced(b, out) <=> Announced(b, <<m>>) \/ (Announced(b, gap) /\ AllThrough(b, <<m>>))
          /\ Retracted(b, out) <=> Retracted(b, gap) \/ Retracted(b, <<m>>)
          /\ Passing(b, out) <=> Passing(b, <<m>>) /\ (Retracted(b, <<m>>) \/ Passing(b, gap))
      BY ONLY <2>1, NotesConcat
    <2>3. /\ AllThrough(b, <<m>>) <=> Through(b, m)
          /\ Announced(b, <<m>>) <=> Brings(b, m)
          /\ Retracted(b, <<m>>) <=> Removes(b, m)
          /\ Passing(b, <<m>>) <=> ~Mentions(b, m)
      BY ONLY OneMessage
    <2> QED BY <1>7, <2>2, <2>3
  <1>10. /\ AllThrough(b, wire) <=> Through(b, m) /\ AllThrough(b, rest)
         /\ Announced(b, wire) <=> Announced(b, rest) \/ (Brings(b, m) /\ AllThrough(b, rest))
         /\ Retracted(b, wire) <=> Removes(b, m) \/ Retracted(b, rest)
         /\ Passing(b, wire) <=> Passing(b, rest) /\ (Retracted(b, rest) \/ ~Mentions(b, m))
    BY <1>1, <1>2, QueueHead
  <1>11. /\ AllThrough(b, Queue) <=> AllThrough(b, Emitted) /\ AllThrough(b, wire)
         /\ Retracted(b, Queue) <=> Retracted(b, Emitted) \/ Retracted(b, wire)
         /\ Passing(b, Queue) <=> Passing(b, wire) /\ (Retracted(b, wire) \/ Passing(b, Emitted))
    BY <1>2, NotesConcat DEF Queue
  <1>12. /\ AllThrough(b, e) <=> AllThrough(b, old) /\ AllThrough(b, out)
         /\ Retracted(b, e) <=> Retracted(b, old) \/ Retracted(b, out)
         /\ Passing(b, e) <=> Passing(b, out) /\ (Retracted(b, out) \/ Passing(b, old))
    <2>1. old \in Seq(Note) /\ out \in Seq(Note) /\ e = old \o out
      BY <1>2, <1>3, <1>5
    <2> QED BY ONLY <2>1, NotesConcat
  <1>13. /\ AllThrough(b, q) <=> AllThrough(b, e) /\ AllThrough(b, rest)
         /\ Retracted(b, q) <=> Retracted(b, e) \/ Retracted(b, rest)
         /\ Passing(b, q) <=> Passing(b, rest) /\ (Retracted(b, rest) \/ Passing(b, e))
    <2>1. e \in Seq(Note) /\ rest \in Seq(Note) /\ q = e \o rest
      BY <1>3, <1>5, <1>6
    <2> QED BY ONLY <2>1, NotesConcat
  <1> QED BY <1>3, <1>5, <1>6, <1>9, <1>10, <1>11, <1>12, <1>13

-------------------------------------------------------------------------------
(* The link.                                                                 *)

\* Without a connection nothing is on the wire, and the next one is checked for a gap.
LinkInv ==
    open => /\ link # "up" => wire = <<>>
            /\ link \in {"down", "connecting"} /\ last # -1 => gapCheck

LEMMA LinkInvStep ==
    ASSUME LinkInv, [Next]_vars
    PROVE  LinkInv'
  <1>1. CASE Advance
    BY <1>1 DEF LinkInv, Advance, driverVars
  <1>2. CASE Dial \/ Connect \/ StreamEnds
    BY <1>2 DEF LinkInv, Dial, Connect, StreamEnds, Disconnect
  <1>6. CASE AttemptFails
    BY <1>6 DEF LinkInv, AttemptFails, Disconnect
  <1>3. CASE Read
    BY <1>3 DEF LinkInv, Read
  <1>4. CASE Send \/ UNCHANGED vars
    BY <1>4 DEF LinkInv, Send, vars, driverVars
  <1>7. CASE NoticeClosed \/ Stop \/ Leave
    BY <1>7 DEF LinkInv, NoticeClosed, HangUp, Stop, Leave
  <1>5. CASE LoopStep /\ ~ChannelClosed
    <2>1. UNCHANGED Unhandled
      BY <1>5 DEF LoopStep, TakeBlock, TakeChainChange, TakeGap, Take, ApplyBlock, Handled,
                  Recover, GiveUpRecovery
    <2> QED BY <2>1 DEF LinkInv, Unhandled, driverVars
  <1> QED BY <1>1, <1>2, <1>3, <1>4, <1>5, <1>6, <1>7
      DEF Next, DriverStep, LoopStep, ChannelClosed, Shutdown

-------------------------------------------------------------------------------
(* Blocks that have left the selected chain.                                 *)

\* The node forgets whatever the selected chain no longer holds: a message that
\* removes it is queued behind everything that brings it.
StaleInv ==
    open => \A c \in Block \ OnChain(tip) :
                Passing(c, Queue) /\ (c \in Known => Retracted(c, Queue))

\* What the node knows after taking a message.
LEMMA TakeKnown ==
    ASSUME BaseInv, TakeStep, NEW m, m = Head(channel), NEW c \in Known'
    PROVE  Mentions(c, m) \/ (c \in Known /\ ~Removes(c, m))
  <1>1. /\ todo = <<>>
        /\ (TakeBlock => \E x \in Block :
             /\ m = Added(x) /\ todo' = <<[block |-> x, final |-> FALSE]>>
             /\ UNCHANGED <<committed, probabilistic, recovery>>)
        /\ (TakeChainChange => \E o, n \in Block :
             /\ m = Changed(o, n) /\ Rises(o, n)
             /\ committed' = committed \ m.removed
             /\ probabilistic' = probabilistic \ m.removed
             /\ todo' = NotFinal(m.blocks) /\ UNCHANGED recovery)
        /\ (TakeGap =>
             /\ m \in GapMsg
             /\ UNCHANGED <<committed, probabilistic, todo>>)
    BY HeadNote
  <1>2. CASE TakeBlock
    <2>1. PICK x \in Block : /\ m = Added(x) /\ todo' = <<[block |-> x, final |-> FALSE]>>
                             /\ UNCHANGED <<committed, probabilistic, recovery>>
      BY <1>1, <1>2
    <2>2. TodoBlocks' = {x}
      BY <2>1 DEF TodoBlocks
    <2> QED BY <2>1, <2>2, AddedSays DEF Known
  <1>3. CASE TakeChainChange
    <2>1. PICK o \in Block, n \in Block :
             /\ m = Changed(o, n) /\ Rises(o, n)
             /\ committed' = committed \ m.removed
             /\ probabilistic' = probabilistic \ m.removed
             /\ todo' = NotFinal(m.blocks) /\ UNCHANGED recovery
      BY <1>1, <1>3
    <2>2. /\ m.blocks \in Seq(Block) /\ Range(m.blocks) = OnChain(n) \ OnChain(o)
          /\ m.removed = OnChain(o) \ OnChain(n)
          /\ \A p, q \in DOMAIN m.blocks : p < q => m.blocks[p] \in OnChain(m.blocks[q])
      BY <2>1, ChangeIs, NewBlocksAre
    <2> PICK blocks : blocks = m.blocks
      OBVIOUS
    <2> PICK list : list = todo'
      OBVIOUS
    <2>3. {list[i].block : i \in DOMAIN list} = Range(blocks)
      BY <2>1, <2>2, DueInOrder
    <2>4. TodoBlocks' = OnChain(n) \ OnChain(o)
      BY <2>2, <2>3 DEF TodoBlocks
    <2> QED BY <2>1, <2>2, <2>4, ChangedSays DEF Known
  <1>4. CASE TakeGap
    <2>1. Known' = Known
      BY <1>1, <1>4 DEF Known, TodoBlocks
    <2> QED BY <1>1, <1>4, <2>1, GapIs
  <1> QED BY <1>2, <1>3, <1>4 DEF TakeStep

LEMMA ApplyKnown ==
    ASSUME BaseInv, ApplyBlock
    PROVE  Known' \subseteq Known
  <1>1. /\ todo \in Seq(Entry) /\ todo # <<>> /\ todo' = Tail(todo)
        /\ Kept' \subseteq Kept \cup {todo[1].block}
    BY ApplyIs
  <1>2. 1 \in DOMAIN todo /\ \A j \in DOMAIN todo' : j + 1 \in DOMAIN todo /\ todo'[j] = todo[j + 1]
    <2> HIDE DEF Entry
    <2> QED BY <1>1, TailIndex
  <1> QED BY <1>1, <1>2 DEF Known, Kept, TodoBlocks

LEMMA RecoverKnown ==
    ASSUME BaseInv, Recover
    PROVE  Known' \subseteq Known \cup OnChain(tip)
  <1>0. tip \in Block
    BY DEF BaseInv, FInv, FeedTypes
  <1>1. PICK r \in refetch, anchor \in Kept, blocks \in Seq(Block) :
            /\ Range(blocks) = {b \in OnChain(tip) \ OnChain(anchor) : DaaScore[b] \in r[1] .. r[2]}
            /\ \A p, q \in DOMAIN blocks : p < q => blocks[p] \in OnChain(blocks[q])
            /\ todo' = NotFinal(blocks)
            /\ committed' = committed \ (OnChain(anchor) \ OnChain(tip))
            /\ probabilistic' = probabilistic \ (OnChain(anchor) \ OnChain(tip))
    BY <1>0, RecoverIs
  <1> PICK list : list = todo'
    OBVIOUS
  <1>2. {list[i].block : i \in DOMAIN list} = Range(blocks)
    BY <1>1, DueInOrder
  <1> QED BY <1>1, <1>2 DEF Known, TodoBlocks

LEMMA StaleStep ==
    ASSUME HiddenReorgs = FALSE, BaseInv, LinkInv, StaleInv, [Next]_vars
    PROVE  StaleInv'
  <1> SUFFICES ASSUME open', NEW c \in Block, c \notin OnChain(tip')
               PROVE  Passing(c, Queue') /\ (c \in Known' => Retracted(c, Queue'))
    BY DEF StaleInv
  <1>0. /\ QueueTypes /\ tip \in Block /\ open
        /\ Emitted \in Seq(Note) /\ Queue \in Seq(Note) /\ wire \in Seq(Note)
    <2>1. QueueTypes /\ tip \in Block
      BY DEF BaseInv, FInv, FeedTypes
    <2>2. open
      BY DEF Next, DriverStep, LoopStep, ChannelClosed, Shutdown, TakeBlock, TakeChainChange, TakeGap,
             Take, ApplyBlock, Handled, Recover, GiveUpRecovery, Leave, Advance, Dial, Connect,
             Send, Read, StreamEnds, AttemptFails, Disconnect, NoticeClosed, HangUp, Stop, vars
    <2> QED BY <2>1, <2>2, QueueIs
  <1>1. c \notin OnChain(tip) => Passing(c, Queue) /\ (c \in Known => Retracted(c, Queue))
    BY <1>0 DEF StaleInv
  <1>2. CASE UNCHANGED tip /\ Queue' = Queue /\ Known' \subseteq Known \cup OnChain(tip)
    BY <1>1, <1>2
  <1>3. CASE Advance
    <2>1. PICK t \in Block : /\ DaaScore[t] > DaaScore[tip]
                             /\ link = "up" \/ OnChain(tip) \subseteq OnChain(t)
                             /\ tip' = t
                             /\ wire' = IF link = "up" THEN wire \o Announcements(tip, t) ELSE wire
      BY <1>3 DEF Advance
    <2>2. Known' = Known /\ Emitted' = Emitted
      BY <1>3 DEF Advance, nodeVars, Known, TodoBlocks, Emitted
    <2>3. CASE link = "up"
      <3> PICK told : told = Announcements(tip, t)
        OBVIOUS
      <3>1. Rises(tip, t)
        BY <1>0, <2>1, ScoreIs DEF Rises
      <3>2. /\ told \in Seq(Note) /\ Passing(c, told)
            /\ c \in OnChain(tip) => Retracted(c, told)
        BY <1>0, <2>1, <3>1, AnnouncementsSay
      <3> PICK e, w, v, q : e = Emitted /\ w = wire /\ v = wire' /\ q = Queue'
        OBVIOUS
      <3> HIDE DEF Note
      <3>3. /\ v = w \o told /\ q = e \o v /\ Queue = e \o w
            /\ e \in Seq(Note) /\ w \in Seq(Note) /\ v \in Seq(Note)
        BY <1>0, <2>1, <2>2, <2>3, <3>2 DEF Queue
      <3>4. /\ Retracted(c, v) <=> Retracted(c, w) \/ Retracted(c, told)
            /\ Passing(c, v) <=> Passing(c, told) /\ (Retracted(c, told) \/ Passing(c, w))
        <4>1. w \in Seq(Note) /\ told \in Seq(Note) /\ v = w \o told
          BY ONLY <3>2, <3>3
        <4> QED BY ONLY <4>1, RemovedConcat
      <3>5. /\ Retracted(c, q) <=> Retracted(c, e) \/ Retracted(c, v)
            /\ Passing(c, q) <=> Passing(c, v) /\ (Retracted(c, v) \/ Passing(c, e))
        <4>1. e \in Seq(Note) /\ v \in Seq(Note) /\ q = e \o v
          BY ONLY <3>3
        <4> QED BY ONLY <4>1, RemovedConcat
      <3>6. /\ Retracted(c, Queue) <=> Retracted(c, e) \/ Retracted(c, w)
            /\ Passing(c, Queue) <=> Passing(c, w) /\ (Retracted(c, w) \/ Passing(c, e))
        <4>1. e \in Seq(Note) /\ w \in Seq(Note) /\ Queue = e \o w
          BY ONLY <3>3
        <4> QED BY ONLY <4>1, RemovedConcat
      <3> QED BY <1>1, <2>2, <3>2, <3>4, <3>5, <3>6
    <2>4. CASE link # "up"
      <3>1. Queue' = Queue /\ c \notin OnChain(tip)
        BY <2>1, <2>2, <2>4 DEF Queue
      <3> QED BY <1>1, <2>2, <3>1
    <2> QED BY <2>3, <2>4
  <1>4. CASE StreamEnds \/ AttemptFails
    <2>1. /\ Disconnect /\ outbox' = outbox /\ channel' = channel /\ wire' = <<>>
          /\ UNCHANGED tip /\ Known' = Known /\ \A i \in DOMAIN wire : wire[i].removed = {}
      BY <1>4 DEF StreamEnds, AttemptFails, Disconnect, nodeVars, chainVars, Known, TodoBlocks
    <2>2. Emitted' = Emitted
      BY <2>1 DEF Emitted
    <2>3. Queue' = Emitted
      <3> HIDE DEF Note
      <3> QED BY <1>0, <2>1, <2>2 DEF Queue
    <2>4. ~Retracted(c, wire)
      BY <2>1 DEF Retracted, Removes
    <2>5. /\ Retracted(c, Queue) <=> Retracted(c, Emitted) \/ Retracted(c, wire)
          /\ Passing(c, Queue) <=> Passing(c, wire) /\ (Retracted(c, wire) \/ Passing(c, Emitted))
      BY <1>0, NotesConcat DEF Queue
    <2> QED BY <1>1, <2>1, <2>3, <2>4, <2>5
  <1>5. CASE Read
    <2> PICK m, rest, e, q : m = Head(wire) /\ rest = Tail(wire) /\ e = Emitted' /\ q = Queue'
      OBVIOUS
    <2>1. PICK gap \in Seq(GapMsg) : outbox' = gap \o <<m>>
      BY <1>5, ReadIs
    <2>2. (Retracted(c, q) <=> Retracted(c, Queue)) /\ (Passing(c, q) <=> Passing(c, Queue))
      BY <1>5, <2>1, ReadQueue
    <2>3. UNCHANGED tip /\ Known' = Known
      BY <1>5 DEF Read, nodeVars, chainVars, Known, TodoBlocks
    <2> QED BY <1>1, <2>2, <2>3
  <1>6. CASE Send
    <2>1. Queue' = Queue
      BY <1>0, <1>6, QueueSent
    <2>2. UNCHANGED tip /\ Known' = Known
      BY <1>6 DEF Send, nodeVars, chainVars, Known, TodoBlocks
    <2> QED BY <1>2, <2>1, <2>2
  <1>7. CASE TakeStep
    <2> PICK m, q : m = Head(channel) /\ q = Queue'
      OBVIOUS
    <2>1. /\ channel # <<>> /\ channel' = Tail(channel)
          /\ UNCHANGED <<tip, outbox, wire>>
      BY <1>7, HeadNote DEF chainVars
    <2>2. Queue # <<>> /\ Head(Queue) = m /\ q = Tail(Queue)
      BY <1>0, <2>1, QueueTaken
    <2>3. /\ Retracted(c, Queue) <=> Removes(c, m) \/ Retracted(c, q)
          /\ Passing(c, Queue) <=> Passing(c, q) /\ (Retracted(c, q) \/ ~Mentions(c, m))
      BY <1>0, <2>2, QueueHead
    <2>4. c \in Known' => Mentions(c, m) \/ (c \in Known /\ ~Removes(c, m))
      BY <1>7, TakeKnown
    <2> QED BY <1>1, <2>1, <2>3, <2>4
  <1>8. CASE ApplyBlock
    <2>1. Known' \subseteq Known
      BY <1>8, ApplyKnown
    <2> QED BY <1>2, <1>8, <2>1 DEF ApplyBlock, Unhandled, chainVars, Queue, Emitted
  <1>9. CASE Recover
    <2>1. Known' \subseteq Known \cup OnChain(tip)
      BY <1>9, RecoverKnown
    <2> QED BY <1>2, <1>9, <2>1 DEF Recover, Unhandled, chainVars, Queue, Emitted
  <1>10. CASE Handled
    <2>1. Known' = Known
      BY <1>10, HandledIs DEF Known, TodoBlocks
    <2> QED BY <1>2, <1>10, <2>1 DEF Handled, Unhandled, chainVars, Queue, Emitted
  <1>11. CASE Dial \/ Connect \/ GiveUpRecovery \/ UNCHANGED vars
    <2>1. UNCHANGED <<nodeVars, tip, wire, outbox, channel>>
      BY <1>11 DEF Dial, Connect, GiveUpRecovery, Unhandled, vars, chainVars
    <2>2. Known' = Known /\ Queue' = Queue
      BY <2>1 DEF nodeVars, Known, TodoBlocks, Queue, Emitted
    <2> QED BY <1>2, <2>1, <2>2
  <1>12. ~Leave /\ ~NoticeClosed /\ ~Stop
    BY <1>0 DEF Leave, NoticeClosed, Stop
  <1> QED BY <1>3, <1>4, <1>5, <1>6, <1>7, <1>8, <1>9, <1>10, <1>11, <1>12
      DEF Next, DriverStep, LoopStep, ChannelClosed, Shutdown, TakeStep

-------------------------------------------------------------------------------
(* The scores on the wire.                                                   *)

\* From an index on, nothing on the wire removes a block.
Plain(w, i) == \A j \in DOMAIN w : j >= i => w[j].removed = {}

\* An announced block is new: what comes before it lies below, and what comes after
\* it below its score has been announced before.
BlockPlace(w, t, l, i, x) ==
    /\ x \in OnChain(t) /\ DaaScore[x] > l
    /\ \A j \in DOMAIN w : \A b \in Range(w[j].blocks) :
        /\ j < i => DaaScore[b] < DaaScore[x]
        /\ j > i /\ DaaScore[b] < DaaScore[x] =>
            DaaScore[b] <= l \/ \E k \in DOMAIN w : k < i /\ b \in Range(w[k].blocks)

\* The tip a change announces parts the scores on the wire.
ChangePlace(w, l, i, n) ==
    /\ l <= DaaScore[n]
    /\ \A j \in DOMAIN w : \A b \in Range(w[j].blocks) :
        /\ j <= i => DaaScore[b] <= DaaScore[n]
        /\ j > i => DaaScore[b] > DaaScore[n]

\* Messages up to the last that removes a block may be in any order: the connection
\* does not end before they are read.
WireOrder(w, t, l) ==
    /\ l <= DaaScore[t]
    /\ \A i \in DOMAIN w : \A b \in Range(w[i].blocks) : DaaScore[b] <= DaaScore[t]
    /\ \A i \in DOMAIN w : \A x \in Block :
        w[i] = Added(x) /\ Plain(w, i) => BlockPlace(w, t, l, i, x)
    /\ \A i \in DOMAIN w : w[i].kind = "chain" /\ Plain(w, i + 1) =>
        \E n \in OnChain(t) : n \in Range(w[i].blocks) /\ ChangePlace(w, l, i, n)

LEMMA WireEmpty ==
    ASSUME NEW t \in Block, NEW l, l <= DaaScore[t], NEW w, w = <<>>
    PROVE  WireOrder(w, t, l)
  <1>1. DOMAIN w = {}
    OBVIOUS
  <1> QED BY <1>1 DEF WireOrder

LEMMA WireBlocks ==
    ASSUME NEW w \in Seq(UpMsg), NEW i \in DOMAIN w
    PROVE  w[i] \in UpMsg /\ \A b \in Range(w[i].blocks) : b \in Block /\ DaaScore[b] \in Nat
  <1>1. w[i] \in UpMsg
    <2> HIDE DEF UpMsg
    <2> QED OBVIOUS
  <1> QED BY <1>1, UpMsgIs, ScoreIs

\* The first message is read: the scores read move below the others.
LEMMA WireRead ==
    ASSUME NEW w \in Seq(UpMsg), w # <<>>, NEW t \in Block, NEW l \in Nat \cup {-1},
           WireOrder(w, t, l), NEW v, v = Tail(w),
           NEW k, k \in Scores(Head(w)) \cup {l}, l <= k, \A s \in Scores(Head(w)) : s <= k
    PROVE  WireOrder(v, t, k)
  <1>1. /\ v \in Seq(UpMsg) /\ 1 \in DOMAIN w /\ w[1] = Head(w)
        /\ \A j \in DOMAIN v : j + 1 \in DOMAIN w /\ v[j] = w[j + 1]
        /\ \A i \in DOMAIN w : i = 1 \/ \E j \in DOMAIN v : i = j + 1
        /\ DOMAIN w \subseteq Nat \ {0} /\ DOMAIN v \subseteq Nat \ {0}
    <2>1. w \in Seq(UpMsg) /\ w # <<>> /\ v = Tail(w)
      OBVIOUS
    <2> HIDE DEF UpMsg
    <2> QED BY ONLY <2>1, TailIndex
  <1>2. \A i \in DOMAIN w : \A b \in Range(w[i].blocks) : b \in Block /\ DaaScore[b] \in Nat
    BY WireBlocks
  <1>3. Scores(w[1]) = {DaaScore[b] : b \in Range(w[1].blocks)}
    BY DEF Scores
  <1>4. \A b \in Range(w[1].blocks) : DaaScore[b] <= k
    BY <1>1, <1>3
  <1>5. k = l \/ \E b \in Range(w[1].blocks) : k = DaaScore[b]
    BY <1>1, <1>3
  <1>6. k \in Nat \cup {-1}
    BY <1>1, <1>2, <1>5
  <1>7. \A i \in DOMAIN v : Plain(v, i) => Plain(w, i + 1)
    <2> SUFFICES ASSUME NEW i \in DOMAIN v, Plain(v, i), NEW j \in DOMAIN w, j >= i + 1
                 PROVE  w[j].removed = {}
      BY DEF Plain
    <2>0. i \in Nat /\ i > 0 /\ j \in Nat
      BY <1>1
    <2>3. j # 1
      BY <2>0
    <2>1. PICK p \in DOMAIN v : j = p + 1
      BY <1>1, <2>3
    <2>2. p >= i
      BY <1>1, <2>1
    <2> QED BY <1>1, <2>1, <2>2 DEF Plain
  <1>8. \A i \in DOMAIN v : Plain(v, i + 1) => Plain(w, (i + 1) + 1)
    <2> SUFFICES ASSUME NEW i \in DOMAIN v, Plain(v, i + 1), NEW j \in DOMAIN w, j >= (i + 1) + 1
                 PROVE  w[j].removed = {}
      BY DEF Plain
    <2>0. i \in Nat /\ i > 0 /\ j \in Nat
      BY <1>1
    <2>3. j # 1
      BY <2>0
    <2>1. PICK p \in DOMAIN v : j = p + 1
      BY <1>1, <2>3
    <2>2. p >= i + 1
      BY <1>1, <2>1
    <2> QED BY <1>1, <2>1, <2>2 DEF Plain
  <1>9. k <= DaaScore[t]
    BY <1>1, <1>5 DEF WireOrder
  <1>10. \A i \in DOMAIN v : \A b \in Range(v[i].blocks) : DaaScore[b] <= DaaScore[t]
    BY <1>1 DEF WireOrder
  <1>11. ASSUME NEW i \in DOMAIN v, NEW x \in Block, v[i] = Added(x), Plain(v, i)
         PROVE  BlockPlace(v, t, k, i, x)
    <2>1. i + 1 \in DOMAIN w /\ w[i + 1] = Added(x) /\ Plain(w, i + 1)
      BY <1>1, <1>7, <1>11
    <2>2. BlockPlace(w, t, l, i + 1, x)
      BY <2>1 DEF WireOrder
    <2>3. x \in OnChain(t) /\ DaaScore[x] > l /\ DaaScore[x] \in Nat /\ 1 < i + 1 /\ i \in Nat
      BY <1>1, <2>2, ScoreIs DEF BlockPlace
    <2>4. \A b \in Range(w[1].blocks) : DaaScore[b] < DaaScore[x]
      BY <1>1, <2>2, <2>3 DEF BlockPlace
    <2>5. DaaScore[x] > k
      BY <1>1, <1>2, <1>5, <2>3, <2>4
    <2>6. ASSUME NEW j \in DOMAIN v, NEW b \in Range(v[j].blocks), j < i
          PROVE  DaaScore[b] < DaaScore[x]
      <3>1. j + 1 \in DOMAIN w /\ b \in Range(w[j + 1].blocks) /\ j + 1 < i + 1
        BY <1>1, <2>3, <2>6
      <3> QED BY <2>2, <3>1 DEF BlockPlace
    <2>7. ASSUME NEW j \in DOMAIN v, NEW b \in Range(v[j].blocks), j > i, DaaScore[b] < DaaScore[x]
          PROVE  DaaScore[b] <= k \/ \E p \in DOMAIN v : p < i /\ b \in Range(v[p].blocks)
      <3>1. j + 1 \in DOMAIN w /\ b \in Range(w[j + 1].blocks) /\ j + 1 > i + 1
        BY <1>1, <2>3, <2>7
      <3>2. DaaScore[b] <= l \/ \E q \in DOMAIN w : q < i + 1 /\ b \in Range(w[q].blocks)
        BY <2>2, <2>7, <3>1 DEF BlockPlace
      <3>3. CASE DaaScore[b] <= l
        BY <1>2, <1>6, <3>1, <3>3
      <3>4. CASE \E q \in DOMAIN w : q < i + 1 /\ b \in Range(w[q].blocks)
        <4>1. PICK q \in DOMAIN w : q < i + 1 /\ b \in Range(w[q].blocks)
          BY <3>4
        <4>2. CASE q = 1
          BY <1>4, <4>1, <4>2
        <4>3. CASE \E p \in DOMAIN v : q = p + 1
          <5>1. PICK p \in DOMAIN v : q = p + 1
            BY <4>3
          <5>2. p < i /\ b \in Range(v[p].blocks)
            BY <1>1, <2>3, <4>1, <5>1
          <5> QED BY <5>2
        <4> QED BY <1>1, <4>2, <4>3
      <3> QED BY <3>2, <3>3, <3>4
    <2> QED BY <2>3, <2>5, <2>6, <2>7 DEF BlockPlace
  <1>12. ASSUME NEW i \in DOMAIN v, v[i].kind = "chain", Plain(v, i + 1)
         PROVE  \E n \in OnChain(t) : n \in Range(v[i].blocks) /\ ChangePlace(v, k, i, n)
    <2>1. i + 1 \in DOMAIN w /\ w[i + 1] = v[i] /\ Plain(w, (i + 1) + 1) /\ i \in Nat /\ 1 <= i + 1
      BY <1>1, <1>8, <1>12
    <2>2. PICK n \in OnChain(t) : n \in Range(v[i].blocks) /\ ChangePlace(w, l, i + 1, n)
      BY <1>12, <2>1 DEF WireOrder
    <2>3. k <= DaaScore[n]
      <3>1. l <= DaaScore[n] /\ \A b \in Range(w[1].blocks) : DaaScore[b] <= DaaScore[n]
        BY <1>1, <2>1, <2>2 DEF ChangePlace
      <3> QED BY <1>5, <3>1
    <2>4. ASSUME NEW j \in DOMAIN v, NEW b \in Range(v[j].blocks)
          PROVE  /\ j <= i => DaaScore[b] <= DaaScore[n]
                 /\ j > i => DaaScore[b] > DaaScore[n]
      <3>0. i \in Nat /\ j \in Nat
        BY <1>1
      <3>1. /\ j + 1 \in DOMAIN w /\ b \in Range(w[j + 1].blocks)
            /\ j <= i => j + 1 <= i + 1
            /\ j > i => j + 1 > i + 1
        BY <1>1, <2>4, <3>0, SMTT(30)
      <3> QED BY <2>2, <3>1 DEF ChangePlace
    <2> QED BY <2>2, <2>3, <2>4 DEF ChangePlace
  <1> QED BY <1>9, <1>10, <1>11, <1>12 DEF WireOrder

\* Upstream announces a heavier tip.
LEMMA WireAnnounced ==
    ASSUME NEW w \in Seq(UpMsg), NEW t \in Block, NEW l \in Nat \cup {-1}, WireOrder(w, t, l),
           NEW n \in Block, Rises(t, n), NEW told, told = Announcements(t, n),
           NEW v, v = w \o told
    PROVE  WireOrder(v, n, l)
  <1> PICK list : list = NewBlocks(t, n)
    OBVIOUS
  <1> PICK k, z : k = Len(list) /\ z = Len(w)
    OBVIOUS
  <1>1. /\ k \in Nat /\ DOMAIN list = 1..k /\ told \in Seq(UpMsg) /\ DOMAIN told = 1..(k + 1)
        /\ \A i \in 1..k : told[i] = Added(list[i])
        /\ told[k + 1] = Changed(t, n)
    BY AnnouncedIs DEF UpMsg
  <1>2. /\ Range(list) = OnChain(n) \ OnChain(t) /\ n \in Range(list)
        /\ \A p, q \in DOMAIN list : p < q => DaaScore[list[p]] < DaaScore[list[q]]
    BY NewBlocksAre
  <1>3. /\ z \in Nat
        /\ \A i \in DOMAIN w : i \in DOMAIN v /\ v[i] = w[i]
        /\ \A j \in DOMAIN told : z + j \in DOMAIN v /\ v[z + j] = told[j]
        /\ \A i \in DOMAIN v : i \in DOMAIN w \/ \E j \in DOMAIN told : i = z + j
        /\ \A i \in DOMAIN w, j \in DOMAIN told : i < z + j
        /\ DOMAIN w \subseteq Nat /\ DOMAIN v \subseteq Nat
    <2>1. w \in Seq(UpMsg) /\ told \in Seq(UpMsg) /\ v = w \o told /\ z = Len(w)
      BY <1>1
    <2> HIDE DEF UpMsg
    <2>2. \A i \in DOMAIN w : i \in DOMAIN v /\ v[i] = w[i]
      BY ONLY <2>1, ConcatIndex
    <2>3. \A j \in DOMAIN told : Len(w) + j \in DOMAIN v /\ v[Len(w) + j] = told[j]
      BY ONLY <2>1, ConcatIndex
    <2>4. ASSUME NEW i \in DOMAIN v, i \notin DOMAIN w
          PROVE  \E j \in DOMAIN told : i = Len(w) + j
      <3>1. i - Len(w) \in DOMAIN told /\ i = Len(w) + (i - Len(w))
        BY ONLY <2>1, <2>4
      <3> QED BY ONLY <3>1
    <2>5. \A i \in DOMAIN w, j \in DOMAIN told : i < Len(w) + j
      BY ONLY <2>1, ConcatIndex
    <2>6. DOMAIN w \subseteq Nat /\ DOMAIN v \subseteq Nat /\ Len(w) \in Nat
      BY ONLY <2>1, ConcatIndex
    <2> QED BY ONLY <2>1, <2>2, <2>3, <2>4, <2>5, <2>6
  <1>4. DaaScore[t] \in Nat /\ DaaScore[n] \in Nat /\ DaaScore[t] < DaaScore[n] /\ l <= DaaScore[t]
    BY ScoreIs DEF Rises, WireOrder
  <1>5. \A i \in 1..k : list[i] \in OnChain(n) \ OnChain(t) /\ list[i] \in Block /\ DaaScore[list[i]] \in Nat
    BY <1>1, <1>2, OnChainBlocks, ScoreIs, ZenonT(60) DEF Range
  <1>6. \A b \in OnChain(n) : b \in Block /\ DaaScore[b] \in Nat /\ DaaScore[b] <= DaaScore[n]
    BY <1>4, OnChainBlocks, OnChainRises, ScoreIs
  <1>7. \A i \in DOMAIN w : \A b \in Range(w[i].blocks) :
            b \in Block /\ DaaScore[b] \in Nat /\ DaaScore[b] <= DaaScore[t]
    BY WireBlocks DEF WireOrder
  \* What the announcements mention.
  <1>8. \A j \in DOMAIN told : \A b \in Range(told[j].blocks) : b \in OnChain(n) \ OnChain(t)
    <2> SUFFICES ASSUME NEW j \in DOMAIN told, NEW b \in Range(told[j].blocks)
                 PROVE  b \in OnChain(n) \ OnChain(t)
      OBVIOUS
    <2>1. CASE j \in 1..k
      <3>1. told[j].blocks = <<list[j]>>
        BY <1>1, <1>5, <2>1, AddedIs
      <3>2. Range(<<list[j]>>) = {list[j]}
        BY DEF Range
      <3> QED BY <1>5, <2>1, <3>1, <3>2
    <2>2. CASE j = k + 1
      BY <1>1, <2>2, ChangeIs
    <2> QED BY <1>1, <2>1, <2>2
  <1>9. \A i \in 1..k : list[i] \in Range(told[i].blocks) /\ i \in DOMAIN told
                        /\ \A b \in Range(told[i].blocks) : b = list[i]
    <2> SUFFICES ASSUME NEW i \in 1..k
                 PROVE  /\ list[i] \in Range(told[i].blocks) /\ i \in DOMAIN told
                        /\ \A b \in Range(told[i].blocks) : b = list[i]
      OBVIOUS
    <2>1. told[i].blocks = <<list[i]>>
      BY <1>1, <1>5, AddedIs
    <2>2. Range(<<list[i]>>) = {list[i]}
      BY DEF Range
    <2> QED BY <1>1, <2>1, <2>2, SMTT(30)
  <1>10. k + 1 \in DOMAIN told /\ \A j \in DOMAIN told : j \in 1..k \/ j = k + 1
    BY <1>1
  \* When the change removes nothing, everything new lies above the old tip.
  <1>11. ASSUME NEW i, \E j \in DOMAIN told : i <= z + j, Plain(v, i), i \in Int
         PROVE  OnChain(t) \subseteq OnChain(n) /\ \A b \in OnChain(n) \ OnChain(t) : DaaScore[b] > DaaScore[t]
    <2>1. i <= z + (k + 1)
      BY <1>1, <1>3, <1>11
    <2>2. z + (k + 1) \in DOMAIN v /\ v[z + (k + 1)] = Changed(t, n)
      BY <1>1, <1>3, <1>10
    <2>3. v[z + (k + 1)].removed = {}
      <3>1. z + (k + 1) >= i
        BY <1>1, <1>3, <1>11, <2>1
      <3> QED BY <1>11, <2>2, <3>1 DEF Plain
    <2>4. OnChain(t) \subseteq OnChain(n)
      BY <2>2, <2>3, ChangeIs, SMTT(30)
    <2>5. t \in OnChain(n) \cap OnChain(t)
      BY <2>4, OnChainBlocks
    <2>6. ASSUME NEW b \in OnChain(n) \ OnChain(t) PROVE DaaScore[b] > DaaScore[t]
      <3>1. DaaScore[t] < DaaScore[b]
        BY <2>5, SharedBelow
      <3> QED BY <1>4, <1>6, <3>1
    <2> QED BY <2>4, <2>6
  <1>12. \A i \in DOMAIN w : Plain(v, i) => Plain(w, i) /\ \E j \in DOMAIN told : i <= z + j
    BY <1>3, <1>10 DEF Plain
  <1>13. \A i \in DOMAIN w : Plain(v, i + 1) => Plain(w, i + 1) /\ \E j \in DOMAIN told : i + 1 <= z + j
    <2> SUFFICES ASSUME NEW i \in DOMAIN w, Plain(v, i + 1)
                 PROVE  Plain(w, i + 1) /\ \E j \in DOMAIN told : i + 1 <= z + j
      OBVIOUS
    <2>1. Plain(w, i + 1)
      BY <1>3 DEF Plain
    <2>2. i < z + (k + 1) /\ i \in Nat
      BY <1>3, <1>10
    <2>3. i + 1 <= z + (k + 1)
      BY <1>1, <1>3, <2>2
    <2> QED BY <1>10, <2>1, <2>3
  <1>14. \A i \in DOMAIN v : \A b \in Range(v[i].blocks) : DaaScore[b] <= DaaScore[n]
    <2> SUFFICES ASSUME NEW i \in DOMAIN v, NEW b \in Range(v[i].blocks)
                 PROVE  DaaScore[b] <= DaaScore[n]
      OBVIOUS
    <2>1. CASE i \in DOMAIN w
      BY <1>3, <1>4, <1>7, <2>1
    <2>2. CASE \E j \in DOMAIN told : i = z + j
      BY <1>3, <1>6, <1>8, <2>2
    <2> QED BY <1>3, <2>1, <2>2
  <1>15. ASSUME NEW i \in DOMAIN v, NEW x \in Block, v[i] = Added(x), Plain(v, i)
         PROVE  BlockPlace(v, n, l, i, x)
    <2>1. CASE i \in DOMAIN w
      <3>1. /\ w[i] = Added(x) /\ Plain(w, i) /\ OnChain(t) \subseteq OnChain(n)
            /\ \A b \in OnChain(n) \ OnChain(t) : DaaScore[b] > DaaScore[t]
        BY <1>3, <1>11, <1>12, <1>15, <2>1
      <3>2. BlockPlace(w, t, l, i, x)
        BY <2>1, <3>1 DEF WireOrder
      <3>3. x \in OnChain(n) /\ DaaScore[x] > l /\ DaaScore[x] <= DaaScore[t] /\ DaaScore[x] \in Nat
        <4>1. x \in Range(w[i].blocks)
          <5>1. Range(<<x>>) = {x}
            BY DEF Range
          <5> QED BY <3>1, <5>1, AddedIs
        <4> QED BY <1>7, <2>1, <3>1, <3>2, <4>1 DEF BlockPlace
      <3>4. ASSUME NEW j \in DOMAIN v, NEW b \in Range(v[j].blocks), j < i
            PROVE  DaaScore[b] < DaaScore[x]
        <4>1. j \in DOMAIN w
          <5> SUFFICES ASSUME NEW p \in DOMAIN told, j = z + p PROVE FALSE
            BY <1>3
          <5>1. i < j
            BY <1>3, <2>1
          <5> QED BY <1>3, <3>4, <5>1
        <4> QED BY <1>3, <3>2, <3>4, <4>1 DEF BlockPlace
      <3>5. ASSUME NEW j \in DOMAIN v, NEW b \in Range(v[j].blocks), j > i, DaaScore[b] < DaaScore[x]
            PROVE  DaaScore[b] <= l \/ \E p \in DOMAIN v : p < i /\ b \in Range(v[p].blocks)
        <4>1. CASE j \in DOMAIN w
          <5>1. DaaScore[b] <= l \/ \E p \in DOMAIN w : p < i /\ b \in Range(w[p].blocks)
            BY <1>3, <3>2, <3>5, <4>1 DEF BlockPlace
          <5> QED BY <1>3, <5>1
        <4>2. CASE \E p \in DOMAIN told : j = z + p
          <5>1. b \in OnChain(n) \ OnChain(t)
            BY <1>3, <1>8, <4>2
          <5>2. DaaScore[b] > DaaScore[t] /\ DaaScore[b] \in Nat
            BY <1>6, <3>1, <5>1
          <5> QED BY <1>4, <3>3, <3>5, <5>2
        <4> QED BY <1>3, <4>1, <4>2
      <3> SUFFICES ASSUME NEW j \in DOMAIN v, NEW b \in Range(v[j].blocks)
                   PROVE  /\ j < i => DaaScore[b] < DaaScore[x]
                          /\ j > i /\ DaaScore[b] < DaaScore[x] =>
                                \/ DaaScore[b] <= l
                                \/ \E p \in DOMAIN v : p < i /\ b \in Range(v[p].blocks)
        BY <3>3 DEF BlockPlace
      <3> QED BY <3>4, <3>5, ZenonT(60)
    <2>2. CASE \E p \in 1..k : i = z + p
      <3>1. PICK p \in 1..k : i = z + p
        BY <2>2
      <3>2. /\ OnChain(t) \subseteq OnChain(n)
            /\ \A b \in OnChain(n) \ OnChain(t) : DaaScore[b] > DaaScore[t]
        <4>1. p \in DOMAIN told /\ i <= z + p /\ i \in Int
          BY <1>3, <1>9, <3>1
        <4> QED BY <1>11, <1>15, <4>1
      <3>3. v[i] = Added(list[p]) /\ x = list[p]
        <4>1. v[i] = Added(list[p])
          BY <1>1, <1>3, <1>9, <3>1
        <4>2. <<x>> = <<list[p]>>
          BY <1>5, <1>15, <4>1, AddedIs
        <4> QED BY <4>1, <4>2
      <3>4. x \in OnChain(n) /\ DaaScore[x] > DaaScore[t] /\ DaaScore[x] > l /\ DaaScore[x] \in Nat
        BY <1>4, <1>5, <3>2, <3>3
      <3>5. ASSUME NEW j \in DOMAIN v, NEW b \in Range(v[j].blocks), j < i
            PROVE  DaaScore[b] < DaaScore[x]
        <4>1. CASE j \in DOMAIN w
          <5>1. DaaScore[b] <= DaaScore[t] /\ DaaScore[b] \in Nat
            BY <1>3, <1>7, <4>1
          <5> QED BY <1>4, <3>4, <5>1
        <4>2. CASE \E q \in DOMAIN told : j = z + q
          <5>1. PICK q \in DOMAIN told : j = z + q
            BY <4>2
          <5>2. q < p /\ q \in 1..k
            BY <1>1, <1>3, <3>1, <3>5, <5>1, SMTT(30)
          <5>3. b = list[q]
            BY <1>3, <1>9, <5>1, <5>2
          <5> QED BY <1>1, <1>2, <3>3, <5>2, <5>3
        <4> QED BY <1>3, <4>1, <4>2
      <3>6. ASSUME NEW j \in DOMAIN v, NEW b \in Range(v[j].blocks), j > i, DaaScore[b] < DaaScore[x]
            PROVE  \E q \in DOMAIN v : q < i /\ b \in Range(v[q].blocks)
        <4>1. j \notin DOMAIN w
          <5>1. j \in DOMAIN w => j < i
            BY <1>3, <1>9, <3>1
          <5> QED BY <1>3, <3>6, <5>1
        <4>2. PICK q \in DOMAIN told : j = z + q
          BY <1>3, <4>1
        <4>3. b \in Range(list)
          BY <1>2, <1>3, <1>8, <4>2
        <4>4. PICK y \in 1..k : b = list[y]
          BY <1>1, <4>3 DEF Range
        <4>5. y < p
          <5> SUFFICES ASSUME ~(y < p) PROVE FALSE
            OBVIOUS
          <5>1. y = p \/ p < y
            OBVIOUS
          <5>3. p < y => DaaScore[list[p]] < DaaScore[list[y]]
            BY <1>1, <1>2
          <5>2. DaaScore[x] <= DaaScore[b]
            BY <1>5, <3>3, <4>4, <5>1, <5>3
          <5> QED BY <1>5, <3>4, <3>6, <4>4, <5>2
        <4>6. z + y \in DOMAIN v /\ b \in Range(v[z + y].blocks)
          <5>1. y \in DOMAIN told /\ b \in Range(told[y].blocks)
            BY <1>9, <4>4
          <5> QED BY <1>3, <5>1
        <4>7. z + y < i
          BY <1>1, <1>3, <3>1, <4>5
        <4> QED BY <4>6, <4>7
      <3> SUFFICES ASSUME NEW j \in DOMAIN v, NEW b \in Range(v[j].blocks)
                   PROVE  /\ j < i => DaaScore[b] < DaaScore[x]
                          /\ j > i /\ DaaScore[b] < DaaScore[x] =>
                                \/ DaaScore[b] <= l
                                \/ \E q \in DOMAIN v : q < i /\ b \in Range(v[q].blocks)
        BY <3>4 DEF BlockPlace
      <3> QED BY <3>5, <3>6, ZenonT(60)
    <2>3. CASE i = z + (k + 1)
      <3>1. v[i] = Changed(t, n)
        BY <1>1, <1>3, <1>10, <2>3
      <3>2. Added(x).kind = "block" /\ Changed(t, n).kind = "chain"
        BY AddedIs, ChangeIs
      <3> QED BY <1>15, <3>1, <3>2
    <2> QED BY <1>3, <1>10, <2>1, <2>2, <2>3
  <1>16. ASSUME NEW i \in DOMAIN v, v[i].kind = "chain", Plain(v, i + 1)
         PROVE  \E y \in OnChain(n) : y \in Range(v[i].blocks) /\ ChangePlace(v, l, i, y)
    <2>1. CASE i \in DOMAIN w
      <3>1. PICK y \in OnChain(t) : y \in Range(w[i].blocks) /\ ChangePlace(w, l, i, y)
        BY <1>3, <1>13, <1>16, <2>1 DEF WireOrder
      <3>2. /\ OnChain(t) \subseteq OnChain(n)
            /\ \A b \in OnChain(n) \ OnChain(t) : DaaScore[b] > DaaScore[t]
        <4>1. \E j \in DOMAIN told : i + 1 <= z + j
          BY <1>13, <1>16, <2>1
        <4>2. i + 1 \in Int
          BY <1>3
        <4> QED BY <1>11, <1>16, <4>1, <4>2
      <3>3. l <= DaaScore[y] /\ DaaScore[y] <= DaaScore[t] /\ DaaScore[y] \in Nat
        BY <1>7, <2>1, <3>1 DEF ChangePlace
      <3>4. ASSUME NEW j \in DOMAIN v, NEW b \in Range(v[j].blocks)
            PROVE  /\ j <= i => DaaScore[b] <= DaaScore[y]
                   /\ j > i => DaaScore[b] > DaaScore[y]
        <4>1. CASE j \in DOMAIN w
          BY <1>3, <3>1, <4>1 DEF ChangePlace
        <4>2. CASE \E p \in DOMAIN told : j = z + p
          <5>1. b \in OnChain(n) \ OnChain(t) /\ i < j
            BY <1>3, <1>8, <2>1, <4>2
          <5>2. DaaScore[b] > DaaScore[t] /\ DaaScore[b] \in Nat /\ ~(j <= i)
            BY <1>3, <1>6, <3>2, <5>1
          <5> QED BY <1>4, <3>3, <5>2
        <4> QED BY <1>3, <4>1, <4>2
      <3> QED BY <1>3, <2>1, <3>1, <3>2, <3>3, <3>4 DEF ChangePlace
    <2>2. CASE \E p \in 1..k : i = z + p
      <3>1. PICK p \in 1..k : i = z + p
        BY <2>2
      <3>2. v[i] = Added(list[p])
        BY <1>1, <1>3, <1>9, <3>1
      <3> QED BY <1>5, <1>16, <3>2, AddedIs
    <2>3. CASE i = z + (k + 1)
      <3>1. v[i] = Changed(t, n)
        BY <1>1, <1>3, <1>10, <2>3
      <3>2. n \in OnChain(n) /\ n \in Range(v[i].blocks)
        BY <1>2, <3>1, ChangeIs, OnChainBlocks
      <3>3. \A j \in DOMAIN v : ~(j > i)
        <4> SUFFICES ASSUME NEW j \in DOMAIN v, j > i PROVE FALSE
          OBVIOUS
        <4>1. CASE j \in DOMAIN w
          BY <1>3, <1>10, <2>3, <4>1
        <4>2. CASE \E p \in DOMAIN told : j = z + p
          BY <1>1, <1>3, <2>3, <4>2
        <4> QED BY <1>3, <4>1, <4>2
      <3>4. l <= DaaScore[n]
        BY <1>4
      <3> QED BY <1>14, <3>2, <3>3, <3>4 DEF ChangePlace
    <2> QED BY <1>3, <1>10, <2>1, <2>2, <2>3
  <1>17. l <= DaaScore[n]
    BY <1>4
  <1> QED BY <1>14, <1>15, <1>16, <1>17 DEF WireOrder

\* The scores on the wire are in order as long as the loop is there to get them.
WireInv == open => WireOrder(wire, tip, last)

LEMMA WireStep ==
    ASSUME BaseInv, LinkInv, WireInv, [Next]_vars
    PROVE  WireInv'
  <1> SUFFICES ASSUME open' PROVE WireOrder(wire', tip', last')
    BY DEF WireInv
  <1>0. /\ wire \in Seq(UpMsg) /\ tip \in Block /\ last \in Nat \cup {-1} /\ open
        /\ WireOrder(wire, tip, last)
    <2>1. wire \in Seq(UpMsg) /\ tip \in Block /\ last \in Nat \cup {-1}
      BY DEF BaseInv, QueueTypes, FInv, FeedTypes
    <2>2. open
      BY DEF Next, DriverStep, LoopStep, ChannelClosed, Shutdown, TakeBlock, TakeChainChange, TakeGap,
             Take, ApplyBlock, Handled, Recover, GiveUpRecovery, Leave, Advance, Dial, Connect,
             Send, Read, StreamEnds, AttemptFails, Disconnect, NoticeClosed, HangUp, Stop, vars
    <2> QED BY <2>1, <2>2 DEF WireInv
  <1>1. CASE Advance
    <2>1. PICK t \in Block : /\ DaaScore[t] > DaaScore[tip]
                             /\ tip' = t
                             /\ wire' = IF link = "up" THEN wire \o Announcements(tip, t) ELSE wire
      BY <1>1 DEF Advance
    <2>2. Rises(tip, t) /\ last' = last
      BY <1>0, <1>1, <2>1, ScoreIs DEF Rises, Advance, driverVars
    <2>3. CASE link = "up"
      <3> PICK told, v : told = Announcements(tip, t) /\ v = wire'
        OBVIOUS
      <3>1. v = wire \o told
        BY <2>1, <2>3
      <3>2. WireOrder(v, t, last)
        BY <1>0, <2>2, <3>1, WireAnnounced
      <3> QED BY <2>1, <2>2, <3>2
    <2>4. CASE link # "up"
      <3>1. wire' = <<>>
        BY <1>0, <2>1, <2>4 DEF LinkInv
      <3>2. last <= DaaScore[t]
        BY <1>0, <2>1, ScoreIs DEF WireOrder
      <3> QED BY <2>1, <2>2, <3>1, <3>2, WireEmpty
    <2> QED BY <2>3, <2>4
  <1>2. CASE StreamEnds \/ AttemptFails
    <2>1. wire' = <<>> /\ tip' = tip /\ last' = last
      BY <1>2 DEF StreamEnds, AttemptFails, Disconnect, chainVars
    <2>2. last <= DaaScore[tip]
      BY <1>0 DEF WireOrder
    <2> QED BY <1>0, <2>1, <2>2, WireEmpty
  <1>3. CASE Read
    <2> PICK m, rest, k : m = Head(wire) /\ rest = Tail(wire) /\ k = last'
      OBVIOUS
    <2>1. /\ wire # <<>> /\ wire' = rest /\ tip' = tip
          /\ k \in Scores(m) \cup {last} /\ last <= k /\ \A s \in Scores(m) : s <= k
      BY <1>3, ReadIs DEF chainVars
    <2>2. WireOrder(rest, tip, k)
      BY <1>0, <2>1, WireRead
    <2> QED BY <2>1, <2>2
  <1>4. CASE UNCHANGED <<wire, tip, last>>
    BY <1>0, <1>4
  <1>5. ~Leave /\ ~NoticeClosed /\ ~Stop
    BY <1>0 DEF Leave, NoticeClosed, Stop
  <1> QED BY <1>1, <1>2, <1>3, <1>4, <1>5
      DEF Next, DriverStep, LoopStep, ChannelClosed, Shutdown, TakeBlock, TakeChainChange, TakeGap,
          Take, ApplyBlock, Handled, Recover, GiveUpRecovery, Dial, Connect, Send, vars,
          Unhandled, chainVars, driverVars

-------------------------------------------------------------------------------
(* Blocks of the selected chain.                                             *)

\* A block the driver has yet to find missing: it lies above everything emitted, and
\* the next fresh score is checked.
Overdue(b) ==
    /\ DaaScore[b] > last
    /\ link # "up" \/ (gapCheck /\ last # -1)
    /\ AllThrough(b, wire)

\* The node will keep the block once everything queued is handled; and what was
\* emitted alone is enough for a block the driver counts as emitted, when what is
\* still on the wire may be lost.
Followed(b) == Announced(b, Queue) \/ (Arriving(b) /\ AllThrough(b, Queue)) \/ Overdue(b)
Emerged(b) == Announced(b, Emitted) \/ (Arriving(b) /\ AllThrough(b, Emitted))
Follows(b) == Followed(b) /\ (Plain(wire, 1) /\ DaaScore[b] <= last => Emerged(b))

\* Whatever was selected since the driver first listened follows, until a recovery is
\* given up.
FollowInv == open /\ ~gaveUp => \A b \in OnChain(tip) \ OnChain(base) : Follows(b)

LEMMA ArrivingSame ==
    ASSUME NEW b, UNCHANGED <<committed, probabilistic, todo, recovery, refetch>>
    PROVE  Arriving(b)' <=> Arriving(b)
  BY DEF Arriving, Held, Due, Requested, Kept, Awaited

\* Steps that leave the queue as it is.
LEMMA FollowsStill ==
    ASSUME NEW b, Follows(b), UNCHANGED <<wire, last, link, gapCheck>>,
           Emitted' = Emitted, Queue' = Queue,
           Arriving(b) /\ AllThrough(b, Queue) => Arriving(b)' \/ Announced(b, Queue),
           Plain(wire, 1) /\ Arriving(b) /\ AllThrough(b, Emitted)
                => Arriving(b)' \/ Announced(b, Emitted)
    PROVE  Follows(b)'
  <1>1. Overdue(b)' <=> Overdue(b)
    BY DEF Overdue
  <1>2. Followed(b)'
    BY <1>1 DEF Follows, Followed
  <1>3. Plain(wire, 1) /\ DaaScore[b] <= last => Emerged(b)'
    BY DEF Follows, Emerged
  <1> QED BY <1>2, <1>3 DEF Follows

LEMMA TakeFollows ==
    ASSUME BaseInv, TakeStep, NEW b \in Block, Follows(b)
    PROVE  Follows(b)'
  <1> PICK m, e, q : m = Head(channel) /\ e = Emitted' /\ q = Queue'
    OBVIOUS
  <1>1. /\ channel # <<>> /\ channel' = Tail(channel)
        /\ UNCHANGED <<outbox, wire, last, link, gapCheck>>
    BY HeadNote DEF driverVars
  <1>2. QueueTypes /\ Emitted \in Seq(Note) /\ Queue \in Seq(Note)
    BY QueueIs DEF BaseInv
  <1>3. /\ Emitted # <<>> /\ Head(Emitted) = m /\ e = Tail(Emitted)
        /\ Queue # <<>> /\ Head(Queue) = m /\ q = Tail(Queue)
    BY <1>1, <1>2, QueueTaken
  <1>4. Brings(b, m) \/ (Arriving(b) /\ Through(b, m)) => Arriving(b)'
    BY TakeArrives
  <1>5. /\ AllThrough(b, Queue) <=> Through(b, m) /\ AllThrough(b, q)
        /\ Announced(b, Queue) <=> Announced(b, q) \/ (Brings(b, m) /\ AllThrough(b, q))
    BY <1>2, <1>3, QueueHead
  <1>6. /\ AllThrough(b, Emitted) <=> Through(b, m) /\ AllThrough(b, e)
        /\ Announced(b, Emitted) <=> Announced(b, e) \/ (Brings(b, m) /\ AllThrough(b, e))
    BY <1>2, <1>3, QueueHead
  <1>7. Overdue(b)' <=> Overdue(b)
    BY <1>1 DEF Overdue
  <1>8. Followed(b)'
    <2>1. Announced(b, q) \/ (Arriving(b)' /\ AllThrough(b, q)) \/ Overdue(b)'
      BY <1>4, <1>5, <1>7 DEF Follows, Followed
    <2> QED BY <2>1 DEF Followed
  <1>9. Plain(wire, 1) /\ DaaScore[b] <= last => Emerged(b)'
    <2>1. Emerged(b) => Announced(b, e) \/ (Arriving(b)' /\ AllThrough(b, e))
      BY <1>4, <1>6 DEF Emerged
    <2> QED BY <2>1 DEF Follows, Emerged
  <1> QED BY <1>1, <1>8, <1>9 DEF Follows

LEMMA ApplyFollows ==
    ASSUME BaseInv, StaleInv, ApplyBlock, NEW b \in OnChain(tip), Follows(b)
    PROVE  Follows(b)'
  <1>1. /\ tip \in Block /\ Emitted \in Seq(Note) /\ Queue \in Seq(Note) /\ wire \in Seq(Note)
        /\ open
    BY QueueIs DEF BaseInv, FInv, FeedTypes, ApplyBlock
  <1>2. ASSUME NEW c \in Kept \ OnChain(tip) PROVE Retracted(c, Queue)
    <2>1. c \in Block /\ c \in Known
      BY DEF Kept, Known, BaseInv, FInv, FeedTypes
    <2> QED BY <1>1, <2>1 DEF StaleInv
  <1>3. ASSUME Plain(wire, 1), NEW c \in Kept \ OnChain(tip) PROVE Retracted(c, Emitted)
    <2>1. Retracted(c, Queue) <=> Retracted(c, Emitted) \/ Retracted(c, wire)
      BY <1>1, QueueConcat DEF Queue
    <2>2. ~Retracted(c, wire)
      <3>1. \A j \in DOMAIN wire : wire[j].removed = {}
        <4>1. DOMAIN wire = 1..Len(wire) /\ Len(wire) \in Nat
          <5> HIDE DEF Note
          <5> QED BY <1>1
        <4>2. \A j \in DOMAIN wire : j >= 1
          BY <4>1
        <4> QED BY <1>3, <4>2 DEF Plain
      <3> QED BY <3>1 DEF Retracted, Removes
    <2> QED BY <1>2, <2>1, <2>2
  <1>4. Arriving(b) /\ AllThrough(b, Queue) => Arriving(b)' \/ Announced(b, Queue)
    BY <1>1, <1>2, ApplyArrives
  <1>5. Plain(wire, 1) /\ Arriving(b) /\ AllThrough(b, Emitted)
            => Arriving(b)' \/ Announced(b, Emitted)
    BY <1>1, <1>3, ApplyArrives
  <1>6. UNCHANGED <<wire, last, link, gapCheck, channel, outbox>>
    BY DEF ApplyBlock, Unhandled, driverVars
  <1>7. Emitted' = Emitted /\ Queue' = Queue
    BY <1>6 DEF Emitted, Queue
  <1> QED BY <1>4, <1>5, <1>6, <1>7, FollowsStill

\* The connection ends: nothing on the wire removes a block, and a block whose
\* announcement is lost lies above what was emitted.
LEMMA DisconnectFollows ==
    ASSUME HiddenReorgs = FALSE, BaseInv, StreamEnds \/ AttemptFails, NEW b \in Block, Follows(b)
    PROVE  Follows(b)'
  <1>1. /\ wire' = <<>> /\ link' # "up" /\ \A i \in DOMAIN wire : wire[i].removed = {}
        /\ UNCHANGED <<last, outbox, channel, nodeVars, refetch>>
    BY DEF StreamEnds, AttemptFails, Disconnect
  <1>2. Emitted \in Seq(Note) /\ DaaScore[b] \in Nat /\ last \in Nat \cup {-1}
    BY QueueIs, ScoreIs DEF BaseInv, FInv, FeedTypes
  <1>3. Emitted' = Emitted /\ Queue' = Emitted
    <2>1. Emitted' = Emitted
      BY <1>1 DEF Emitted
    <2> HIDE DEF Note
    <2> QED BY <1>1, <1>2, <2>1 DEF Queue
  <1>4. Arriving(b)' <=> Arriving(b)
    BY <1>1, ArrivingSame DEF nodeVars
  <1>5. Plain(wire, 1)
    BY <1>1 DEF Plain
  <1>6. CASE DaaScore[b] <= last
    <2>1. Emerged(b)
      BY <1>5, <1>6 DEF Follows
    <2> QED BY <1>3, <1>4, <2>1 DEF Follows, Followed, Emerged
  <1>7. CASE DaaScore[b] > last
    <2>1. AllThrough(b, <<>>)
      BY EmptyQueue
    <2>2. Overdue(b)'
      BY <1>1, <1>7, <2>1 DEF Overdue
    <2>3. ~(DaaScore[b] <= last')
      BY <1>1, <1>2, <1>7
    <2> QED BY <2>2, <2>3 DEF Follows, Followed
  <1> QED BY <1>2, <1>6, <1>7

\* A change that removes nothing extends the chain.
LEMMA PlainAnnounced ==
    ASSUME NEW w \in Seq(UpMsg), NEW t \in Block, NEW n \in Block, Rises(t, n),
           NEW told, told = Announcements(t, n), NEW v, v = w \o told, Plain(v, 1)
    PROVE  Plain(w, 1) /\ OnChain(t) \subseteq OnChain(n)
  <1> PICK k : k = Len(NewBlocks(t, n))
    OBVIOUS
  <1>1. /\ k \in Nat /\ told \in Seq(UpMsg) /\ DOMAIN told = 1..(k + 1)
        /\ told[k + 1] = Changed(t, n)
    BY AnnouncedIs DEF UpMsg
  <1>2. w \in Seq(UpMsg) /\ told \in Seq(UpMsg) /\ v = w \o told
    BY <1>1
  <1>3. /\ \A i \in DOMAIN w : i \in DOMAIN v /\ v[i] = w[i]
        /\ \A j \in DOMAIN told : Len(w) + j \in DOMAIN v /\ v[Len(w) + j] = told[j]
        /\ Len(w) \in Nat
    <2>1. \A i \in DOMAIN w : i \in DOMAIN v /\ v[i] = w[i]
      BY ONLY <1>2, ConcatIndex
    <2>2. \A j \in DOMAIN told : Len(w) + j \in DOMAIN v /\ v[Len(w) + j] = told[j]
      BY ONLY <1>2, ConcatIndex
    <2>3. Len(w) \in Nat
      BY ONLY <1>2, ConcatIndex
    <2> QED BY <2>1, <2>2, <2>3
  <1>4. Plain(w, 1)
    BY <1>3 DEF Plain
  <1>5. k + 1 \in DOMAIN told /\ Len(w) + (k + 1) >= 1
    BY <1>1, <1>3
  <1>6. Changed(t, n).removed = {}
    <2>1. /\ Len(w) + (k + 1) \in DOMAIN v
          /\ v[Len(w) + (k + 1)] = Changed(t, n)
      BY <1>1, <1>3, <1>5
    <2>2. v[Len(w) + (k + 1)].removed = {}
      BY <1>5, <2>1 DEF Plain
    <2> QED BY <2>1, <2>2
  <1> QED BY <1>4, <1>6, ChangeIs, SMTT(30)

LEMMA AdvanceFollows ==
    ASSUME HiddenReorgs = FALSE, BaseInv, LinkInv, WireInv, open, Advance,
           NEW b \in OnChain(tip'), b \in OnChain(tip) => Follows(b)
    PROVE  Follows(b)'
  <1>1. PICK t \in Block : /\ DaaScore[t] > DaaScore[tip]
                           /\ link = "up" \/ OnChain(tip) \subseteq OnChain(t)
                           /\ tip' = t
                           /\ wire' = IF link = "up" THEN wire \o Announcements(tip, t) ELSE wire
    BY DEF Advance
  <1>2. UNCHANGED <<nodeVars, link, gapCheck, last, outbox, channel, refetch>>
    BY DEF Advance, driverVars
  <1>3. Emitted' = Emitted /\ (Arriving(b)' <=> Arriving(b))
    BY <1>2, ArrivingSame DEF Emitted, nodeVars
  <1>4. /\ tip \in Block /\ last \in Nat \cup {-1} /\ wire \in Seq(UpMsg)
        /\ Emitted \in Seq(Note) /\ wire \in Seq(Note) /\ Queue \in Seq(Note)
        /\ last <= DaaScore[tip]
    BY QueueIs DEF BaseInv, FInv, FeedTypes, QueueTypes, WireInv, WireOrder
  <1>5. Rises(tip, t) /\ b \in Block /\ b \in OnChain(t)
    BY <1>1, <1>4, OnChainBlocks, ScoreIs DEF Rises
  <1>6. OnChain(tip) \subseteq OnChain(t) /\ b \notin OnChain(tip)
            => DaaScore[b] > last /\ ~(DaaScore[b] <= last)
    <2> SUFFICES ASSUME OnChain(tip) \subseteq OnChain(t), b \notin OnChain(tip)
                 PROVE  DaaScore[b] > last /\ ~(DaaScore[b] <= last)
      OBVIOUS
    <2>1. tip \in OnChain(t) \cap OnChain(tip)
      BY <1>4, OnChainBlocks
    <2>2. DaaScore[tip] < DaaScore[b]
      BY <1>4, <1>5, <2>1, SharedBelow
    <2> QED BY <1>4, <1>5, <2>2, ScoreIs
  <1>7. CASE link = "up"
    <2> PICK told, e, w, v, q : told = Announcements(tip, t) /\ e = Emitted /\ w = wire
                                /\ v = wire' /\ q = Queue'
      OBVIOUS
    <2>1. /\ told \in Seq(Note)
          /\ b \in OnChain(tip) => AllThrough(b, told)
          /\ b \notin OnChain(tip) => Announced(b, told)
      BY <1>4, <1>5, AnnouncementsSay
    <2>2. /\ v = w \o told /\ q = e \o v /\ Queue = e \o w
          /\ e \in Seq(Note) /\ w \in Seq(Note) /\ v \in Seq(Note) /\ q \in Seq(Note)
      <3> HIDE DEF Note
      <3> QED BY <1>1, <1>3, <1>4, <1>7, <2>1 DEF Queue
    <2>3. /\ AllThrough(b, v) <=> AllThrough(b, w) /\ AllThrough(b, told)
          /\ Announced(b, v) <=> Announced(b, told) \/ (Announced(b, w) /\ AllThrough(b, told))
      <3>1. w \in Seq(Note) /\ told \in Seq(Note) /\ v = w \o told
        BY ONLY <2>1, <2>2
      <3> QED BY ONLY <3>1, BroughtConcat
    <2>4. /\ AllThrough(b, q) <=> AllThrough(b, e) /\ AllThrough(b, v)
          /\ Announced(b, q) <=> Announced(b, v) \/ (Announced(b, e) /\ AllThrough(b, v))
      <3>1. e \in Seq(Note) /\ v \in Seq(Note) /\ q = e \o v
        BY ONLY <2>2
      <3> QED BY ONLY <3>1, BroughtConcat
    <2>5. /\ AllThrough(b, Queue) <=> AllThrough(b, e) /\ AllThrough(b, w)
          /\ Announced(b, Queue) <=> Announced(b, w) \/ (Announced(b, e) /\ AllThrough(b, w))
      <3>1. e \in Seq(Note) /\ w \in Seq(Note) /\ Queue = e \o w
        BY ONLY <2>2
      <3> QED BY ONLY <3>1, BroughtConcat
    <2>6. Plain(v, 1) => Plain(w, 1) /\ OnChain(tip) \subseteq OnChain(t)
      BY <1>4, <1>5, <2>2, PlainAnnounced
    <2>7. CASE b \in OnChain(tip)
      <3>1. Follows(b)
        BY <2>7
      <3>2. Overdue(b) => Overdue(b)'
        BY <1>2, <2>1, <2>3, <2>7 DEF Overdue
      <3>3. Announced(b, q) \/ (Arriving(b)' /\ AllThrough(b, q)) \/ Overdue(b)'
        BY <1>3, <2>1, <2>3, <2>4, <2>5, <2>7, <3>1, <3>2 DEF Follows, Followed
      <3>4. Followed(b)'
        BY <3>3 DEF Followed
      <3>5. Plain(v, 1) /\ DaaScore[b] <= last => Emerged(b)'
        BY <1>3, <2>6, <3>1 DEF Follows, Emerged
      <3> QED BY <1>2, <3>4, <3>5 DEF Follows
    <2>8. CASE b \notin OnChain(tip)
      <3>1. Announced(b, q)
        BY <2>1, <2>3, <2>4, <2>8
      <3>2. Followed(b)'
        BY <3>1 DEF Followed
      <3>3. ~(Plain(v, 1) /\ DaaScore[b] <= last)
        BY <1>6, <2>6, <2>8
      <3> QED BY <1>2, <3>2, <3>3 DEF Follows
    <2> QED BY <2>7, <2>8
  <1>8. CASE link # "up"
    <2>1. wire = <<>> /\ wire' = <<>> /\ OnChain(tip) \subseteq OnChain(t)
      BY <1>1, <1>8 DEF LinkInv
    <2>2. Queue' = Queue
      BY <1>3, <2>1 DEF Queue
    <2>3. CASE b \in OnChain(tip)
      BY <1>2, <1>3, <2>1, <2>2, <2>3, FollowsStill
    <2>4. CASE b \notin OnChain(tip)
      <3>1. AllThrough(b, <<>>)
        BY EmptyQueue
      <3>2. Overdue(b)'
        BY <1>2, <1>6, <1>8, <2>1, <2>4, <3>1 DEF Overdue
      <3> QED BY <1>2, <1>6, <2>1, <2>4, <3>2 DEF Follows, Followed
    <2> QED BY <2>3, <2>4
  <1> QED BY <1>7, <1>8

\* A message is read: a gap in front of it covers whatever is overdue.
LEMMA ReadFollows ==
    ASSUME BaseInv, WireInv, open, Read, NEW b \in OnChain(tip), Follows(b)
    PROVE  Follows(b)'
  <1> PICK m, rest, e, q, out, old : m = Head(wire) /\ rest = Tail(wire) /\ e = Emitted'
                                     /\ q = Queue' /\ out = outbox' /\ old = Emitted
    OBVIOUS
  <1>0. /\ m = Head(wire) /\ rest = Tail(wire)
        /\ e = Emitted' /\ q = Queue' /\ out = outbox' /\ old = Emitted
    OBVIOUS
  <1>1. /\ wire # <<>> /\ m \in UpMsg /\ rest \in Seq(UpMsg) /\ wire' = rest /\ link = "up"
        /\ last \in Nat \cup {-1} /\ Scores(m) \subseteq Nat
        /\ last' \in Scores(m) \cup {last} /\ last <= last' /\ \A s \in Scores(m) : s <= last'
        /\ UNCHANGED nodeVars /\ refetch' = refetch
    BY ReadIs
  <1>2. PICK gap \in Seq(GapMsg) :
            /\ outbox' = gap \o <<m>>
            /\ \A c \in Block : /\ gapCheck /\ last # -1
                                /\ DaaScore[c] > last /\ \A s \in Scores(m) : DaaScore[c] < s
                                => Announced(c, gap)
    BY ReadIs
  <1>3. /\ tip \in Block /\ wire \in Seq(UpMsg) /\ WireOrder(wire, tip, last)
        /\ old \in Seq(Note) /\ wire \in Seq(Note) /\ Queue \in Seq(Note)
    BY QueueIs DEF BaseInv, FInv, FeedTypes, QueueTypes, WireInv
  <1>4. b \in Block /\ DaaScore[b] \in Nat
    BY <1>3, OnChainBlocks, ScoreIs
  <1>5. /\ m.kind \in {"block", "chain"} /\ Range(m.blocks) \subseteq Block
        /\ Scores(m) = {DaaScore[x] : x \in Range(m.blocks)}
    BY <1>1, UpMsgIs DEF Scores
  \* The queue before and after.
  <1>6. /\ e \in Seq(Note) /\ q \in Seq(Note) /\ rest \in Seq(Note)
        /\ e = old \o out /\ q = e \o rest
        /\ Announced(b, out) <=> Brings(b, m) \/ (Announced(b, gap) /\ Through(b, m))
        /\ AllThrough(b, out) <=> Through(b, m)
        /\ AllThrough(b, wire) <=> Through(b, m) /\ AllThrough(b, rest)
        /\ Announced(b, wire) <=> Announced(b, rest) \/ (Brings(b, m) /\ AllThrough(b, rest))
        /\ AllThrough(b, q) <=> AllThrough(b, Queue)
    BY ONLY BaseInv, Read, <1>0, <1>2, ReadQueue
  <1>7. out \in Seq(Note)
    <2>1. UpMsg \subseteq Note /\ GapMsg \subseteq Note
      BY DEF Note
    <2> HIDE DEF UpMsg, GapMsg, Note
    <2> QED BY <1>1, <1>2, <2>1
  <1>8. /\ AllThrough(b, e) <=> AllThrough(b, old) /\ AllThrough(b, out)
        /\ Announced(b, e) <=> Announced(b, out) \/ (Announced(b, old) /\ AllThrough(b, out))
    <2>1. old \in Seq(Note) /\ out \in Seq(Note) /\ e = old \o out
      BY <1>3, <1>6, <1>7
    <2> QED BY ONLY <2>1, NotesConcat
  <1>9. /\ AllThrough(b, q) <=> AllThrough(b, e) /\ AllThrough(b, rest)
        /\ Announced(b, q) <=> Announced(b, rest) \/ (Announced(b, e) /\ AllThrough(b, rest))
    <2>1. e \in Seq(Note) /\ rest \in Seq(Note) /\ q = e \o rest
      BY <1>6
    <2> QED BY ONLY <2>1, NotesConcat
  <1>10. /\ AllThrough(b, Queue) <=> AllThrough(b, old) /\ AllThrough(b, wire)
         /\ Announced(b, Queue) <=> Announced(b, wire) \/ (Announced(b, old) /\ AllThrough(b, wire))
    <2>1. Queue = old \o wire
      BY DEF Queue
    <2> QED BY <1>3, <2>1, NotesConcat
  <1>11. Arriving(b)' <=> Arriving(b)
    BY <1>1, ArrivingSame DEF nodeVars
  <1>12. Overdue(b) => Announced(b, out) /\ AllThrough(b, rest)
    <2> SUFFICES ASSUME Overdue(b) PROVE Announced(b, out) /\ AllThrough(b, rest)
      OBVIOUS
    <2>1. DaaScore[b] > last /\ gapCheck /\ last # -1 /\ Through(b, m) /\ AllThrough(b, rest)
      BY <1>1, <1>6 DEF Overdue
    <2>2. CASE b \in Range(m.blocks)
      <3>1. Brings(b, m)
        BY <1>5, <2>2 DEF Brings, Mentions
      <3> QED BY <1>6, <2>1, <3>1
    <2>3. CASE b \notin Range(m.blocks)
      <3>1. ASSUME NEW x \in Range(m.blocks) PROVE DaaScore[b] < DaaScore[x]
        <4>1. x \in Block /\ b \in OnChain(x) /\ b # x
          BY <1>5, <2>1, <2>3, <3>1 DEF Through
        <4> QED BY <4>1, OnChainRises
      <3>2. Announced(b, gap)
        BY <1>2, <1>4, <1>5, <2>1, <3>1
      <3> QED BY <1>6, <2>1, <3>2
    <2> QED BY <2>2, <2>3
  <1>13. Followed(b)'
    <2>1. Followed(b)
      BY DEF Follows
    <2>2. Announced(b, q) \/ (Arriving(b)' /\ AllThrough(b, q))
      BY <1>6, <1>8, <1>9, <1>10, <1>11, <1>12, <2>1 DEF Followed
    <2> QED BY <2>2 DEF Followed
  \* What nothing left on the wire brings is in what has been emitted.
  <1>14. (\A j \in DOMAIN rest : ~Mentions(b, rest[j])) => Emerged(b)'
    <2> SUFFICES ASSUME \A j \in DOMAIN rest : ~Mentions(b, rest[j])
                 PROVE  Announced(b, e) \/ (Arriving(b)' /\ AllThrough(b, e))
      BY DEF Emerged
    <2>1. ASSUME NEW j \in DOMAIN rest PROVE ~Brings(b, rest[j])
      <3>1. rest[j] \in UpMsg
        <4> HIDE DEF UpMsg
        <4> QED BY <1>1
      <3>2. rest[j].kind # "gap"
        BY <3>1, UpMsgIs
      <3> QED BY <3>2 DEF Brings, Covers
    <2>2. ~Announced(b, rest)
      BY <2>1 DEF Announced
    <2>3. Followed(b)
      BY DEF Follows
    <2> QED BY <1>6, <1>8, <1>10, <1>11, <1>12, <2>2, <2>3 DEF Followed
  <1>15. /\ 1 \in DOMAIN wire /\ wire[1] = m
         /\ \A j \in DOMAIN rest : j + 1 \in DOMAIN wire /\ rest[j] = wire[j + 1]
         /\ \A i \in DOMAIN wire : i = 1 \/ \E j \in DOMAIN rest : i = j + 1
         /\ DOMAIN wire \subseteq Nat \ {0} /\ DOMAIN rest \subseteq Nat \ {0}
    <2>1. wire \in Seq(UpMsg) /\ wire # <<>> /\ rest = Tail(wire) /\ m = Head(wire)
      BY <1>1, <1>3
    <2>2. 1 \in DOMAIN wire /\ wire[1] = m
      BY ONLY <2>1, TailIndex
    <2>3. \A j \in DOMAIN rest : j + 1 \in DOMAIN wire /\ rest[j] = wire[j + 1]
      BY ONLY <2>1, TailIndex
    <2>4. ASSUME NEW i \in DOMAIN wire, i # 1
          PROVE  \E j \in DOMAIN rest : i = j + 1
      <3>1. /\ rest \in Seq(UpMsg) /\ wire \in Seq(UpMsg) /\ wire # <<>> /\ i \in DOMAIN wire
            /\ rest = Tail(wire) /\ i # 1
        BY <2>1, <2>4, <1>1
      <3>2. i - 1 \in DOMAIN rest /\ i = (i - 1) + 1
        BY ONLY <3>1, TailPlace
      <3> QED BY <3>2
    <2>5. DOMAIN wire \subseteq Nat \ {0} /\ DOMAIN rest \subseteq Nat \ {0}
      BY ONLY <2>1, TailIndex
    <2> QED BY <2>2, <2>3, <2>4, <2>5
  <1>16. ASSUME Plain(rest, 1), NEW i \in DOMAIN wire, i > 1 PROVE wire[i].removed = {}
    <2>1. PICK j \in DOMAIN rest : i = j + 1
      BY <1>15, <1>16, SMTT(30)
    <2>2. j >= 1
      BY <1>15
    <2> QED BY <1>15, <1>16, <2>1, <2>2 DEF Plain
  <1>17. ASSUME Plain(rest, 1), DaaScore[b] <= last'
         PROVE  Emerged(b)'
    <2>1. CASE m.kind = "chain"
      <3>1. Plain(wire, 1 + 1)
        <4> SUFFICES ASSUME NEW i \in DOMAIN wire, i >= 1 + 1 PROVE wire[i].removed = {}
          BY DEF Plain
        <4>1. i > 1
          BY <1>15
        <4> QED BY <1>16, <1>17, <4>1
      <3>2. PICK n \in OnChain(tip) : n \in Range(m.blocks) /\ ChangePlace(wire, last, 1, n)
        BY <1>3, <1>15, <2>1, <3>1 DEF WireOrder
      <3>3. last' <= DaaScore[n] /\ DaaScore[n] \in Nat /\ last' \in Nat \cup {-1}
        <4>1. last <= DaaScore[n] /\ \A x \in Range(m.blocks) : DaaScore[x] <= DaaScore[n]
          BY <1>15, <3>2 DEF ChangePlace
        <4>2. DaaScore[n] \in Nat
          BY <1>5, <3>2, ScoreIs
        <4> QED BY <1>1, <1>5, <4>1, <4>2
      <3>4. ASSUME NEW j \in DOMAIN rest PROVE ~Mentions(b, rest[j])
        <4> SUFFICES ASSUME b \in Range(rest[j].blocks) PROVE FALSE
          BY DEF Mentions
        <4>1. j + 1 \in DOMAIN wire /\ b \in Range(wire[j + 1].blocks) /\ j + 1 > 1
          BY <1>15
        <4>2. DaaScore[b] > DaaScore[n]
          BY <3>2, <4>1 DEF ChangePlace
        <4> QED BY <1>4, <1>17, <3>3, <4>2
      <3> QED BY <1>14, <3>4
    <2>2. CASE m.kind = "block"
      <3>1. PICK x \in Block : m = Added(x)
        BY <1>1, <2>2, UpMsgIs
      <3>2. m.removed = {} /\ Scores(m) = {DaaScore[x]} /\ DaaScore[x] \in Nat
        BY <3>1, AddedIs, ScoreIs
      <3>3. Plain(wire, 1)
        <4> SUFFICES ASSUME NEW i \in DOMAIN wire PROVE wire[i].removed = {}
          BY DEF Plain
        <4>1. i = 1 \/ i > 1
          BY <1>15
        <4> QED BY <1>15, <1>16, <1>17, <3>2, <4>1
      <3>4. BlockPlace(wire, tip, last, 1, x)
        BY <1>3, <1>15, <3>1, <3>3 DEF WireOrder
      <3>5. x \in OnChain(tip) /\ DaaScore[x] > last
        BY <3>4 DEF BlockPlace
      <3>6. DaaScore[b] <= DaaScore[x]
        BY <1>1, <1>4, <1>17, <3>2, <3>5
      <3>7. b \in OnChain(x)
        BY <1>3, <3>5, <3>6, OnChainOrder
      <3>8. Through(b, m) /\ (b = x => Brings(b, m))
        BY <3>1, <3>7, AddedSays
      <3>9. CASE b = x
        <4>1. Announced(b, e)
          BY <1>6, <1>8, <3>8, <3>9
        <4> QED BY <4>1 DEF Emerged
      <3>10. CASE b # x /\ \E j \in DOMAIN rest : Mentions(b, rest[j])
        <4>1. PICK j \in DOMAIN rest : b \in Range(rest[j].blocks)
          BY <3>10 DEF Mentions
        <4>2. j + 1 \in DOMAIN wire /\ b \in Range(wire[j + 1].blocks) /\ j + 1 > 1
          BY <1>15, <4>1
        <4>3. DaaScore[b] < DaaScore[x]
          BY <3>1, <3>7, <3>10, OnChainRises
        <4>4. ~\E k \in DOMAIN wire : k < 1
          BY <1>15
        <4>5. DaaScore[b] <= last
          BY <3>4, <4>2, <4>3, <4>4 DEF BlockPlace
        <4>6. Emerged(b)
          BY <3>3, <4>5 DEF Follows
        <4>7. Announced(b, e) \/ (Arriving(b)' /\ AllThrough(b, e))
          BY <1>6, <1>8, <1>11, <3>8, <4>6 DEF Emerged
        <4> QED BY <4>7 DEF Emerged
      <3>11. CASE b # x /\ ~\E j \in DOMAIN rest : Mentions(b, rest[j])
        BY <1>14, <3>11
      <3> QED BY <3>9, <3>10, <3>11
    <2> QED BY <1>5, <2>1, <2>2
  <1> QED BY <1>1, <1>13, <1>17 DEF Follows

\* A connection attempt changes nothing yet.
LEMMA DialFollows ==
    ASSUME Dial, NEW b, Follows(b)
    PROVE  Follows(b)'
  <1>1. /\ UNCHANGED <<nodeVars, wire, last, gapCheck, outbox, channel, refetch>>
        /\ link' # "up"
    BY DEF Dial
  <1>2. Emitted' = Emitted /\ Queue' = Queue /\ (Arriving(b)' <=> Arriving(b))
    BY <1>1, ArrivingSame DEF Emitted, Queue, nodeVars
  <1>3. Overdue(b) => Overdue(b)'
    BY <1>1 DEF Overdue
  <1> QED BY <1>1, <1>2, <1>3 DEF Follows, Followed, Emerged

\* A connection before anything was emitted starts the history; a later one finds the
\* check still due.
LEMMA ConnectFollows ==
    ASSUME LinkInv, open, Connect, last # -1, NEW b, Follows(b)
    PROVE  Follows(b)'
  <1>1. /\ gapCheck /\ UNCHANGED <<nodeVars, wire, last, gapCheck, outbox, channel, refetch>>
    BY DEF LinkInv, Connect
  <1>2. Emitted' = Emitted /\ Queue' = Queue /\ (Arriving(b)' <=> Arriving(b))
    BY <1>1, ArrivingSame DEF Emitted, Queue, nodeVars
  <1>3. Overdue(b) => Overdue(b)'
    BY <1>1 DEF Overdue
  <1> QED BY <1>1, <1>2, <1>3 DEF Follows, Followed, Emerged

LEMMA FollowStep ==
    ASSUME HiddenReorgs = FALSE, BaseInv, LinkInv, StaleInv, WireInv, FollowInv, [Next]_vars
    PROVE  FollowInv'
  <1> SUFFICES ASSUME open', ~gaveUp', NEW b \in OnChain(tip'), b \notin OnChain(base')
               PROVE  Follows(b)'
    BY DEF FollowInv
  <1>0. QueueTypes /\ tip \in Block /\ open /\ ~gaveUp
    <2>1. QueueTypes /\ tip \in Block
      BY DEF BaseInv, FInv, FeedTypes
    <2>2. open
      BY DEF Next, DriverStep, LoopStep, ChannelClosed, Shutdown, TakeBlock, TakeChainChange, TakeGap,
             Take, ApplyBlock, Handled, Recover, GiveUpRecovery, Leave, Advance, Dial, Connect,
             Send, Read, StreamEnds, AttemptFails, Disconnect, NoticeClosed, HangUp, Stop, vars
    <2>3. gaveUp' = gaveUp \/ gaveUp'
      <3>1. CASE LoopStep
        BY <3>1 DEF LoopStep, ChannelClosed, TakeBlock, TakeChainChange, TakeGap,
                    Take, ApplyBlock, Handled, Recover, GiveUpRecovery, Leave
      <3>2. CASE ~LoopStep
        BY <3>2 DEF Next, DriverStep, Shutdown, Leave, Advance, Dial, Connect, Send, Read,
                    StreamEnds, AttemptFails, Disconnect, NoticeClosed, HangUp, Stop, vars
      <3> QED BY <3>1, <3>2
    <2> QED BY <2>1, <2>2, <2>3
  <1>1. b \in OnChain(tip) /\ b \notin OnChain(base) => Follows(b)
    BY <1>0 DEF FollowInv
  <1>2. CASE Advance
    <2>1. base' = base
      BY <1>2 DEF Advance, driverVars
    <2> QED BY <1>0, <1>1, <1>2, <2>1, AdvanceFollows
  <1>3. CASE UNCHANGED <<tip, base>> /\ ~Connect
    <2>1. b \in OnChain(tip) /\ b \in Block /\ Follows(b)
      BY <1>0, <1>1, <1>3, OnChainBlocks
    <2>2. CASE StreamEnds \/ AttemptFails
      BY <2>1, <2>2, DisconnectFollows
    <2>3. CASE Read
      BY <1>0, <2>1, <2>3, ReadFollows
    <2>4. CASE Send
      <3>1. Emitted' = Emitted /\ Queue' = Queue
        BY <1>0, <2>4, QueueSent
      <3>2. UNCHANGED <<nodeVars, wire, last, link, gapCheck, refetch>>
        BY <2>4 DEF Send, driverVars
      <3>3. Arriving(b)' <=> Arriving(b)
        BY <3>2, ArrivingSame DEF nodeVars
      <3> QED BY <2>1, <3>1, <3>2, <3>3, FollowsStill
    <2>5. CASE TakeStep
      BY <2>1, <2>5, TakeFollows
    <2>6. CASE ApplyBlock
      BY <2>1, <2>6, ApplyFollows
    <2>7. CASE Handled \/ Recover \/ UNCHANGED vars
      <3>1. UNCHANGED <<wire, last, link, gapCheck, outbox, channel>>
        BY <2>7 DEF Handled, Recover, Unhandled, vars, driverVars
      <3>2. Emitted' = Emitted /\ Queue' = Queue
        BY <3>1 DEF Emitted, Queue
      <3>3. Arriving(b) => Arriving(b)'
        <4>1. CASE UNCHANGED vars
          BY <4>1, ArrivingSame DEF vars, nodeVars
        <4> QED BY <1>0, <2>1, <2>7, <4>1, HandledArrives, RecoverArrives
      <3> QED BY <2>1, <3>1, <3>2, <3>3, FollowsStill
    <2>8. ~Leave /\ ~NoticeClosed /\ ~Stop /\ ~GiveUpRecovery /\ ~Advance
      <3>1. ~Leave /\ ~NoticeClosed /\ ~Stop /\ ~GiveUpRecovery
        BY <1>0 DEF Leave, NoticeClosed, Stop, GiveUpRecovery
      <3>2. ~Advance
        <4>1. SUFFICES ASSUME Advance PROVE FALSE
          OBVIOUS
        <4>2. PICK t \in Block : DaaScore[t] > DaaScore[tip] /\ tip' = t
          BY <4>1 DEF Advance
        <4> QED BY <1>0, <1>3, <4>2, ScoreIs
      <3> QED BY <3>1, <3>2
    <2>9. CASE Dial
      BY <2>1, <2>9, DialFollows
    <2> QED BY <1>3, <2>2, <2>3, <2>4, <2>5, <2>6, <2>7, <2>8, <2>9
        DEF Next, DriverStep, LoopStep, ChannelClosed, Shutdown, TakeStep
  <1>4. CASE Connect
    <2>1. tip' = tip /\ base' = IF last = -1 THEN tip ELSE base
      BY <1>4 DEF Connect, chainVars
    <2>2. last # -1 /\ base' = base
      BY <2>1
    <2> QED BY <1>0, <1>1, <1>4, <2>1, <2>2, ConnectFollows
  <1>5. Advance \/ Connect \/ UNCHANGED <<tip, base>>
    BY <1>0 DEF Next, DriverStep, LoopStep, ChannelClosed, Shutdown, TakeBlock, TakeChainChange, TakeGap,
           Take, ApplyBlock, Handled, Recover, GiveUpRecovery, Leave, Advance, Dial, Send, Read,
           StreamEnds, AttemptFails, Disconnect, NoticeClosed, HangUp, Stop, Unhandled, chainVars, driverVars, vars
  <1> QED BY <1>2, <1>3, <1>4, <1>5

-------------------------------------------------------------------------------
(* The node converges.                                                       *)

ConvergeInv == BaseInv /\ LinkInv /\ StaleInv /\ WireInv /\ FollowInv

LEMMA ConvergeInit == Init => ConvergeInv
  <1> SUFFICES ASSUME Init PROVE ConvergeInv
    OBVIOUS
  <1>1. FInv
    BY InitInvariant
  <1>2. /\ committed = {} /\ probabilistic = {} /\ todo = <<>> /\ recovery = {} /\ refetch = {}
        /\ tip = Root /\ base = Root /\ wire = <<>> /\ outbox = <<>> /\ channel = <<>>
        /\ link = "down" /\ last = -1 /\ gapCheck = FALSE /\ Root \in Block
    BY FeedAssumption DEF Init, Node!Init
  <1>3. QueueTypes
    <2>1. <<>> \in Seq(UpMsg) /\ <<>> \in Seq(Note)
      BY SMT
    <2> QED BY <1>2, <2>1 DEF QueueTypes
  <1>4. NodeInv
    BY <1>2 DEF NodeInv, Kept, Awaited
  <1>5. LinkInv
    BY <1>2 DEF LinkInv
  <1>6. Queue = <<>> /\ Known = {}
    BY <1>2 DEF Queue, Emitted, Known, TodoBlocks
  <1>7. StaleInv
    BY <1>6, EmptyQueue DEF StaleInv
  <1>8. WireInv
    <2>1. last <= DaaScore[tip]
      BY <1>2, ScoreIs
    <2>2. tip \in Block /\ last \in Nat \cup {-1}
      BY <1>2
    <2> QED BY <1>2, <2>1, <2>2, WireEmpty DEF WireInv
  <1>9. FollowInv
    BY <1>2 DEF FollowInv
  <1> QED BY <1>1, <1>3, <1>4, <1>5, <1>7, <1>8, <1>9 DEF ConvergeInv, BaseInv

LEMMA ConvergeStep ==
    HiddenReorgs = FALSE /\ ConvergeInv /\ [Next]_vars => ConvergeInv'
  BY BaseStep, LinkInvStep, StaleStep, WireStep, FollowStep DEF ConvergeInv

LEMMA QuietConverges == ConvergeInv => Converges
  <1> SUFFICES ASSUME ConvergeInv, Quiet, ~gaveUp
               PROVE  /\ OnChain(tip) \ OnChain(base) \subseteq Kept
                      /\ Kept \subseteq OnChain(tip)
    BY DEF Converges, Kept
  <1>1. /\ link = "up" /\ open /\ ~gapCheck /\ wire = <<>> /\ outbox = <<>> /\ channel = <<>>
        /\ todo = <<>> /\ recovery = {} /\ refetch = {}
    BY DEF Quiet, Node!Idle
  <1>2. Queue = <<>>
    BY <1>1 DEF Queue, Emitted
  <1>3. ASSUME NEW b \in OnChain(tip) \ OnChain(base) PROVE b \in Kept
    <2>1. Followed(b)
      BY <1>1, <1>3 DEF ConvergeInv, FollowInv, Follows
    <2>2. ~Announced(b, Queue)
      BY <1>2, EmptyQueue
    <2>3. ~Overdue(b)
      BY <1>1 DEF Overdue
    <2>4. ~Due(b) /\ ~Requested(b)
      BY <1>1 DEF Due, Requested, Awaited
    <2> QED BY <2>1, <2>2, <2>3, <2>4 DEF Followed, Arriving, Held
  <1>4. ASSUME NEW c \in Kept PROVE c \in OnChain(tip)
    <2>1. c \in Block /\ c \in Known
      BY DEF ConvergeInv, BaseInv, FInv, FeedTypes, Kept, Known
    <2>2. ~Retracted(c, Queue)
      BY <1>2, EmptyQueue
    <2> QED BY <1>1, <2>1, <2>2 DEF ConvergeInv, StaleInv
  <1> QED BY <1>3, <1>4

\* Once everything upstream sent is handled, the connection stands and the gap check of
\* the last reconnect is done, the node keeps exactly the blocks of the selected chain
\* (all of them above the tip of the connection on which the driver first emitted), if no
\* recovery was given up: what a lost connection took is found by the gap check of
\* `run_subscription_once` and fetched by `recover_blocks_in_daa_range`.  It is about
\* reorganizations that are announced; run hidden_reorg shows what the score
\* check misses when one is not.
THEOREM NodeConverges ==
    ASSUME HiddenReorgs = FALSE
    PROVE  Spec => []Converges
  <1>1. ConvergeInv /\ [Next]_vars => ConvergeInv'
    BY ConvergeStep
  <1> QED BY <1>1, ConvergeInit, QuietConverges, PTL DEF Spec
===============================================================================
