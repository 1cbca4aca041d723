-------------------------------- MODULE Feed --------------------------------
(***************************************************************************)
(* The live feed of kasgraph-node: the subscription driver of kasgraph-rpc *)
(* (`run_continuous_subscription`), the bounded channel it fills, and the  *)
(* loop that drains it into the ingestion state machine and recovers gaps  *)
(* (`run_continuous_ingestion`), with the upstream node they talk to.      *)
(*                                                                         *)
(* Upstream's blocks form a tree of selected parents; its selected chain   *)
(* is the path to the current tip.  While connected it announces every new *)
(* chain block (BlockAdded) and then the change (VirtualChainChanged).     *)
(* A message still on the wire when the connection ends is lost.           *)
(*                                                                         *)
(* Left out: how long the driver sleeps between attempts, failover between *)
(* endpoints, and what is written to the store (module Indexer).           *)
(***************************************************************************)
EXTENDS Integers, Sequences, FiniteSetsExt, Functions

CONSTANTS
    Block, DaaScore, FinalityDepth,   \* as in Ingestion
    Path,          \* the selected chain ending in each block, root first
    Root,          \* the tip upstream starts with
    Capacity,      \* KASGRAPH_CONTINUOUS_CHANNEL_CAPACITY
    MaxAttempts,   \* SubscriptionBackoff.max_attempts; 0 is "retry forever"
    HiddenReorgs,  \* may upstream drop chain blocks while nobody is told?
    MaxChanges,    \* bound: chain changes in a behaviour
    MaxDrops       \* bound: failed or ended connections in a behaviour

ASSUME FeedAssumption ==
    /\ DaaScore \in [Block -> Nat \ {0}]
    /\ Path \in [Block -> Seq(Block)]
    /\ \A b \in Block : /\ Path[b] # <<>> /\ Path[b][Len(Path[b])] = b
                        /\ \A i \in DOMAIN Path[b] : Path[Path[b][i]] = SubSeq(Path[b], 1, i)
                        /\ \A i, j \in DOMAIN Path[b] :
                            i < j => DaaScore[Path[b][i]] < DaaScore[Path[b][j]]
    /\ Root \in Block
    /\ FinalityDepth \in Nat /\ Capacity \in Nat \ {0} /\ MaxAttempts \in Nat
    /\ HiddenReorgs \in BOOLEAN
    /\ MaxChanges \in Nat /\ MaxDrops \in Nat

VARIABLES
    committed, probabilistic, finalized, todo, writes, unwinds, recovery,
                \* as in Ingestion
    tip,        \* upstream's virtual selected parent
    wire,       \* messages upstream has sent and the driver not yet read
    changes,    \* chain changes so far
    link,       \* the driver: "down", "connecting", "up" or "stopped"
    attempt,    \* consecutive failed attempts
    drops,      \* failed or ended connections so far
    last,       \* DriverState.last_emitted_daa; -1 before any was emitted
    gapCheck,   \* DriverState.pending_gap_check
    base,       \* history: the tip at the last connection made before any was emitted
    outbox,     \* notifications the driver is about to send
    channel,    \* the bounded channel between the two tasks
    open,       \* does the loop still hold the receiver?
    refetch,    \* the gap the loop is about to recover: {} or one range
    gaveUp      \* history: has a recovery been given up?

nodeVars   == <<committed, probabilistic, finalized, todo, writes, unwinds, recovery>>
chainVars  == <<tip, changes>>
driverVars == <<link, attempt, drops, last, gapCheck, base>>
vars == <<nodeVars, chainVars, wire, driverVars, outbox, channel, open, refetch, gaveUp>>

Node == INSTANCE Ingestion WITH AddedLists <- {}, GapBounds <- {}

------------------------------------------------------------------------------

(***************************************************************************)
(* Messages.                                                               *)
(***************************************************************************)

OnChain(b) == Range(Path[b])

\* The blocks of a list that are in a set, in the order of the list.
Among(set, blocks) ==
    LET kept[n \in 0..Len(blocks)] ==
            IF n = 0 THEN <<>>
            ELSE IF blocks[n] \in set THEN Append(kept[n - 1], blocks[n])
                 ELSE kept[n - 1]
    IN  kept[Len(blocks)]

NewBlocks(from, to) == Among(Block \ OnChain(from), Path[to])

Added(b)        == [kind |-> "block", removed |-> {}, blocks |-> <<b>>]
Changed(old, new) == [kind |-> "chain", removed |-> OnChain(old) \ OnChain(new),
                      blocks |-> NewBlocks(old, new)]
Gap(from, to)   == [kind |-> "gap", from |-> from, to |-> to]

Announcements(old, new) ==
    [i \in DOMAIN NewBlocks(old, new) |-> Added(NewBlocks(old, new)[i])]
        \o <<Changed(old, new)>>

Scores(m) == {DaaScore[b] : b \in Range(m.blocks)}
NotFinal(blocks) == [i \in DOMAIN blocks |-> [block |-> blocks[i], final |-> FALSE]]

Init ==
    /\ Node!Init
    /\ tip = Root /\ changes = 0 /\ wire = <<>>
    /\ link = "down" /\ attempt = 0 /\ drops = 0 /\ last = -1 /\ gapCheck = FALSE
    /\ base = Root
    /\ outbox = <<>> /\ channel = <<>> /\ open = TRUE /\ refetch = {} /\ gaveUp = FALSE

(***************************************************************************)
(* Upstream.                                                               *)
(***************************************************************************)

\* The selected chain moves to a heavier tip.
Advance ==
    /\ changes < MaxChanges /\ changes' = changes + 1
    /\ \E b \in Block :
          /\ DaaScore[b] > DaaScore[tip]
          /\ HiddenReorgs \/ link = "up" \/ OnChain(tip) \subseteq OnChain(b)
          /\ tip' = b
          /\ wire' = IF link = "up" THEN wire \o Announcements(tip, b) ELSE wire
    /\ UNCHANGED <<nodeVars, driverVars, outbox, channel, open, refetch, gaveUp>>

------------------------------------------------------------------------------

(***************************************************************************)
(* The driver: run_continuous_subscription.                                *)
(***************************************************************************)

\* At the top of the loop the receiver is still there: another attempt begins.
Dial ==
    /\ link = "down" /\ open
    /\ link' = "connecting"
    /\ UNCHANGED <<nodeVars, chainVars, wire, attempt, drops, last, gapCheck, base,
                   outbox, channel, open, refetch, gaveUp>>

\* connect_async and the two subscribe requests succeed.  They are awaited bare: no
\* timeout ends the wait, and the receiver is not looked at.  What was announced on
\* earlier connections that emitted nothing is forgotten: the gap check needs a score.
Connect ==
    /\ link = "connecting"
    /\ link' = "up"
    /\ base' = IF last = -1 THEN tip ELSE base
    /\ UNCHANGED <<nodeVars, chainVars, wire, attempt, drops, last, gapCheck,
                   outbox, channel, open, refetch, gaveUp>>

\* Whatever was still on the wire is lost, and the next fresh score is checked.
Disconnect ==
    /\ drops < MaxDrops /\ drops' = drops + 1
    /\ HiddenReorgs \/ \A i \in DOMAIN wire : wire[i].removed = {}
    /\ wire' = <<>>
    /\ UNCHANGED <<nodeVars, chainVars, last, base, outbox, channel, open, refetch, gaveUp>>

\* The stream ended or the server closed it.
StreamEnds ==
    /\ link = "up" /\ outbox = <<>>
    /\ link' = "down" /\ attempt' = 0 /\ gapCheck' = TRUE
    /\ Disconnect

\* Connecting, reading or fetching the blocks of a message failed.
AttemptFails ==
    /\ link \in {"connecting", "up"} /\ outbox = <<>>
    /\ attempt' = attempt + 1
    /\ IF MaxAttempts # 0 /\ attempt' > MaxAttempts
       THEN link' = "stopped" /\ UNCHANGED gapCheck
       ELSE link' = "down" /\ gapCheck' = TRUE
    /\ Disconnect

\* The gap a message reveals: the first score above the last one emitted is not the next.
GapFromLast(m) ==
    LET fresh == {s \in Scores(m) : s > last}
    IN  IF gapCheck /\ last # -1 /\ fresh # {} /\ Min(fresh) > last + 1
        THEN <<Gap(last, Min(fresh) - 1)>>
        ELSE <<>>
GapUnchecked(m) == <<>>
GapBefore(m) ==
    LET fresh == {s \in Scores(m) : s > last}
    IN  IF gapCheck /\ last # -1 /\ fresh # {} /\ Min(fresh) > last + 1
        THEN <<Gap(last + 1, Min(fresh) - 1)>>
        ELSE <<>>

\* A message arrives and its blocks are at hand.
Read ==
    /\ link = "up" /\ open /\ outbox = <<>> /\ wire # <<>>
    /\ LET m == Head(wire)
       IN  /\ outbox' = GapBefore(m) \o <<m>>
           /\ gapCheck' = (gapCheck /\ \A s \in Scores(m) : s <= last)
           /\ last' = Max(Scores(m) \cup {last})
    /\ wire' = Tail(wire)
    /\ UNCHANGED <<nodeVars, chainVars, link, attempt, drops, base, channel, open, refetch, gaveUp>>

\* sender.send waits while the channel is full.
Send ==
    /\ outbox # <<>> /\ open /\ Len(channel) < Capacity
    /\ channel' = Append(channel, Head(outbox))
    /\ outbox' = Tail(outbox)
    /\ UNCHANGED <<nodeVars, chainVars, wire, driverVars, open, refetch, gaveUp>>

\* The receiver is gone: a pending send fails, or the read's select sees it.  The
\* connection ends as if the stream had ended.
HangUp ==
    /\ link' = "down" /\ attempt' = 0 /\ gapCheck' = TRUE
    /\ outbox' = <<>> /\ wire' = <<>>
    /\ UNCHANGED <<nodeVars, chainVars, drops, last, base, channel, open, refetch, gaveUp>>
NoticeOnSend == ~open /\ link = "up" /\ outbox # <<>> /\ HangUp
NoticeClosed == ~open /\ link = "up" /\ HangUp

\* The check at the top of the loop sees it.
Stop ==
    /\ ~open /\ link = "down"
    /\ link' = "stopped"
    /\ UNCHANGED <<nodeVars, chainVars, wire, attempt, drops, last, gapCheck, base,
                   outbox, channel, open, refetch, gaveUp>>

------------------------------------------------------------------------------

(***************************************************************************)
(* The loop: run_continuous_ingestion.                                     *)
(***************************************************************************)

Unhandled == <<chainVars, wire, driverVars, outbox, open>>

\* The loop receives the next notification.
Take(kind) ==
    /\ open /\ Node!Idle /\ refetch = {}
    /\ channel # <<>> /\ Head(channel).kind = kind
    /\ channel' = Tail(channel)
    /\ UNCHANGED <<Unhandled, refetch, gaveUp>>

TakeBlock == Take("block") /\ Node!BlockAdded(Head(channel).blocks[1], FALSE)

TakeChainChange ==
    /\ Take("chain")
    /\ Node!VirtualChainChanged(Head(channel).removed, NotFinal(Head(channel).blocks))

TakeGap == Take("gap") /\ Node!RecoveryRequired(Head(channel).from, Head(channel).to)

ApplyBlock ==
    /\ open /\ Node!ApplyBlock
    /\ UNCHANGED <<Unhandled, channel, refetch, gaveUp>>

\* apply_and_persist_notification is done; the outcome may ask for a recovery.
Handled ==
    /\ open /\ Node!Return
    /\ refetch' = recovery
    /\ UNCHANGED <<Unhandled, channel, gaveUp>>

\* recovery_anchor_hash: the highest known blocks below the gap.
Anchors(from) ==
    LET below == {b \in committed \cup probabilistic : DaaScore[b] < from}
    IN  {b \in below : \A c \in below : DaaScore[c] <= DaaScore[b]}

\* recover_blocks_in_daa_range: the chain from the anchor on, as of now, and of it
\* the blocks inside the gap.
Recover ==
    /\ open /\ refetch # {} /\ Node!Idle
    /\ \E r \in refetch : \E anchor \in Anchors(r[1]) :
          Node!VirtualChainChanged(
              Changed(anchor, tip).removed,
              NotFinal(Among({b \in Block : DaaScore[b] \in r[1] .. r[2]},
                             Changed(anchor, tip).blocks)))
    /\ refetch' = {}
    /\ UNCHANGED <<Unhandled, channel, gaveUp>>

\* There is no anchor, or an RPC call failed.  The gap is only logged; without an anchor
\* the code may instead fetch a configured list of blocks, whatever the chain is by then.
GiveUpRecovery ==
    /\ open /\ refetch # {} /\ Node!Idle
    /\ refetch' = {}
    /\ gaveUp' = TRUE
    /\ UNCHANGED <<nodeVars, Unhandled, channel>>

\* Ctrl-C or the message limit, between two notifications; or the channel is closed.
Leave ==
    /\ open /\ Node!Idle /\ refetch = {}
    /\ open' = FALSE
    /\ UNCHANGED <<nodeVars, chainVars, wire, driverVars, outbox, channel, refetch, gaveUp>>

Shutdown == Leave
ChannelClosed == link = "stopped" /\ channel = <<>> /\ Leave

DriverStep == Dial \/ Read \/ Send \/ NoticeClosed \/ Stop
LoopStep ==
    \/ TakeBlock \/ TakeChainChange \/ TakeGap \/ ApplyBlock \/ Handled
    \/ Recover \/ GiveUpRecovery \/ ChannelClosed

Next == Advance \/ Connect \/ StreamEnds \/ AttemptFails \/ DriverStep \/ LoopStep \/ Shutdown

\* Each task is scheduled when it can run, and RPC calls end by a timeout.  Nothing makes
\* a connection attempt succeed or fail: no fairness is assumed of Connect, AttemptFails.
Spec == Init /\ [][Next]_vars /\ WF_vars(DriverStep) /\ WF_vars(LoopStep)

------------------------------------------------------------------------------

(***************************************************************************)
(* Properties.                                                             *)
(***************************************************************************)

\* Everything upstream has sent is handled, and a reconnect has been checked for a gap.
Quiet ==
    /\ link = "up" /\ open /\ ~gapCheck /\ wire = <<>> /\ outbox = <<>> /\ channel = <<>>
    /\ Node!Idle /\ refetch = {}

\* Once quiet, the node holds the selected chain above `base`: what reconnects lost since
\* the connection on which the first notification was emitted was recovered, unless a
\* recovery was given up, and nothing else was kept.
Converges ==
    Quiet /\ ~gaveUp =>
        /\ OnChain(tip) \ OnChain(base) \subseteq committed \cup probabilistic
        /\ committed \cup probabilistic \subseteq OnChain(tip)

\* A gap the driver reports covers only scores the node knows no block of when the gap
\* reaches it, so rolling back the range before recovering it loses nothing, whatever
\* was still queued in the channel when the gap was computed.
GapHoldsNothingKnown ==
    [][ \A r \in recovery' \ recovery :
            \A b \in committed \cup probabilistic : DaaScore[b] \notin r[1] .. r[2] ]_vars

\* A gap is only reported when the node knows a block below it: recovery_anchor_hash finds
\* one, and the configured fallback list is not needed.
GapsHaveAnchor == \A r \in refetch : Anchors(r[1]) # {}

\* When either task ends the other one does, as long as no connection attempt stays
\* pending for ever: the loop drains the channel of a driver that gave up, and the driver
\* notices a dropped receiver even with nothing to send.
BothTasksEnd ==
    []<>(link # "connecting") =>
        ((~open \/ link = "stopped") ~> (~open /\ link = "stopped"))

=============================================================================
