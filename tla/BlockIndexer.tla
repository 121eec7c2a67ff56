----------------------------- MODULE BlockIndexer -----------------------------
(***************************************************************************)
(* The block indexer of csic/blockchain/indexer: SyncBlocks                *)
(* (internal/indexer/indexer.go) copies the blocks of a node into Postgres *)
(* (internal/repository/postgres.go), range by range and                   *)
(* ConfirmationBlocks behind the head, and keeps its cursor and a marker   *)
(* per finished block in Redis (internal/repository/redis.go).             *)
(*                                                                         *)
(* One instance of the service.  Every call to the node, Postgres or Redis *)
(* is a step; a write may fail before or after it took effect.  The        *)
(* process dies at any point and is started again.  Besides the loop that  *)
(* main starts, Reindex starts one of its own, and Stop clears the flag    *)
(* that keeps them apart.  The node's chain is the environment: it grows,  *)
(* and a suffix of it may be replaced.                                     *)
(*                                                                         *)
(* A block is known by its height and the fork it is on.  Rows of          *)
(* address_meta, logs and token_transfers are counted by transaction;      *)
(* total_indexed_blocks, which nothing reads back, is left out.            *)
(***************************************************************************)
EXTENDS Integers, Sequences, FiniteSets

CONSTANTS
    Start,          \* StartBlock
    Confirmations,  \* ConfirmationBlocks
    BatchSize,      \* BatchSize, and ReindexBatchSize
    Main,           \* the loop started by main
    Reindexers,     \* callers of Reindex
    Forks,          \* versions of a block
    Txs,            \* transactions
    Body,           \* the transactions of each block
    Nil,            \* no block, no row
    MaxReorg,       \* blocks the node may replace at its head (external)
    MaxHeight,      \* the chain stops growing here (model bound)
    Budgets         \* how many crashes, faults, reorgs, Stops and cancellations may happen
                    \* (model bounds)

Heights == Start .. MaxHeight
Syncs == {Main} \cup Reindexers

ASSUME IndexerAssumption ==
    /\ Start \in Nat /\ MaxHeight \in Nat
    /\ Confirmations \in Nat
    /\ MaxReorg \in Nat /\ MaxReorg <= Confirmations
    /\ BatchSize \in Nat \ {0}
    /\ Start <= MaxHeight
    /\ Main \notin Reindexers /\ IsFiniteSet(Reindexers)
    /\ Body \in [Heights -> [Forks -> Seq(Txs)]]
    /\ Nil \notin Forks \cup (Heights \X Forks)
    /\ Budgets \subseteq [crash : Nat, fault : Nat, reorg : Nat, stop : Nat, cancel : Nat]

VARIABLES
    chain,    \* the node's chain: the fork of the block at each height
    head,     \* its height
    running,  \* IndexerService.running
    pc,       \* where each loop is in SyncBlocks and syncBlockRange
    last,     \* its lastIndexed
    next,     \* its blockNum
    end,      \* its endBlock
    held,     \* the block it fetched
    tx,       \* the index of its transaction
    cursor,   \* last_indexed_block in Redis; Start - 1 also when there is none
    marked,   \* heights with a marker "indexed:n" in Redis
    blocks,   \* table blocks: the fork stored at each height, or Nil
    rows,     \* table transactions: the block each was stored with, or Nil
    extras,   \* how often the metadata and logs of each transaction were written
    warned,   \* transactions whose failed insert was logged
    hurt,     \* history: passes over each block that were cut short or overlapped
    budget    \* crashes, faults, reorgs, Stops and cancellations still possible

node  == <<chain, head>>
place == <<next, end, held, tx>>
redis == <<cursor, marked>>
store == <<blocks, rows, extras, warned>>
vars  == <<node, running, pc, last, place, redis, store, hurt, budget>>

\* Steps of syncBlockRange on a block it found without a marker.
Inside == {"fetch", "insert", "body", "row", "extras"}
Places == {"off", "refused", "start", "load", "poll", "check"} \cup Inside

TypeOK ==
    /\ chain \in [Heights -> Forks] /\ head \in Heights
    /\ running \in BOOLEAN
    /\ pc \in [Syncs -> Places]
    /\ last \in [Syncs -> Start - 1 .. MaxHeight]
    /\ next \in [Syncs -> Start .. MaxHeight + 1]
    /\ end \in [Syncs -> Heights]
    /\ held \in [Syncs -> Forks \cup {Nil}]
    /\ tx \in [Syncs -> Nat \ {0}]
    /\ cursor \in Start - 1 .. MaxHeight
    /\ marked \subseteq Heights
    /\ blocks \in [Heights -> Forks \cup {Nil}]
    /\ rows \in [Txs -> (Heights \X Forks) \cup {Nil}]
    /\ extras \in [Txs -> Nat]
    /\ warned \subseteq Txs
    /\ hurt \in [Heights -> Nat]
    /\ budget \in [crash : Nat, fault : Nat, reorg : Nat, stop : Nat, cancel : Nat]

\* A transaction is in one block of a chain, and at one place of it.
Valid(c) ==
    \A n, m \in Heights : \A i \in 1 .. Len(Body[n][c[n]]), j \in 1 .. Len(Body[m][c[m]]) :
        Body[n][c[n]][i] = Body[m][c[m]][j] => n = m /\ i = j

Init ==
    /\ \E v \in Forks : chain = [n \in Heights |-> v]
    /\ Valid(chain) /\ head = Start
    /\ running = FALSE
    /\ pc = [s \in Syncs |-> IF s = Main THEN "start" ELSE "off"]
    /\ last = [s \in Syncs |-> Start - 1]
    /\ next = [s \in Syncs |-> Start]
    /\ end = [s \in Syncs |-> Start]
    /\ held = [s \in Syncs |-> Nil]
    /\ tx = [s \in Syncs |-> 1]
    /\ cursor = Start - 1 /\ marked = {}
    /\ blocks = [n \in Heights |-> Nil]
    /\ rows = [t \in Txs |-> Nil]
    /\ extras = [t \in Txs |-> 0]
    /\ warned = {}
    /\ hurt = [n \in Heights |-> 0]
    /\ budget \in Budgets

-----------------------------------------------------------------------------
(* The node. *)

\* A new block on top of the chain; chain already says which.
Mine ==
    /\ head < MaxHeight
    /\ head' = head + 1
    /\ UNCHANGED <<chain, running, pc, last, place, redis, store, hurt, budget>>

\* The node follows another fork, which replaces its last blocks.
Reorg ==
    /\ budget.reorg > 0
    /\ \E d \in 1 .. MaxReorg, v \in Forks :
           chain' = [n \in Heights |-> IF n > head - d THEN v ELSE chain[n]]
    /\ Valid(chain')
    /\ budget' = [budget EXCEPT !.reorg = @ - 1]
    /\ UNCHANGED <<head, running, pc, last, place, redis, store, hurt>>

-----------------------------------------------------------------------------
(* Calls that fail, and where a failed or finished pass leaves its loop. *)

Fault == budget.fault > 0 /\ budget' = [budget EXCEPT !.fault = @ - 1]

Goto(s, p) == pc' = [pc EXCEPT ![s] = p]

\* Passes that end without their marker, or begin beside another one.
Hurt(S) == hurt' = [n \in Heights |-> IF n \in S THEN hurt[n] + 1 ELSE hurt[n]]

\* The local variables of a range no longer count.
LeaveRange(S) ==
    /\ next' = [s \in Syncs |-> IF s \in S THEN Start ELSE next[s]]
    /\ end' = [s \in Syncs |-> IF s \in S THEN Start ELSE end[s]]
    /\ held' = [s \in Syncs |-> IF s \in S THEN Nil ELSE held[s]]
    /\ tx' = [s \in Syncs |-> IF s \in S THEN 1 ELSE tx[s]]

\* The next block of the range.
NextBlock(s) ==
    /\ next' = [next EXCEPT ![s] = @ + 1]
    /\ held' = [held EXCEPT ![s] = Nil]
    /\ tx' = [tx EXCEPT ![s] = 1]
    /\ Goto(s, "check")
    /\ UNCHANGED end

\* Mutant of Abort: the block is passed over, as a transaction would be.
AbortGoesOn(s) ==
    /\ NextBlock(s)
    /\ Hurt(IF pc[s] \in Inside THEN {next[s]} ELSE {})

\* Mutant of Abort: SyncBlocks returns the error.
AbortReturns(s) ==
    /\ Goto(s, "off")
    /\ Hurt(IF pc[s] \in Inside THEN {next[s]} ELSE {})
    /\ LeaveRange({s})

\* syncBlockRange returns an error: the same range is tried again.
Abort(s) ==
    /\ Goto(s, "poll")
    /\ Hurt(IF pc[s] \in Inside THEN {next[s]} ELSE {})
    /\ LeaveRange({s})

-----------------------------------------------------------------------------
(* SyncBlocks. *)

\* Only one loop at a time, as far as running tells.  main does not try again;
\* whoever calls Reindex may.
Enter(s) ==
    /\ pc[s] = "start"
    /\ \/ running /\ Goto(s, IF s = Main THEN "refused" ELSE "off") /\ UNCHANGED running
       \/ ~running /\ Goto(s, "load") /\ running' = TRUE
    /\ UNCHANGED <<node, last, place, redis, store, hurt, budget>>

\* An error, and a missing cursor is one, makes the loop begin at the first block.
Load(s) ==
    /\ pc[s] = "load" /\ Goto(s, "poll")
    /\ \/ last' = [last EXCEPT ![s] = cursor] /\ UNCHANGED budget
       \/ Fault /\ last' = [last EXCEPT ![s] = Start - 1]
    /\ UNCHANGED <<node, running, place, redis, store, hurt>>

\* Mutant of Safe: blocks are taken as soon as they are found.
SafeAtHead == head

\* The last block with enough confirmations.
Safe == head - Confirmations

RangeEnd(first) == IF first + BatchSize - 1 < Safe THEN first + BatchSize - 1 ELSE Safe

\* The next range; with no safe block left the loop sleeps, as it does when the
\* node does not answer.  (Its correction of a cursor below Start - 1 is for a
\* StartBlock that was raised between two runs of the service.)
Poll(s) ==
    /\ pc[s] = "poll" /\ last[s] < Safe
    /\ next' = [next EXCEPT ![s] = last[s] + 1]
    /\ end' = [end EXCEPT ![s] = RangeEnd(last[s] + 1)]
    /\ Goto(s, "check")
    /\ UNCHANGED <<held, tx, node, running, last, redis, store, hurt, budget>>

\* The range is done: the cursor follows, unless Redis fails, which is ignored.
Advance(s) ==
    /\ pc[s] = "check" /\ next[s] > end[s] /\ Goto(s, "poll")
    /\ last' = [last EXCEPT ![s] = end[s]]
    /\ \/ cursor' = end[s] /\ UNCHANGED budget
       \/ Fault /\ cursor' \in {cursor, end[s]}
    /\ LeaveRange({s})
    /\ UNCHANGED <<node, running, marked, store, hurt>>

-----------------------------------------------------------------------------
(* syncBlockRange, one block of the range at a time. *)

\* Mutant of Check: markers are not looked at.
CheckNoMarker(s) ==
    /\ pc[s] = "check" /\ next[s] <= end[s]
    /\ \/ /\ Goto(s, "fetch")
          /\ Hurt({next[s]} \cap {next[r] : r \in {q \in Syncs : pc[q] \in Inside}})
          /\ UNCHANGED <<place, budget>>
       \/ Fault /\ Abort(s)
    /\ UNCHANGED <<node, running, last, redis, store>>

\* A marked block is skipped.
Check(s) ==
    /\ pc[s] = "check" /\ next[s] <= end[s]
    /\ \/ next[s] \in marked /\ NextBlock(s) /\ UNCHANGED <<hurt, budget>>
       \/ /\ next[s] \notin marked /\ Goto(s, "fetch")
          /\ Hurt({next[s]} \cap {next[r] : r \in {q \in Syncs : pc[q] \in Inside}})
          /\ UNCHANGED <<place, budget>>
       \/ Fault /\ Abort(s)
    /\ UNCHANGED <<node, running, last, redis, store>>

\* GetBlockByNumber, and GetBlockWithTransactions once the block is stored: two
\* calls, which need not find the same block.
Fetch(s) ==
    /\ \/ /\ \/ pc[s] = "fetch" /\ Goto(s, "insert")
             \/ pc[s] = "body" /\ Goto(s, "row")
          /\ held' = [held EXCEPT ![s] = chain[next[s]]]
          /\ UNCHANGED <<next, end, tx, hurt, budget>>
       \/ pc[s] \in {"fetch", "body"} /\ Fault /\ Abort(s)
    /\ UNCHANGED <<node, running, last, redis, store>>

\* The row of a height is replaced when there is one.
InsertBlock(s) ==
    LET stored == [blocks EXCEPT ![next[s]] = held[s]]
    IN  /\ pc[s] = "insert"
        /\ \/ Goto(s, "body") /\ blocks' = stored /\ UNCHANGED <<hurt, place, budget>>
           \/ Fault /\ Abort(s) /\ blocks' \in {blocks, stored}
        /\ UNCHANGED <<node, running, last, redis, rows, extras, warned>>

BlockOf(s) == Body[next[s]][held[s]]
TxOf(s) == BlockOf(s)[tx[s]]

\* ON CONFLICT (hash) DO NOTHING; a failure is logged and the transaction passed over.
InsertTransaction(s) ==
    LET t == TxOf(s)
        stored == IF rows[t] = Nil THEN [rows EXCEPT ![t] = <<next[s], held[s]>>] ELSE rows
    IN  /\ pc[s] = "row" /\ tx[s] <= Len(BlockOf(s)) /\ Goto(s, "extras")
        /\ \/ rows' = stored /\ UNCHANGED <<warned, budget>>
           \/ Fault /\ rows' \in {rows, stored} /\ warned' = warned \cup {t}
        /\ UNCHANGED <<node, running, last, place, redis, blocks, extras, hurt>>

\* updateAddressMetadata adds one to tx_count, and processTransactionLogs inserts
\* rows without a unique column: neither can tell a repetition.  Their errors
\* are ignored or logged.
WriteExtras(s) ==
    LET written == [extras EXCEPT ![TxOf(s)] = @ + 1]
    IN  /\ pc[s] = "extras" /\ Goto(s, "row")
        /\ tx' = [tx EXCEPT ![s] = @ + 1]
        /\ \/ extras' = written /\ UNCHANGED budget
           \/ Fault /\ extras' \in {extras, written}
        /\ UNCHANGED <<node, running, last, next, end, held, redis, blocks, rows, warned, hurt>>

\* Mutant of Mark: the block is marked inside the loop over its transactions.
MarkInLoop(s) ==
    /\ pc[s] = "row" /\ tx[s] >= Len(BlockOf(s)) /\ NextBlock(s)
    /\ \/ marked' = marked \cup {next[s]} /\ UNCHANGED <<hurt, budget>>
       \/ Fault /\ marked' \in {marked, marked \cup {next[s]}} /\ Hurt({next[s]})
    /\ UNCHANGED <<node, running, last, cursor, store>>

\* After the last transaction the block is marked; a failure is ignored.
Mark(s) ==
    /\ pc[s] = "row" /\ tx[s] > Len(BlockOf(s)) /\ NextBlock(s)
    /\ \/ marked' = marked \cup {next[s]} /\ UNCHANGED <<hurt, budget>>
       \/ Fault /\ marked' \in {marked, marked \cup {next[s]}} /\ Hurt({next[s]})
    /\ UNCHANGED <<node, running, last, cursor, store>>

Sync(s) ==
    \/ Enter(s) \/ Load(s) \/ Poll(s) \/ Check(s) \/ Advance(s)
    \/ Fetch(s) \/ InsertBlock(s) \/ InsertTransaction(s) \/ WriteExtras(s) \/ Mark(s)

-----------------------------------------------------------------------------
(* Reindex, Stop, and the end of the process. *)

\* Reindex sets the cursor back before SyncBlocks finds out that a loop runs.
Reindex(s) ==
    /\ s \in Reindexers /\ pc[s] = "off" /\ Goto(s, "start")
    /\ \/ cursor' = Start - 1 /\ UNCHANGED budget
       \/ Fault /\ cursor' \in {cursor, Start - 1}
    /\ UNCHANGED <<node, running, last, place, marked, store, hurt>>

\* The context of a caller of Reindex is done: its loop ends between two ranges, and
\* clears the flag.  (What its last calls missed are faults.)
Cancel(s) ==
    /\ s \in Reindexers /\ pc[s] = "poll" /\ Goto(s, "off") /\ running' = FALSE
    /\ budget.cancel > 0 /\ budget' = [budget EXCEPT !.cancel = @ - 1]
    /\ UNCHANGED <<node, last, place, redis, store, hurt>>

\* Stop clears the flag; the loop does not look at it.
Stop ==
    /\ running /\ budget.stop > 0 /\ running' = FALSE
    /\ budget' = [budget EXCEPT !.stop = @ - 1]
    /\ UNCHANGED <<node, pc, last, place, redis, store, hurt>>

\* The process dies, and its container starts it again.
Crash ==
    /\ budget.crash > 0 /\ budget' = [budget EXCEPT !.crash = @ - 1]
    /\ running' = FALSE
    /\ pc' = [s \in Syncs |-> IF s = Main THEN "start" ELSE "off"]
    /\ Hurt({next[s] : s \in {r \in Syncs : pc[r] \in Inside}})
    /\ last' = [s \in Syncs |-> Start - 1] /\ LeaveRange(Syncs)
    /\ UNCHANGED <<node, redis, store>>

Next ==
    \/ Mine \/ Reorg \/ Stop \/ Crash
    \/ \E s \in Syncs : Sync(s) \/ Reindex(s) \/ Cancel(s)

Spec == Init /\ [][Next]_vars

\* The loops run on; blocks are found, and the budgets bound everything else.
FairSpec == Spec /\ \A s \in Syncs : WF_vars(Sync(s))
-----------------------------------------------------------------------------
(* Properties. *)

\* The block of a height is stored, and each of its transactions too, unless the
\* log has a warning about it.
Covered(n) ==
    /\ blocks[n] # Nil
    /\ \A i \in 1 .. Len(Body[n][blocks[n]]) :
           LET t == Body[n][blocks[n]][i] IN rows[t] # Nil \/ t \in warned

\* Confirmations are enough: with reorgs no deeper than ConfirmationBlocks, no row
\* of blocks or transactions is ever of a fork the chain has left, although header
\* and transactions are fetched apart (syncBlockRange).
IndexIsCanonical ==
    /\ \A n \in Heights : blocks[n] \in {Nil, chain[n]}
    /\ \A t \in Txs : \A n \in Heights, v \in Forks :
           rows[t] = <<n, v>> => v = chain[n] /\ blocks[n] = chain[n]

\* The cursor never runs ahead of the tables: whatever call failed and wherever the
\* process died, every height up to last_indexed_block is covered (SyncBlocks).
CursorBacked == \A n \in Start .. cursor : Covered(n)

\* Nor does a marker, which is what makes every later pass skip the block
\* (syncBlockRange).
MarkerBacked == \A n \in marked : Covered(n)

\* Metadata and logs of a transaction are written twice only if a pass over its
\* block was cut short, lost its marker, or ran beside another: going back to the
\* first block, after Reindex or without a cursor, repeats nothing by itself.
RepeatsHaveACause ==
    \A n \in Heights : blocks[n] # Nil =>
        \A i \in 1 .. Len(Body[n][blocks[n]]) : extras[Body[n][blocks[n]][i]] <= 1 + hurt[n]

\* main's loop was refused, and no other is left.
Deserted == pc[Main] = "refused" /\ \A s \in Reindexers : pc[s] = "off"

\* Every block with enough confirmations is covered in the end: errors make the
\* loop try again, a crash makes it start again, and a Stop or a refused Reindex
\* does not take the last loop away.  Only a Reindex that came before main's loop,
\* and whose caller then went away, leaves nobody to index.
CatchesUp == \A n \in Heights : n + Confirmations <= head ~> Covered(n) \/ Deserted
=============================================================================
