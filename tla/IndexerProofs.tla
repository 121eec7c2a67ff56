---------------------------- MODULE IndexerProofs ----------------------------
(***************************************************************************)
(* What BlockIndexer guarantees for every chain, every number of           *)
(* confirmations, every batch size, any number of Reindex callers and any  *)
(* number of faults, crashes, Stops, cancellations and reorgs no deeper    *)
(* than the confirmations: the index is of the chain it follows, neither   *)
(* the cursor nor a marker ever claims a block the tables do not have, and *)
(* repeated writings are accounted for by passes that were cut short.      *)
(***************************************************************************)
EXTENDS BlockIndexer, FiniteSetTheorems, TLAPS

\* Where a loop is in its range, and what it holds there.
InPlace(s) ==
    /\ pc[s] \in {"check"} \cup Inside => next[s] <= end[s] + 1 /\ end[s] <= Safe
    /\ pc[s] \in Inside => next[s] <= end[s]
    /\ pc[s] \in {"insert", "row", "extras"} => held[s] \in Forks
    /\ pc[s] = "extras" => tx[s] <= Len(BlockOf(s))

PlaceInv == \A s \in Syncs : InPlace(s)

-----------------------------------------------------------------------------
(* Types *)

LEMMA StartType == Start \in Heights /\ Start \in Nat /\ MaxHeight \in Nat /\ Confirmations \in Nat
  BY IndexerAssumption DEF Heights

LEMMA Numbers ==
    ASSUME TypeOK, NEW s \in Syncs
    PROVE  /\ last[s] \in Start - 1 .. MaxHeight /\ next[s] \in Start .. MaxHeight + 1
           /\ end[s] \in Start .. MaxHeight /\ cursor \in Start - 1 .. MaxHeight
           /\ head \in Start .. MaxHeight
  BY DEF TypeOK, Heights

LEMMA TypeInit == Init => TypeOK /\ PlaceInv
  <1> SUFFICES ASSUME Init PROVE TypeOK /\ PlaceInv
    OBVIOUS
  <1>1. /\ pc \in [Syncs -> Places] /\ held \in [Syncs -> Forks \cup {Nil}]
        /\ \A s \in Syncs : pc[s] \in {"start", "off"}
    BY DEF Init, Places
  <1>2. /\ last \in [Syncs -> Start - 1 .. MaxHeight]
        /\ next \in [Syncs -> Start .. MaxHeight + 1]
        /\ end \in [Syncs -> Heights] /\ tx \in [Syncs -> Nat \ {0}]
        /\ cursor \in Start - 1 .. MaxHeight
    BY IndexerAssumption, StartType DEF Init, Heights
  <1>3. chain \in [Heights -> Forks] /\ head \in Heights /\ running \in BOOLEAN
    BY StartType DEF Init
  <1>4. budget \in [crash : Nat, fault : Nat, reorg : Nat, stop : Nat, cancel : Nat]
    BY IndexerAssumption DEF Init
  <1>5. TypeOK
    BY <1>1, <1>2, <1>3, <1>4 DEF Init, TypeOK
  <1>6. PlaceInv
    BY <1>1 DEF PlaceInv, InPlace, Inside
  <1> QED
    BY <1>5, <1>6

Budget == [crash : Nat, fault : Nat, reorg : Nat, stop : Nat, cancel : Nat]

LEMMA FaultType == ASSUME budget \in Budget, Fault PROVE budget' \in Budget
  BY DEF Fault, Budget

LEMMA HurtType ==
    ASSUME hurt \in [Heights -> Nat], NEW S, Hurt(S)
    PROVE  hurt' \in [Heights -> Nat]
  BY DEF Hurt

\* The variables of the loops' places in their ranges.
PlaceType ==
    /\ next \in [Syncs -> Start .. MaxHeight + 1]
    /\ end \in [Syncs -> Heights]
    /\ held \in [Syncs -> Forks \cup {Nil}]
    /\ tx \in [Syncs -> Nat \ {0}]

\* What a step of one loop leaves alone in the others.
Others(s) ==
    \A r \in Syncs : r # s =>
        /\ pc'[r] = pc[r] /\ last'[r] = last[r] /\ next'[r] = next[r] /\ end'[r] = end[r]
        /\ held'[r] = held[r] /\ tx'[r] = tx[r]

LEMMA LeaveType ==
    ASSUME PlaceType, NEW S, LeaveRange(S)
    PROVE  PlaceType'
  BY StartType DEF PlaceType, LeaveRange, Heights

LEMMA AbortType ==
    ASSUME TypeOK, NEW s \in Syncs, Abort(s)
    PROVE  PlaceType' /\ pc' \in [Syncs -> Places] /\ pc'[s] = "poll" /\ hurt' \in [Heights -> Nat]
  <1>1. PlaceType'
    BY LeaveType DEF TypeOK, PlaceType, Abort
  <1>2. pc' \in [Syncs -> Places] /\ pc'[s] = "poll"
    BY DEF TypeOK, Abort, Goto, Places
  <1>3. hurt' \in [Heights -> Nat]
    BY HurtType DEF TypeOK, Abort
  <1> QED
    BY <1>1, <1>2, <1>3

LEMMA NextBlockType ==
    ASSUME TypeOK, NEW s \in Syncs, NextBlock(s), next[s] <= end[s]
    PROVE  /\ PlaceType' /\ pc' \in [Syncs -> Places] /\ pc'[s] = "check"
           /\ next'[s] = next[s] + 1 /\ end'[s] = end[s]
  <1>1. next[s] + 1 \in Start .. MaxHeight + 1
    BY ONLY Numbers, StartType, TypeOK, s \in Syncs, next[s] <= end[s]
  <1>2. PlaceType'
    BY <1>1 DEF TypeOK, PlaceType, NextBlock
  <1>3. pc' \in [Syncs -> Places] /\ pc'[s] = "check"
    BY DEF TypeOK, NextBlock, Goto, Places
  <1>4. next'[s] = next[s] + 1 /\ end'[s] = end[s]
    BY DEF TypeOK, NextBlock
  <1> QED
    BY <1>2, <1>3, <1>4

\* The transaction in hand.
LEMMA TxType ==
    ASSUME TypeOK, PlaceInv, NEW s \in Syncs, pc[s] \in {"row", "extras"}
    PROVE  /\ next[s] \in Heights /\ held[s] \in Forks
           /\ BlockOf(s) \in Seq(Txs) /\ Len(BlockOf(s)) \in Nat
           /\ tx[s] <= Len(BlockOf(s)) => TxOf(s) \in Txs
  <1>1. next[s] \in Heights /\ held[s] \in Forks
    BY StartType DEF TypeOK, PlaceInv, InPlace, Inside, Heights
  <1>2. BlockOf(s) \in Seq(Txs)
    BY <1>1, IndexerAssumption DEF BlockOf
  <1>3. tx[s] \in Nat \ {0}
    BY DEF TypeOK
  <1> QED
    BY <1>1, <1>2, <1>3 DEF TxOf

LEMMA OthersSame ==
    ASSUME TypeOK, NEW s \in Syncs, Sync(s)
    PROVE  Others(s) /\ UNCHANGED node
  <1>1. CASE Enter(s)
    BY <1>1 DEF TypeOK, Others, Enter, Goto, place, node
  <1>2. CASE Load(s)
    BY <1>2 DEF TypeOK, Others, Load, Goto, place, node
  <1>3. CASE Poll(s)
    BY <1>3 DEF TypeOK, Others, Poll, Goto, node
  <1>4. CASE Check(s)
    BY <1>4 DEF TypeOK, Others, Check, NextBlock, Abort, LeaveRange, Goto, place, node
  <1>5. CASE Advance(s)
    BY <1>5 DEF TypeOK, Others, Advance, LeaveRange, Goto, node
  <1>6. CASE Fetch(s)
    BY <1>6 DEF TypeOK, Others, Fetch, Abort, LeaveRange, Goto, place, node
  <1>7. CASE InsertBlock(s)
    BY <1>7 DEF TypeOK, Others, InsertBlock, Abort, LeaveRange, Goto, place, node
  <1>8. CASE InsertTransaction(s)
    BY <1>8 DEF TypeOK, Others, InsertTransaction, Goto, place, node
  <1>9. CASE WriteExtras(s)
    BY <1>9 DEF TypeOK, Others, WriteExtras, Goto, node
  <1>10. CASE Mark(s)
    BY <1>10 DEF TypeOK, Others, Mark, NextBlock, Goto, place, node
  <1> QED
    BY <1>1, <1>2, <1>3, <1>4, <1>5, <1>6, <1>7, <1>8, <1>9, <1>10 DEF Sync

LEMMA OthersPlace ==
    ASSUME PlaceInv, NEW s \in Syncs, Others(s), UNCHANGED node, NEW r \in Syncs, r # s
    PROVE  InPlace(r)'
  BY DEF PlaceInv, InPlace, Others, node, Safe, BlockOf

LEMMA SyncType ==
    ASSUME TypeOK, PlaceInv, NEW s \in Syncs, Sync(s)
    PROVE  TypeOK' /\ PlaceInv'
  <1>0. Others(s) /\ UNCHANGED node /\ PlaceType /\ budget \in Budget /\ Safe' = Safe
    BY OthersSame DEF TypeOK, PlaceType, Budget, node, Safe
  <1> SUFFICES TypeOK' /\ InPlace(s)'
    BY <1>0, OthersPlace DEF PlaceInv
  <1>1. CASE Enter(s)
    <2>1. pc' \in [Syncs -> Places] /\ pc'[s] \in {"off", "refused", "load"} /\ running' \in BOOLEAN
      BY <1>1 DEF TypeOK, Enter, Goto, Places
    <2>2. TypeOK'
      BY <1>1, <2>1 DEF TypeOK, Enter, node, place, redis, store
    <2> QED
      BY <2>1, <2>2 DEF InPlace, Inside
  <1>2. CASE Load(s)
    <2>1. pc' \in [Syncs -> Places] /\ pc'[s] = "poll"
      BY <1>2 DEF TypeOK, Load, Goto, Places
    <2>2. last' \in [Syncs -> Start - 1 .. MaxHeight]
      <3>1. Start - 1 \in Start - 1 .. MaxHeight /\ cursor \in Start - 1 .. MaxHeight
        BY StartType DEF TypeOK, Heights
      <3>2. last' = [last EXCEPT ![s] = cursor] \/ last' = [last EXCEPT ![s] = Start - 1]
        BY <1>2 DEF Load
      <3> QED
        BY <3>1, <3>2 DEF TypeOK
    <2>3. budget' \in Budget
      BY <1>0, <1>2, FaultType DEF Load
    <2>4. TypeOK'
      BY <1>2, <2>1, <2>2, <2>3 DEF TypeOK, Load, node, place, redis, store, Budget
    <2> QED
      BY <2>1, <2>4 DEF InPlace, Inside
  <1>3. CASE Poll(s)
    <2>1. pc' \in [Syncs -> Places] /\ pc'[s] = "check"
      BY <1>3 DEF TypeOK, Poll, Goto, Places
    <2>2. last[s] + 1 \in Heights /\ last[s] < Safe /\ Safe \in Int /\ Safe <= MaxHeight
      <3>1. last[s] < Safe /\ Safe = head - Confirmations
        BY <1>3 DEF Poll, Safe
      <3> QED
        BY ONLY <3>1, Numbers, StartType, TypeOK, s \in Syncs DEF Heights
    <2>3. /\ RangeEnd(last[s] + 1) \in Heights /\ RangeEnd(last[s] + 1) <= Safe
          /\ last[s] + 1 <= RangeEnd(last[s] + 1)
      <3> DEFINE first == last[s] + 1
      <3>1. /\ first \in Int /\ Start \in Int /\ Start <= first /\ first <= Safe
            /\ Safe \in Int /\ Safe <= MaxHeight /\ MaxHeight \in Int
        BY ONLY <2>2, Numbers, StartType, TypeOK, s \in Syncs DEF Heights
      <3>2. BatchSize \in Int /\ BatchSize >= 1
        BY IndexerAssumption
      <3> HIDE DEF first
      <3>3. RangeEnd(first) \in Heights /\ RangeEnd(first) <= Safe /\ first <= RangeEnd(first)
        BY ONLY <3>1, <3>2 DEF RangeEnd, Heights
      <3> QED
        BY <3>3 DEF first
    <2>4. next'[s] = last[s] + 1 /\ end'[s] = RangeEnd(last[s] + 1)
      BY <1>3 DEF TypeOK, Poll
    <2>5. next' \in [Syncs -> Start .. MaxHeight + 1] /\ end' \in [Syncs -> Heights]
      <3>1. last[s] + 1 \in Start .. MaxHeight + 1
        BY ONLY <2>2, StartType DEF Heights
      <3> QED
        BY <1>3, <2>3, <3>1 DEF TypeOK, Poll
    <2>6. TypeOK'
      BY <1>3, <2>1, <2>5 DEF TypeOK, Poll, node, redis, store
    <2>7. next'[s] <= end'[s] + 1 /\ end'[s] <= Safe'
      BY <1>0, <2>2, <2>3, <2>4, StartType DEF Heights
    <2> QED
      BY <2>1, <2>6, <2>7 DEF InPlace, Inside
  <1>4. CASE Check(s)
    <2>1. next[s] \in Start .. MaxHeight + 1 /\ end[s] \in Heights /\ next[s] <= end[s] /\ end[s] <= Safe
      BY <1>4 DEF TypeOK, PlaceInv, InPlace, Check
    <2>2. budget' \in Budget
      BY <1>0, <1>4, FaultType DEF Check
    <2>3. /\ PlaceType' /\ pc' \in [Syncs -> Places] /\ hurt' \in [Heights -> Nat] /\ InPlace(s)'
      <3>1. CASE NextBlock(s) /\ UNCHANGED hurt
        <4>1. /\ PlaceType' /\ pc' \in [Syncs -> Places] /\ pc'[s] = "check"
              /\ next'[s] = next[s] + 1 /\ end'[s] = end[s]
          BY <3>1, <2>1, NextBlockType
        <4>2. next'[s] <= end'[s] + 1 /\ end'[s] <= Safe'
          BY <1>0, <2>1, <4>1, StartType DEF Heights
        <4> QED
          BY <3>1, <4>1, <4>2 DEF InPlace, Inside, TypeOK
      <3>2. CASE Goto(s, "fetch") /\ hurt' \in [Heights -> Nat] /\ UNCHANGED place
        <4>1. pc' \in [Syncs -> Places] /\ pc'[s] = "fetch"
          BY <3>2 DEF TypeOK, Goto, Places, Inside
        <4>2. next'[s] <= end'[s] + 1 /\ next'[s] <= end'[s] /\ end'[s] <= Safe'
          BY <1>0, <2>1, <3>2, StartType DEF Heights, place
        <4>3. PlaceType'
          BY <1>0, <3>2 DEF PlaceType, place
        <4> QED
          BY <3>2, <4>1, <4>2, <4>3 DEF InPlace, Inside
      <3>3. CASE Abort(s)
        BY <3>3, AbortType DEF InPlace, Inside
      <3>4. hurt \in [Heights -> Nat] /\ (\A S : Hurt(S) => hurt' \in [Heights -> Nat])
        BY HurtType DEF TypeOK
      <3> QED
        BY <1>4, <3>1, <3>2, <3>3, <3>4 DEF Check
    <2>4. TypeOK'
      BY <1>4, <2>2, <2>3 DEF TypeOK, PlaceType, Check, node, redis, store, Budget
    <2> QED
      BY <2>3, <2>4
  <1>5. CASE Advance(s)
    <2>1. pc' \in [Syncs -> Places] /\ pc'[s] = "poll"
      BY <1>5 DEF TypeOK, Advance, Goto, Places
    <2>2. PlaceType'
      BY <1>0, <1>5, LeaveType DEF Advance
    <2>3. end[s] \in Start - 1 .. MaxHeight
      BY StartType DEF TypeOK, Heights
    <2>4. last' \in [Syncs -> Start - 1 .. MaxHeight] /\ cursor' \in Start - 1 .. MaxHeight
      BY <1>5, <2>3 DEF TypeOK, Advance
    <2>5. budget' \in Budget
      BY <1>0, <1>5, FaultType DEF Advance
    <2>6. TypeOK'
      BY <1>5, <2>1, <2>2, <2>4, <2>5 DEF TypeOK, PlaceType, Advance, node, store, Budget
    <2> QED
      BY <2>1, <2>6 DEF InPlace, Inside
  <1>6. CASE Fetch(s)
    <2>1. pc[s] \in Inside /\ next[s] \in Heights /\ chain[next[s]] \in Forks
      <3>1. pc[s] \in {"fetch", "body"}
        BY <1>6 DEF Fetch
      <3>2. next[s] <= end[s]
        BY <3>1 DEF PlaceInv, InPlace, Inside
      <3>3. next[s] \in Heights
        BY ONLY <3>2, Numbers, StartType, TypeOK, s \in Syncs DEF Heights
      <3> QED
        BY <3>1, <3>3 DEF TypeOK, Inside
    <2>2. budget' \in Budget
      BY <1>0, <1>6, FaultType DEF Fetch
    <2>3. PlaceType' /\ pc' \in [Syncs -> Places] /\ hurt' \in [Heights -> Nat] /\ InPlace(s)'
      <3>1. CASE Abort(s)
        BY <3>1, AbortType DEF InPlace, Inside
      <3>2. CASE /\ pc' = [pc EXCEPT ![s] = "insert"] \/ pc' = [pc EXCEPT ![s] = "row"]
                 /\ held' = [held EXCEPT ![s] = chain[next[s]]]
                 /\ UNCHANGED <<next, end, tx, hurt>>
        <4>1. pc' \in [Syncs -> Places] /\ pc'[s] \in {"insert", "row"}
          BY <3>2 DEF TypeOK, Places, Inside
        <4>2. held' \in [Syncs -> Forks \cup {Nil}] /\ held'[s] \in Forks
          BY <3>2, <2>1 DEF TypeOK
        <4>3. PlaceType' /\ hurt' \in [Heights -> Nat]
          BY <3>2, <4>2 DEF TypeOK, PlaceType
        <4>4. next'[s] <= end'[s] + 1 /\ next'[s] <= end'[s] /\ end'[s] <= Safe'
          BY <1>0, <2>1, <3>2 DEF PlaceInv, InPlace
        <4> QED
          BY <4>1, <4>2, <4>3, <4>4 DEF InPlace, Inside
      <3> QED
        BY <1>6, <3>1, <3>2 DEF Fetch, Goto
    <2>4. TypeOK'
      BY <1>6, <2>2, <2>3 DEF TypeOK, PlaceType, Fetch, node, redis, store, Budget
    <2> QED
      BY <2>3, <2>4
  <1>7. CASE InsertBlock(s)
    <2>1. /\ pc[s] = "insert" /\ next[s] \in Heights /\ held[s] \in Forks
          /\ next[s] <= end[s] + 1 /\ next[s] <= end[s] /\ end[s] <= Safe
      BY <1>7, StartType DEF TypeOK, PlaceInv, InPlace, Inside, InsertBlock, Heights
    <2>2. budget' \in Budget
      BY <1>0, <1>7, FaultType DEF InsertBlock
    <2>3. blocks' \in [Heights -> Forks \cup {Nil}]
      BY <1>7, <2>1 DEF TypeOK, InsertBlock
    <2>4. PlaceType' /\ pc' \in [Syncs -> Places] /\ hurt' \in [Heights -> Nat] /\ InPlace(s)'
      <3>1. CASE Abort(s)
        BY <3>1, AbortType DEF InPlace, Inside
      <3>2. CASE Goto(s, "body") /\ UNCHANGED <<hurt, place>>
        <4>1. pc' \in [Syncs -> Places] /\ pc'[s] = "body"
          BY <3>2 DEF TypeOK, Goto, Places, Inside
        <4>2. PlaceType' /\ hurt' \in [Heights -> Nat]
          BY <3>2 DEF TypeOK, PlaceType, place
        <4>3. next'[s] <= end'[s] + 1 /\ next'[s] <= end'[s] /\ end'[s] <= Safe'
          BY <1>0, <2>1, <3>2 DEF place
        <4> QED
          BY <4>1, <4>2, <4>3 DEF InPlace
      <3> QED
        BY <1>7, <3>1, <3>2 DEF InsertBlock
    <2>5. TypeOK'
      BY <1>7, <2>2, <2>3, <2>4 DEF TypeOK, PlaceType, InsertBlock, node, redis, Budget
    <2> QED
      BY <2>4, <2>5
  <1>8. CASE InsertTransaction(s)
    <2>1. pc[s] = "row" /\ tx[s] <= Len(BlockOf(s)) /\ pc' = [pc EXCEPT ![s] = "extras"]
      BY <1>8 DEF InsertTransaction, Goto
    <2>2. next[s] \in Heights /\ held[s] \in Forks /\ TxOf(s) \in Txs
      BY <2>1, TxType
    <2>3. rows' \in [Txs -> (Heights \X Forks) \cup {Nil}] /\ warned' \subseteq Txs
      <3>1. <<next[s], held[s]>> \in Heights \X Forks
        BY <2>2
      <3>2. rows \in [Txs -> (Heights \X Forks) \cup {Nil}] /\ warned \subseteq Txs
        BY DEF TypeOK
      <3>3. [rows EXCEPT ![TxOf(s)] = <<next[s], held[s]>>] \in [Txs -> (Heights \X Forks) \cup {Nil}]
        BY <3>1, <3>2
      <3>4. rows' = rows \/ rows' = [rows EXCEPT ![TxOf(s)] = <<next[s], held[s]>>]
        BY <1>8 DEF InsertTransaction
      <3>5. warned' = warned \/ warned' = warned \cup {TxOf(s)}
        BY <1>8 DEF InsertTransaction
      <3> QED
        BY <3>2, <3>3, <3>4, <3>5, <2>2
    <2>4. budget' \in Budget
      BY <1>0, <1>8, FaultType DEF InsertTransaction
    <2>5. pc' \in [Syncs -> Places] /\ pc'[s] = "extras"
      BY <2>1 DEF TypeOK, Places, Inside
    <2>6. TypeOK'
      BY <1>8, <2>3, <2>4, <2>5
      DEF TypeOK, InsertTransaction, node, place, redis, Budget
    <2>7. UNCHANGED place /\ InPlace(s)
      BY <1>8 DEF InsertTransaction, PlaceInv
    <2> QED
      BY <1>0, <2>1, <2>2, <2>5, <2>6, <2>7 DEF InPlace, Inside, place, BlockOf
  <1>9. CASE WriteExtras(s)
    <2>1. pc[s] = "extras" /\ pc' = [pc EXCEPT ![s] = "row"] /\ tx' = [tx EXCEPT ![s] = @ + 1]
      BY <1>9 DEF WriteExtras, Goto
    <2>2. held[s] \in Forks /\ TxOf(s) \in Txs /\ extras[TxOf(s)] \in Nat
      BY <2>1, TxType DEF TypeOK, PlaceInv, InPlace
    <2>3. [extras EXCEPT ![TxOf(s)] = @ + 1] \in [Txs -> Nat] /\ extras \in [Txs -> Nat]
      BY <2>2 DEF TypeOK
    <2>4. extras' \in [Txs -> Nat]
      BY <1>9, <2>3 DEF WriteExtras
    <2>5. budget' \in Budget
      BY <1>0, <1>9, FaultType DEF WriteExtras
    <2>6. pc' \in [Syncs -> Places] /\ pc'[s] = "row" /\ tx' \in [Syncs -> Nat \ {0}]
      BY <2>1 DEF TypeOK, Places, Inside
    <2>7. TypeOK'
      BY <1>9, <2>4, <2>5, <2>6 DEF TypeOK, WriteExtras, node, redis, Budget
    <2>8. UNCHANGED <<next, end, held>> /\ InPlace(s)
      BY <1>9 DEF WriteExtras, PlaceInv
    <2> QED
      BY <1>0, <2>1, <2>2, <2>6, <2>7, <2>8 DEF InPlace, Inside
  <1>10. CASE Mark(s)
    <2>1. pc[s] = "row" /\ NextBlock(s) /\ next[s] <= end[s] /\ end[s] <= Safe /\ end[s] \in Heights
      BY <1>10 DEF TypeOK, PlaceInv, InPlace, Inside, Mark
    <2>2. next[s] \in Heights
      BY <2>1, TxType
    <2>3. /\ PlaceType' /\ pc' \in [Syncs -> Places] /\ pc'[s] = "check"
          /\ next'[s] = next[s] + 1 /\ end'[s] = end[s]
      BY <2>1, NextBlockType
    <2>4. marked' \subseteq Heights
      BY <1>10, <2>2 DEF TypeOK, Mark
    <2>5. hurt' \in [Heights -> Nat]
      BY <1>10, HurtType DEF TypeOK, Mark
    <2>6. budget' \in Budget
      BY <1>0, <1>10, FaultType DEF Mark
    <2>7. TypeOK'
      BY <1>10, <2>3, <2>4, <2>5, <2>6 DEF TypeOK, PlaceType, Mark, node, store, Budget
    <2>8. next'[s] <= end'[s] + 1 /\ end'[s] <= Safe'
      BY <1>0, <2>1, <2>2, <2>3, StartType DEF Heights
    <2> QED
      BY <2>3, <2>7, <2>8 DEF InPlace, Inside
  <1> QED
    BY <1>1, <1>2, <1>3, <1>4, <1>5, <1>6, <1>7, <1>8, <1>9, <1>10 DEF Sync

LEMMA NodeType ==
    ASSUME TypeOK, PlaceInv, Mine \/ Reorg
    PROVE  TypeOK' /\ PlaceInv'
  <1>1. CASE Mine
    <2>1. head' \in Heights /\ head' = head + 1
      BY <1>1, StartType DEF TypeOK, Mine, Heights
    <2>2. TypeOK'
      BY <1>1, <2>1 DEF TypeOK, Mine, place, redis, store
    <2>3. Safe \in Int /\ Safe' = Safe + 1
      <3>1. head \in Int /\ Confirmations \in Int
        BY StartType DEF TypeOK, Heights
      <3> QED
        BY ONLY <2>1, <3>1 DEF Safe
    <2>4. ASSUME NEW s \in Syncs PROVE InPlace(s)'
      <3>1. end[s] \in Int /\ (end[s] <= Safe => end[s] <= Safe')
        <4>1. end[s] \in Int
          BY StartType DEF TypeOK, Heights
        <4> QED
          BY ONLY <2>3, <4>1
      <3> QED
        BY <1>1, <3>1 DEF PlaceInv, InPlace, Mine, place, BlockOf
    <2> QED
      BY <2>2, <2>4 DEF PlaceInv
  <1>2. CASE Reorg
    <2>1. chain' \in [Heights -> Forks]
      BY <1>2 DEF TypeOK, Reorg
    <2>2. budget' \in Budget
      BY <1>2 DEF TypeOK, Reorg, Budget
    <2>3. TypeOK'
      BY <1>2, <2>1, <2>2 DEF TypeOK, Reorg, place, redis, store, Budget
    <2>4. PlaceInv'
      BY <1>2 DEF PlaceInv, InPlace, Reorg, Safe, place, BlockOf
    <2> QED
      BY <2>3, <2>4
  <1> QED
    BY <1>1, <1>2

LEMMA CallType ==
    ASSUME TypeOK, PlaceInv, Stop \/ Crash \/ (\E s \in Syncs : Reindex(s) \/ Cancel(s))
    PROVE  TypeOK' /\ PlaceInv'
  <1>1. CASE Stop
    <2>1. budget' \in Budget
      BY <1>1 DEF TypeOK, Stop, Budget
    <2>2. TypeOK'
      BY <1>1, <2>1 DEF TypeOK, Stop, node, place, redis, store, Budget
    <2> QED
      BY <1>1, <2>2 DEF PlaceInv, InPlace, Stop, Safe, node, place, BlockOf
  <1>2. CASE Crash
    <2>1. pc' \in [Syncs -> Places] /\ \A s \in Syncs : pc'[s] \in {"start", "off"}
      BY <1>2 DEF Crash, Places
    <2>2. PlaceType /\ PlaceType'
      BY <1>2, LeaveType DEF TypeOK, PlaceType, Crash
    <2>3. hurt' \in [Heights -> Nat]
      BY <1>2, HurtType DEF TypeOK, Crash
    <2>4. last' \in [Syncs -> Start - 1 .. MaxHeight]
      BY <1>2, StartType DEF Crash, Heights
    <2>5. budget' \in Budget
      BY <1>2 DEF TypeOK, Crash, Budget
    <2>6. TypeOK'
      BY <1>2, <2>1, <2>2, <2>3, <2>4, <2>5
      DEF TypeOK, PlaceType, Crash, node, redis, store, Budget
    <2> QED
      BY <2>1, <2>6 DEF PlaceInv, InPlace, Inside
  <1>3. CASE \E s \in Syncs : Reindex(s)
    <2> SUFFICES ASSUME NEW s \in Syncs, Reindex(s) PROVE TypeOK' /\ PlaceInv'
      BY <1>3
    <2>1. pc' \in [Syncs -> Places] /\ pc'[s] = "start" /\ \A r \in Syncs \ {s} : pc'[r] = pc[r]
      BY DEF TypeOK, Reindex, Goto, Places
    <2>2. Start - 1 \in Start - 1 .. MaxHeight /\ cursor \in Start - 1 .. MaxHeight
      BY ONLY Numbers, StartType, TypeOK, s \in Syncs DEF Heights
    <2>3. cursor' \in Start - 1 .. MaxHeight
      BY <2>2 DEF Reindex
    <2>4. budget' \in Budget
      BY FaultType DEF TypeOK, Reindex, Budget
    <2>5. TypeOK'
      BY <2>1, <2>3, <2>4 DEF TypeOK, Reindex, node, place, store, Budget
    <2>6. ASSUME NEW r \in Syncs PROVE InPlace(r)'
      BY <2>1 DEF PlaceInv, InPlace, Reindex, Safe, node, place, BlockOf, Inside
    <2> QED
      BY <2>5, <2>6 DEF PlaceInv
  <1>4. CASE \E s \in Syncs : Cancel(s)
    <2> SUFFICES ASSUME NEW s \in Syncs, Cancel(s) PROVE TypeOK' /\ PlaceInv'
      BY <1>4
    <2>1. pc' \in [Syncs -> Places] /\ pc'[s] = "off" /\ \A r \in Syncs \ {s} : pc'[r] = pc[r]
      BY DEF TypeOK, Cancel, Goto, Places
    <2>2. budget' \in Budget
      BY DEF TypeOK, Cancel, Budget
    <2>3. running' \in BOOLEAN
      BY DEF Cancel
    <2>4. TypeOK'
      BY <2>1, <2>2, <2>3 DEF TypeOK, Cancel, node, place, redis, store, Budget
    <2>5. ASSUME NEW r \in Syncs PROVE InPlace(r)'
      BY <2>1 DEF PlaceInv, InPlace, Cancel, Safe, node, place, BlockOf, Inside
    <2> QED
      BY <2>4, <2>5 DEF PlaceInv
  <1> QED
    BY <1>1, <1>2, <1>3, <1>4

LEMMA IdleType == TypeOK /\ PlaceInv /\ UNCHANGED vars => TypeOK' /\ PlaceInv'
  <1> SUFFICES ASSUME TypeOK, PlaceInv, UNCHANGED vars PROVE TypeOK' /\ PlaceInv'
    OBVIOUS
  <1>1. TypeOK'
    BY DEF TypeOK, vars, node, place, redis, store
  <1>2. PlaceInv'
    BY DEF PlaceInv, InPlace, vars, node, place, Safe, BlockOf
  <1> QED
    BY <1>1, <1>2

LEMMA TypeStep == TypeOK /\ PlaceInv /\ [Next]_vars => TypeOK' /\ PlaceInv'
  BY SyncType, NodeType, CallType, IdleType DEF Next

\* Every variable keeps its type, and the loops stay inside their ranges, which
\* never reach past the confirmed blocks (SyncBlocks, syncBlockRange).
THEOREM TypeCorrect == Spec => [](TypeOK /\ PlaceInv)
  BY TypeInit, TypeStep, PTL DEF Spec

-----------------------------------------------------------------------------
(* The index is of the chain *)

\* What a loop holds is what the chain has, and so is the block it works on.
HoldsChain(s) ==
    /\ pc[s] \in {"insert", "row", "extras"} => held[s] = chain[next[s]]
    /\ pc[s] \in {"body", "row", "extras"} => blocks[next[s]] = chain[next[s]]

StoredSafe == \A n \in Heights : blocks[n] # Nil => n <= Safe

Canonical == StoredSafe /\ (\A s \in Syncs : HoldsChain(s)) /\ IndexIsCanonical

Known == TypeOK /\ PlaceInv

LEMMA InsideSafe ==
    ASSUME Known, NEW s \in Syncs, pc[s] \in Inside
    PROVE  next[s] \in Heights /\ next[s] <= Safe
  <1>1. /\ next[s] \in Start .. MaxHeight + 1 /\ end[s] \in Heights /\ Safe \in Int
        /\ next[s] <= end[s] /\ end[s] <= Safe
    BY StartType DEF Known, TypeOK, PlaceInv, InPlace, Safe, Heights
  <1> QED
    BY <1>1, StartType DEF Heights

LEMMA CanonicalInit == Init => Canonical
  <1> SUFFICES ASSUME Init PROVE Canonical
    OBVIOUS
  <1>1. \A n \in Heights : blocks[n] = Nil
    BY DEF Init
  <1>2. \A t \in Txs : rows[t] = Nil
    BY DEF Init
  <1>3. \A s \in Syncs : pc[s] \in {"start", "off"}
    BY DEF Init
  <1>4. \A n \in Heights, v \in Forks : <<n, v>> # Nil
    BY IndexerAssumption
  <1>5. \A s \in Syncs : HoldsChain(s)
    BY <1>3 DEF HoldsChain
  <1> QED
    BY <1>1, <1>2, <1>4, <1>5 DEF Canonical, StoredSafe, IndexIsCanonical

\* Rows and blocks are of the chain, and come from the loop that steps.
Stores(s) ==
    /\ \A n \in Heights :
           \/ blocks'[n] = blocks[n]
           \/ n = next[s] /\ n <= Safe /\ blocks'[n] = chain[n]
    /\ \A t \in Txs :
           \/ rows'[t] = rows[t]
           \/ /\ rows[t] = Nil /\ next[s] \in Heights /\ rows'[t] = <<next[s], chain[next[s]]>>
              /\ blocks[next[s]] = chain[next[s]]
    /\ warned \subseteq warned'

LEMMA StoreStep ==
    ASSUME Known, Canonical, NEW s \in Syncs, Sync(s)
    PROVE  Stores(s)
  <1>1. CASE InsertBlock(s)
    <2>1. pc[s] = "insert" /\ UNCHANGED <<rows, warned>>
      BY <1>1 DEF InsertBlock
    <2>2. next[s] \in Heights /\ next[s] <= Safe /\ held[s] = chain[next[s]]
      BY <2>1, InsideSafe DEF Inside, Canonical, HoldsChain
    <2>3. blocks' = blocks \/ blocks' = [blocks EXCEPT ![next[s]] = held[s]]
      BY <1>1 DEF InsertBlock
    <2> QED
      BY <2>1, <2>2, <2>3 DEF Stores, Known, TypeOK
  <1>2. CASE InsertTransaction(s)
    <2>1. pc[s] = "row" /\ UNCHANGED blocks /\ warned \subseteq warned'
      BY <1>2 DEF InsertTransaction
    <2>2. next[s] \in Heights /\ held[s] = chain[next[s]] /\ blocks[next[s]] = chain[next[s]]
      BY <2>1, InsideSafe DEF Inside, Canonical, HoldsChain
    <2>3. rows' = rows \/ (rows[TxOf(s)] = Nil /\ rows' = [rows EXCEPT ![TxOf(s)] = <<next[s], held[s]>>])
      BY <1>2 DEF InsertTransaction
    <2>4. \A t \in Txs : rows'[t] = rows[t] \/ (rows[t] = Nil /\ rows'[t] = <<next[s], held[s]>>)
      BY <2>3 DEF Known, TypeOK
    <2> QED
      BY <2>1, <2>2, <2>4 DEF Stores
  <1>3. CASE UNCHANGED <<blocks, rows, warned>>
    BY <1>3 DEF Stores
  <1> QED
    BY <1>1, <1>2, <1>3
    DEF Sync, Enter, Load, Poll, Check, Advance, Fetch, WriteExtras, Mark, store

LEMMA OthersHold ==
    ASSUME Known, Canonical, NEW s \in Syncs, Sync(s), NEW r \in Syncs, r # s
    PROVE  HoldsChain(r)'
  <1>1. Others(s) /\ UNCHANGED chain /\ Stores(s) /\ HoldsChain(r)
    BY OthersSame, StoreStep DEF Known, node, Canonical
  <1>2. pc[r] \in Inside => next[r] \in Heights
    BY InsideSafe
  <1> QED
    BY <1>1, <1>2 DEF Others, HoldsChain, Stores, Inside

LEMMA SelfHolds ==
    ASSUME Known, Canonical, NEW s \in Syncs, Sync(s)
    PROVE  HoldsChain(s)'
  <1>0. UNCHANGED chain /\ HoldsChain(s) /\ pc \in [Syncs -> Places] /\ held \in [Syncs -> Forks \cup {Nil}]
    BY OthersSame DEF Known, TypeOK, node, Canonical
  <1>1. CASE InsertBlock(s)
    <2>1. pc[s] = "insert" /\ held[s] = chain[next[s]] /\ next[s] \in Heights
      BY <1>0, <1>1, InsideSafe DEF InsertBlock, HoldsChain, Inside
    <2>2. CASE Abort(s)
      BY <1>0, <2>2 DEF Abort, Goto, HoldsChain
    <2>3. CASE Goto(s, "body") /\ blocks' = [blocks EXCEPT ![next[s]] = held[s]] /\ UNCHANGED place
      BY <1>0, <2>1, <2>3 DEF Goto, HoldsChain, place, Known, TypeOK
    <2> QED
      BY <1>1, <2>2, <2>3 DEF InsertBlock
  <1>2. CASE Fetch(s)
    <2>1. UNCHANGED blocks
      BY <1>2 DEF Fetch, store
    <2>2. CASE Abort(s)
      BY <1>0, <2>2 DEF Abort, Goto, HoldsChain
    <2>3. CASE ~Abort(s)
      BY <1>0, <1>2, <2>1, <2>3 DEF Fetch, Goto, HoldsChain
    <2> QED
      BY <2>2, <2>3
  <1>3. CASE InsertTransaction(s) \/ WriteExtras(s)
    <2>1. /\ pc[s] \in {"row", "extras"} /\ UNCHANGED <<blocks, next, held>>
      BY <1>3 DEF InsertTransaction, WriteExtras, place
    <2> QED
      BY <1>0, <2>1 DEF HoldsChain
  <1>4. CASE Enter(s) \/ Load(s) \/ Poll(s) \/ Check(s) \/ Advance(s) \/ Mark(s)
    <2>1. pc'[s] \in {"off", "refused", "load", "poll", "check", "fetch"}
      BY <1>0, <1>4 DEF Enter, Load, Poll, Check, Advance, Mark, NextBlock, Abort, Goto
    <2> QED
      BY <2>1 DEF HoldsChain
  <1> QED
    BY <1>1, <1>2, <1>3, <1>4 DEF Sync

LEMMA SyncCanonical ==
    ASSUME Known, Canonical, NEW s \in Syncs, Sync(s)
    PROVE  Canonical'
  <1>1. Stores(s) /\ UNCHANGED chain /\ Safe' = Safe /\ Known'
    BY StoreStep, OthersSame, SyncType DEF Known, node, Safe
  <1>2. StoredSafe'
    BY <1>1 DEF Canonical, StoredSafe, Stores
  <1>3. \A r \in Syncs : HoldsChain(r)'
    BY OthersHold, SelfHolds
  <1>4. ASSUME NEW n \in Heights PROVE blocks'[n] \in {Nil, chain'[n]}
    BY <1>1 DEF Canonical, IndexIsCanonical, Stores
  <1>5. ASSUME NEW t \in Txs, NEW n \in Heights, NEW v \in Forks, rows'[t] = <<n, v>>
        PROVE  v = chain'[n] /\ blocks'[n] = chain'[n]
    <2>1. v = chain[n] /\ blocks[n] = chain[n]
      <3>1. CASE rows'[t] = rows[t]
        BY <1>5, <3>1 DEF Canonical, IndexIsCanonical
      <3>2. CASE rows'[t] = <<next[s], chain[next[s]]>> /\ blocks[next[s]] = chain[next[s]]
        BY <1>5, <3>2
      <3> QED
        BY <1>1, <3>1, <3>2 DEF Stores
    <2> QED
      BY <1>1, <2>1 DEF Stores
  <1>6. IndexIsCanonical'
    BY <1>4, <1>5 DEF IndexIsCanonical
  <1> QED
    BY <1>2, <1>3, <1>6 DEF Canonical

\* No confirmed block is ever replaced.
LEMMA SafeKept ==
    ASSUME Known, Reorg, NEW n \in Heights, n <= Safe
    PROVE  chain'[n] = chain[n]
  <1>1. PICK d \in 1 .. MaxReorg, v \in Forks :
            chain' = [m \in Heights |-> IF m > head - d THEN v ELSE chain[m]]
    BY DEF Reorg
  <1>2. d \in Int /\ d <= Confirmations /\ head \in Int /\ n \in Int /\ Confirmations \in Int
    BY IndexerAssumption, StartType DEF Known, TypeOK, Heights
  <1>3. ~(n > head - d)
    BY <1>2 DEF Safe
  <1> QED
    BY <1>1, <1>3

LEMMA NodeCanonical ==
    ASSUME Known, Canonical, Mine \/ Reorg
    PROVE  Canonical'
  <1>1. CASE Mine
    <2>1. UNCHANGED <<chain, pc, next, held, blocks, rows>>
      BY <1>1 DEF Mine, place, store
    <2>2. \A n \in Heights : n <= Safe => n <= Safe'
      BY <1>1, StartType DEF Mine, Safe, Known, TypeOK, Heights
    <2> QED
      BY <2>1, <2>2 DEF Canonical, StoredSafe, HoldsChain, IndexIsCanonical
  <1>2. CASE Reorg
    <2>1. UNCHANGED <<pc, next, held, blocks, rows>> /\ Safe' = Safe
      BY <1>2 DEF Reorg, place, store, Safe
    <2>2. \A n \in Heights : n <= Safe => chain'[n] = chain[n]
      BY <1>2, SafeKept
    <2>3. StoredSafe'
      BY <2>1 DEF Canonical, StoredSafe
    <2>4. ASSUME NEW s \in Syncs PROVE HoldsChain(s)'
      <3>1. pc[s] \in Inside => chain'[next[s]] = chain[next[s]]
        BY <2>2, InsideSafe
      <3> QED
        BY <2>1, <3>1 DEF HoldsChain, Canonical, Inside
    <2>5. Nil \notin Forks /\ chain \in [Heights -> Forks]
      BY IndexerAssumption DEF Known, TypeOK
    <2>6. \A n \in Heights : blocks[n] # Nil => chain'[n] = chain[n]
      BY <2>2 DEF Canonical, StoredSafe
    <2>7. \A n \in Heights : blocks[n] = chain[n] => chain'[n] = chain[n]
      BY <2>5, <2>6
    <2>8. IndexIsCanonical'
      BY <2>1, <2>6, <2>7 DEF Canonical, IndexIsCanonical
    <2> QED
      BY <2>3, <2>4, <2>8 DEF Canonical
  <1> QED
    BY <1>1, <1>2

LEMMA CallCanonical ==
    ASSUME Known, Canonical, Stop \/ Crash \/ (\E s \in Syncs : Reindex(s) \/ Cancel(s)) \/ UNCHANGED vars
    PROVE  Canonical'
  <1>1. UNCHANGED <<chain, blocks, rows>> /\ Safe' = Safe
    BY DEF Stop, Crash, Reindex, Cancel, vars, node, store, Safe
  <1>2. ASSUME NEW s \in Syncs PROVE HoldsChain(s)'
    <2>1. \/ pc'[s] = pc[s] /\ next'[s] = next[s] /\ held'[s] = held[s]
          \/ pc'[s] \in {"start", "off"}
      BY DEF Stop, Crash, Reindex, Cancel, vars, place, Goto, Known, TypeOK
    <2> QED
      BY <1>1, <2>1 DEF HoldsChain, Canonical
  <1> QED
    BY <1>1, <1>2 DEF Canonical, StoredSafe, IndexIsCanonical

LEMMA CanonicalStep == Known /\ Canonical /\ [Next]_vars => Canonical'
  BY SyncCanonical, NodeCanonical, CallCanonical DEF Next

\* With reorgs no deeper than ConfirmationBlocks, every stored block and every
\* stored transaction is of the chain the node follows (syncBlockRange).
THEOREM IndexCanonical == Spec => []IndexIsCanonical
  <1>1. Canonical => IndexIsCanonical
    BY DEF Canonical
  <1>2. Spec => []Known
    BY TypeCorrect, PTL DEF Known
  <1> QED
    BY CanonicalInit, CanonicalStep, <1>1, <1>2, PTL DEF Spec

-----------------------------------------------------------------------------
(* The cursor and the markers are backed *)

Written(t) == rows[t] # Nil \/ t \in warned

CoveredTo(m) == \A n \in Start .. m : Covered(n)

\* What is written of the block a loop works on, and what is covered behind it.
Reached(s) ==
    /\ CoveredTo(last[s])
    /\ pc[s] \in {"check"} \cup Inside => CoveredTo(next[s] - 1)
    /\ pc[s] \notin {"row", "extras"} => tx[s] = 1
    /\ pc[s] \in {"row", "extras"} =>
           \A i \in 1 .. Len(BlockOf(s)) :
               i < tx[s] \/ (i = tx[s] /\ pc[s] = "extras") => Written(BlockOf(s)[i])

Backed == CursorBacked /\ MarkerBacked /\ \A s \in Syncs : Reached(s)

\* The tables only grow.
Grows ==
    /\ \A n \in Heights : blocks[n] # Nil => blocks'[n] = blocks[n]
    /\ \A t \in Txs : Written(t) => Written(t)'

LEMMA NextGrows ==
    ASSUME Known, Canonical, [Next]_vars
    PROVE  Grows
  <1>1. CASE UNCHANGED store
    BY <1>1 DEF store, Grows, Written
  <1>2. ASSUME NEW s \in Syncs, Sync(s) PROVE Grows
    <2>1. Stores(s)
      BY <1>2, StoreStep
    <2>2. \A n \in Heights : blocks[n] \in {Nil, chain[n]}
      BY DEF Canonical, IndexIsCanonical
    <2>3. next[s] \in Heights => chain[next[s]] \in Forks
      BY DEF Known, TypeOK
    <2>4. \A n \in Heights, v \in Forks : <<n, v>> # Nil
      BY IndexerAssumption
    <2>5. \A n \in Heights : blocks[n] # Nil => blocks'[n] = blocks[n]
      BY <2>1, <2>2 DEF Stores
    <2>6. ASSUME NEW t \in Txs, Written(t) PROVE rows'[t] # Nil \/ t \in warned'
      BY <2>1, <2>3, <2>4, <2>6 DEF Stores, Written
    <2> QED
      BY <2>5, <2>6 DEF Grows, Written
  <1>3. UNCHANGED store \/ \E s \in Syncs : Sync(s)
    BY DEF Next, Mine, Reorg, Stop, Crash, Reindex, Cancel, vars
  <1> QED
    BY <1>1, <1>2, <1>3

LEMMA CoveredTxs ==
    ASSUME Known, NEW n \in Heights, blocks[n] # Nil, NEW i \in 1 .. Len(Body[n][blocks[n]])
    PROVE  Body[n][blocks[n]][i] \in Txs
  <1>1. blocks[n] \in Forks
    BY DEF Known, TypeOK
  <1>2. Body[n][blocks[n]] \in Seq(Txs)
    BY <1>1, IndexerAssumption
  <1> QED
    BY <1>2

LEMMA CoveredGrows ==
    ASSUME Known, Grows, NEW n \in Heights, Covered(n)
    PROVE  Covered(n)'
  <1>1. blocks[n] # Nil /\ blocks'[n] = blocks[n]
    BY DEF Covered, Grows
  <1>2. ASSUME NEW i \in 1 .. Len(Body[n][blocks[n]])
        PROVE  Written(Body[n][blocks[n]][i])'
    <2>1. Body[n][blocks[n]][i] \in Txs
      BY <1>1, CoveredTxs
    <2>2. Written(Body[n][blocks[n]][i])
      BY <1>1 DEF Covered, Written
    <2>3. \A t \in Txs : Written(t) => rows'[t] # Nil \/ t \in warned'
      BY DEF Grows, Written
    <2> QED
      BY <1>1, <2>1, <2>2, <2>3 DEF Written
  <1> QED
    BY <1>1, <1>2 DEF Covered, Written

LEMMA CoveredToGrows ==
    ASSUME Known, Grows, NEW m \in Start - 1 .. MaxHeight, CoveredTo(m),
           NEW n \in Start .. m
    PROVE  Covered(n)'
  <1>1. n \in Heights
    BY StartType DEF Heights
  <1> QED
    BY <1>1, CoveredGrows DEF CoveredTo

LEMMA BackedInit == Init => Backed
  <1> SUFFICES ASSUME Init PROVE Backed
    OBVIOUS
  <1>1. \A n \in Start .. Start - 1 : FALSE
    BY StartType
  <1>2. \A s \in Syncs : pc[s] \in {"start", "off"} /\ tx[s] = 1 /\ last[s] = Start - 1
    BY DEF Init
  <1>3. cursor = Start - 1 /\ marked = {}
    BY DEF Init
  <1>4. \A s \in Syncs : Reached(s)
    BY <1>1, <1>2 DEF Reached, CoveredTo, Inside
  <1> QED
    BY <1>1, <1>3, <1>4 DEF Backed, CursorBacked, MarkerBacked

\* A block whose transactions are all written is covered.
LEMMA LastTxCovers ==
    ASSUME Known, Canonical, NEW s \in Syncs, Reached(s), pc[s] = "row", tx[s] > Len(BlockOf(s))
    PROVE  next[s] \in Heights /\ Covered(next[s])
  <1>1. next[s] \in Heights /\ held[s] = chain[next[s]] /\ blocks[next[s]] = chain[next[s]]
    BY InsideSafe DEF Inside, Canonical, HoldsChain
  <1>2. Len(BlockOf(s)) \in Nat /\ tx[s] \in Nat /\ held[s] \in Forks
    BY TxType DEF Known, TypeOK
  <1>3. \A i \in 1 .. Len(BlockOf(s)) : Written(BlockOf(s)[i])
    BY <1>2 DEF Reached
  <1>4. blocks[next[s]] # Nil /\ BlockOf(s) = Body[next[s]][blocks[next[s]]]
    BY <1>1, <1>2, IndexerAssumption DEF BlockOf
  <1> QED
    BY <1>1, <1>3, <1>4 DEF Covered, Written

\* The next block of a range is reached once this one is covered.
LEMMA NextReached ==
    ASSUME Known, NEW s \in Syncs, NextBlock(s), UNCHANGED last,
           \A n \in Start .. last[s] : Covered(n)',
           next[s] \in Heights,
           \A n \in Start .. next[s] : Covered(n)'
    PROVE  Reached(s)'
  <1>1. pc'[s] = "check" /\ next'[s] = next[s] + 1 /\ tx'[s] = 1
    BY DEF NextBlock, Goto, Known, TypeOK
  <1>2. next'[s] - 1 = next[s]
    BY <1>1, StartType DEF Heights
  <1> QED
    BY <1>1, <1>2 DEF Reached, CoveredTo

LEMMA AbortReached ==
    ASSUME Known, NEW s \in Syncs, Abort(s), UNCHANGED last,
           \A n \in Start .. last[s] : Covered(n)'
    PROVE  Reached(s)'
  <1>1. pc'[s] = "poll" /\ tx'[s] = 1
    BY DEF Abort, Goto, LeaveRange, Known, TypeOK
  <1> QED
    BY <1>1 DEF Reached, CoveredTo, Inside

\* What a loop that stands still has reached stays reached.
LEMMA KeptReached ==
    ASSUME Known, Grows, NEW r \in Syncs, Reached(r),
           pc'[r] = pc[r], last'[r] = last[r], next'[r] = next[r], held'[r] = held[r], tx'[r] = tx[r]
    PROVE  Reached(r)'
  <1>1. \A n \in Start .. last[r] : Covered(n)'
    BY CoveredToGrows DEF Reached, Known, TypeOK
  <1>2. ASSUME pc[r] \in {"check"} \cup Inside, NEW n \in Start .. next[r] - 1
        PROVE  Covered(n)'
    <2>1. next[r] - 1 \in Start - 1 .. MaxHeight
      BY StartType DEF Known, TypeOK
    <2> QED
      BY <1>2, <2>1, CoveredToGrows DEF Reached
  <1>3. ASSUME pc[r] \in {"row", "extras"}, NEW i \in 1 .. Len(BlockOf(r)),
               i < tx[r] \/ (i = tx[r] /\ pc[r] = "extras")
        PROVE  rows'[BlockOf(r)[i]] # Nil \/ BlockOf(r)[i] \in warned'
    <2>1. BlockOf(r)[i] \in Txs
      BY <1>3, TxType DEF Known
    <2>2. Written(BlockOf(r)[i])
      BY <1>3 DEF Reached
    <2>3. \A t \in Txs : Written(t) => rows'[t] # Nil \/ t \in warned'
      BY DEF Grows, Written
    <2> QED
      BY <2>1, <2>2, <2>3
  <1>4. BlockOf(r)' = BlockOf(r)
    BY DEF BlockOf
  <1> QED
    BY <1>1, <1>2, <1>3, <1>4 DEF Reached, CoveredTo, Written

LEMMA SelfReached ==
    ASSUME Known, Canonical, Backed, NEW s \in Syncs, Sync(s)
    PROVE  Reached(s)'
  <1>0. /\ Grows /\ Reached(s) /\ UNCHANGED node
        /\ pc \in [Syncs -> Places] /\ next \in [Syncs -> Start .. MaxHeight + 1]
        /\ last \in [Syncs -> Start - 1 .. MaxHeight] /\ tx \in [Syncs -> Nat \ {0}]
        /\ held \in [Syncs -> Forks \cup {Nil}] /\ end \in [Syncs -> Heights]
    BY NextGrows, OthersSame DEF Next, Backed, Known, TypeOK
  <1>l. \A n \in Start .. last[s] : Covered(n)'
    BY <1>0, CoveredToGrows DEF Reached
  <1>n. pc[s] \in {"check"} \cup Inside => \A n \in Start .. next[s] - 1 : Covered(n)'
    <2>1. next[s] - 1 \in Start - 1 .. MaxHeight
      BY <1>0, StartType
    <2> QED
      BY <1>0, <2>1, CoveredToGrows DEF Reached
  <1>g. \A n \in Heights : Covered(n) => Covered(n)'
    BY <1>0, CoveredGrows
  <1>m. pc[s] \in {"check"} \cup Inside /\ next[s] \in Heights /\ Covered(next[s])
            => \A n \in Start .. next[s] : Covered(n)'
    <2>1. \A n \in Start .. next[s] : n = next[s] \/ n \in Start .. next[s] - 1
      BY <1>0, StartType
    <2> QED
      BY <2>1, <1>n, <1>g
  <1>1. CASE Enter(s)
    BY <1>0, <1>1, <1>l DEF Enter, Goto, Reached, CoveredTo, Inside, place
  <1>2. CASE Load(s)
    <2>1. pc[s] = "load" /\ pc'[s] = "poll" /\ tx'[s] = tx[s]
      BY <1>0, <1>2 DEF Load, Goto, place
    <2>2. last'[s] = cursor \/ last'[s] = Start - 1
      BY <1>0, <1>2 DEF Load
    <2>3. \A n \in Start .. cursor : Covered(n)'
      BY <1>0, CoveredToGrows DEF Known, TypeOK, Backed, CursorBacked, CoveredTo
    <2>4. \A n \in Start .. Start - 1 : FALSE
      BY StartType
    <2> QED
      BY <1>0, <2>1, <2>2, <2>3, <2>4 DEF Reached, CoveredTo, Inside
  <1>3. CASE Poll(s)
    <2>1. /\ pc[s] = "poll" /\ pc'[s] = "check" /\ tx'[s] = tx[s] /\ last'[s] = last[s]
          /\ next'[s] = last[s] + 1
      BY <1>0, <1>3 DEF Poll, Goto
    <2>2. next'[s] - 1 = last[s]
      BY <1>0, <2>1, StartType
    <2> QED
      BY <1>0, <1>l, <2>1, <2>2 DEF Reached, CoveredTo, Inside
  <1>4. CASE Check(s)
    <2>1. pc[s] = "check" /\ UNCHANGED last
      BY <1>4 DEF Check
    <2>2. CASE NextBlock(s) /\ next[s] \in marked
      BY <2>1, <2>2, <1>l, <1>m, NextReached DEF Backed, MarkerBacked, Known, TypeOK
    <2>3. CASE Abort(s)
      BY <2>1, <2>3, <1>l, AbortReached
    <2>4. CASE Goto(s, "fetch") /\ UNCHANGED place
      BY <1>0, <1>l, <1>n, <2>1, <2>4 DEF Goto, place, Reached, CoveredTo, Inside
    <2> QED
      BY <1>4, <2>2, <2>3, <2>4 DEF Check
  <1>5. CASE Advance(s)
    <2>1. /\ pc[s] = "check" /\ pc'[s] = "poll" /\ tx'[s] = 1 /\ last'[s] = end[s]
          /\ next[s] > end[s]
      BY <1>0, <1>5 DEF Advance, Goto, LeaveRange
    <2>2. \A n \in Start .. end[s] : n \in Start .. next[s] - 1
      BY <1>0, <2>1, StartType DEF Heights
    <2> QED
      BY <1>n, <2>1, <2>2 DEF Reached, CoveredTo, Inside
  <1>6. CASE Fetch(s)
    <2>1. pc[s] \in {"fetch", "body"} /\ UNCHANGED last
      BY <1>6 DEF Fetch
    <2>2. CASE Abort(s)
      BY <2>1, <2>2, <1>l, AbortReached
    <2>3. CASE pc'[s] \in {"insert", "row"} /\ UNCHANGED <<next, tx>>
      <3>1. tx'[s] = 1 /\ (\A i \in Nat : ~(i >= 1 /\ i < tx'[s]))
        BY <1>0, <2>1, <2>3 DEF Reached
      <3> QED
        BY <1>l, <1>n, <2>1, <2>3, <3>1 DEF Reached, CoveredTo, Inside
    <2> QED
      BY <1>0, <1>6, <2>2, <2>3 DEF Fetch, Goto
  <1>7. CASE InsertBlock(s)
    <2>1. pc[s] = "insert" /\ UNCHANGED last
      BY <1>7 DEF InsertBlock
    <2>2. CASE Abort(s)
      BY <2>1, <2>2, <1>l, AbortReached
    <2>3. CASE Goto(s, "body") /\ UNCHANGED place
      BY <1>0, <1>l, <1>n, <2>1, <2>3 DEF Goto, place, Reached, CoveredTo, Inside
    <2> QED
      BY <1>7, <2>2, <2>3 DEF InsertBlock
  <1>8. CASE InsertTransaction(s)
    <2>1. /\ pc[s] = "row" /\ pc'[s] = "extras" /\ UNCHANGED <<last, place>>
          /\ tx[s] <= Len(BlockOf(s))
      BY <1>0, <1>8 DEF InsertTransaction, Goto
    <2>2. next[s] \in Heights /\ held[s] \in Forks /\ TxOf(s) \in Txs
      BY <2>1, TxType DEF Known
    <2>3. rows'[TxOf(s)] # Nil \/ TxOf(s) \in warned'
      <3>1. <<next[s], held[s]>> # Nil
        BY <2>2, IndexerAssumption
      <3>2. rows \in [Txs -> (Heights \X Forks) \cup {Nil}]
        BY DEF Known, TypeOK
      <3> QED
        BY <1>8, <2>2, <3>1, <3>2 DEF InsertTransaction
    <2>4. ASSUME NEW i \in 1 .. Len(BlockOf(s)), i < tx[s]
          PROVE  rows'[BlockOf(s)[i]] # Nil \/ BlockOf(s)[i] \in warned'
      <3>1. Written(BlockOf(s)[i]) /\ BlockOf(s)[i] \in Txs
        BY <1>0, <2>1, <2>4, TxType DEF Reached, Known
      <3> QED
        BY <1>0, <3>1 DEF Grows, Written
    <2>5. BlockOf(s)' = BlockOf(s) /\ tx'[s] = tx[s] /\ next'[s] = next[s] /\ last'[s] = last[s]
      BY <2>1 DEF BlockOf, place
    <2>6. \A i \in 1 .. Len(BlockOf(s)) : i < tx[s] \/ i = tx[s] =>
              rows'[BlockOf(s)[i]] # Nil \/ BlockOf(s)[i] \in warned'
      BY <2>3, <2>4 DEF TxOf
    <2> QED
      BY <1>l, <1>n, <2>1, <2>5, <2>6 DEF Reached, CoveredTo, Written, Inside
  <1>9. CASE WriteExtras(s)
    <2>1. /\ pc[s] = "extras" /\ pc'[s] = "row" /\ UNCHANGED <<last, next, held, rows, warned>>
          /\ tx'[s] = tx[s] + 1
      BY <1>0, <1>9 DEF WriteExtras, Goto
    <2>2. BlockOf(s)' = BlockOf(s)
      BY <2>1 DEF BlockOf
    <2>3. \A i \in 1 .. Len(BlockOf(s)) : i < tx'[s] => i < tx[s] \/ i = tx[s]
      BY <1>0, <2>1
    <2> QED
      BY <1>0, <1>l, <1>n, <2>1, <2>2, <2>3 DEF Reached, CoveredTo, Written, Inside
  <1>10. CASE Mark(s)
    <2>1. pc[s] = "row" /\ tx[s] > Len(BlockOf(s)) /\ NextBlock(s) /\ UNCHANGED last
      BY <1>10 DEF Mark
    <2>2. next[s] \in Heights /\ Covered(next[s])
      BY <1>0, <2>1, LastTxCovers
    <2> QED
      BY <1>l, <1>m, <2>1, <2>2, NextReached DEF Inside
  <1> QED
    BY <1>1, <1>2, <1>3, <1>4, <1>5, <1>6, <1>7, <1>8, <1>9, <1>10 DEF Sync

LEMMA OthersReached ==
    ASSUME Known, Canonical, Backed, [Next]_vars, NEW r \in Syncs
    PROVE  Reached(r)'
  <1>1. Grows /\ Reached(r)
    BY NextGrows DEF Backed
  <1>2. CASE Sync(r)
    BY <1>2, SelfReached
  <1>3. ASSUME NEW s \in Syncs, Sync(s), s # r PROVE Reached(r)'
    <2>1. Others(s)
      BY <1>3, OthersSame DEF Known
    <2> QED
      BY <1>1, <1>3, <2>1, KeptReached DEF Others
  <1>4. CASE Mine \/ Reorg \/ Stop \/ UNCHANGED vars
    BY <1>1, <1>4, KeptReached DEF Mine, Reorg, Stop, place, vars
  <1>5. ASSUME NEW s \in Syncs, Reindex(s) \/ Cancel(s) PROVE Reached(r)'
    <2>1. UNCHANGED <<last, place>>
      BY <1>5 DEF Reindex, Cancel
    <2>2. CASE s # r
      <3>1. pc'[r] = pc[r]
        BY <1>5, <2>2 DEF Reindex, Cancel, Goto, Known, TypeOK
      <3> QED
        BY <1>1, <2>1, <3>1, KeptReached DEF place
    <2>3. CASE s = r
      <3>1. pc[r] \in {"off", "poll"} /\ pc'[r] \in {"start", "off"}
        BY <1>5, <2>3 DEF Reindex, Cancel, Goto, Known, TypeOK
      <3>2. \A n \in Start .. last[r] : Covered(n)'
        BY <1>1, CoveredToGrows DEF Reached, Known, TypeOK
      <3> QED
        BY <1>1, <2>1, <3>1, <3>2 DEF Reached, CoveredTo, Inside, place
    <2> QED
      BY <2>2, <2>3
  <1>6. CASE Crash
    <2>1. pc'[r] \in {"start", "off"} /\ tx'[r] = 1 /\ last'[r] = Start - 1
      BY <1>6 DEF Crash, LeaveRange
    <2>2. \A n \in Start .. Start - 1 : FALSE
      BY StartType
    <2> QED
      BY <2>1, <2>2 DEF Reached, CoveredTo, Inside
  <1> QED
    BY <1>2, <1>3, <1>4, <1>5, <1>6 DEF Next

LEMMA CursorStep ==
    ASSUME Known, Canonical, Backed, [Next]_vars
    PROVE  CursorBacked'
  <1>1. Grows
    BY NextGrows
  <1>2. \A n \in Start .. cursor : Covered(n)'
    BY <1>1, CoveredToGrows DEF Known, TypeOK, Backed, CursorBacked, CoveredTo
  <1>3. CASE cursor' = cursor
    BY <1>2, <1>3 DEF CursorBacked
  <1>4. CASE cursor' = Start - 1
    <2>1. \A n \in Start .. Start - 1 : FALSE
      BY StartType
    <2> QED
      BY <1>4, <2>1 DEF CursorBacked
  <1>5. ASSUME NEW s \in Syncs, Advance(s), cursor' = end[s] PROVE CursorBacked'
    <2>1. last'[s] = end[s]
      BY <1>5 DEF Advance, Known, TypeOK
    <2>2. CoveredTo(last[s])'
      BY OthersReached DEF Reached
    <2> QED
      BY <1>5, <2>1, <2>2 DEF CursorBacked, CoveredTo
  <1>6. \/ cursor' = cursor \/ cursor' = Start - 1
        \/ \E s \in Syncs : Advance(s) /\ cursor' = end[s]
    BY DEF Next, Sync, Mine, Reorg, Stop, Crash, Reindex, Cancel, Enter, Load, Poll, Check, Advance, Fetch,
           InsertBlock, InsertTransaction, WriteExtras, Mark, redis, vars
  <1> QED
    BY <1>3, <1>4, <1>5, <1>6

LEMMA MarkerStep ==
    ASSUME Known, Canonical, Backed, [Next]_vars
    PROVE  MarkerBacked'
  <1>1. Grows
    BY NextGrows
  <1>2. \A n \in marked : Covered(n)'
    BY <1>1, CoveredGrows DEF Known, TypeOK, Backed, MarkerBacked
  <1>3. CASE marked' = marked
    BY <1>2, <1>3 DEF MarkerBacked
  <1>4. ASSUME NEW s \in Syncs, Mark(s) PROVE MarkerBacked'
    <2>1. pc[s] = "row" /\ tx[s] > Len(BlockOf(s)) /\ marked' \subseteq marked \cup {next[s]}
      BY <1>4 DEF Mark
    <2>2. next[s] \in Heights /\ Covered(next[s])
      BY <2>1, LastTxCovers DEF Backed
    <2>3. ASSUME NEW n \in marked' PROVE Covered(n)'
      <3>1. CASE n \in marked
        BY <1>2, <3>1
      <3>2. CASE n = next[s]
        <4>1. n \in Heights /\ Covered(n)
          BY <2>2, <3>2
        <4> QED
          BY <1>1, <4>1, CoveredGrows
      <3> QED
        BY <2>1, <3>1, <3>2
    <2> QED
      BY <2>3 DEF MarkerBacked
  <1>5. marked' = marked \/ \E s \in Syncs : Mark(s)
    BY DEF Next, Sync, Mine, Reorg, Stop, Crash, Reindex, Cancel, Enter, Load, Poll, Check, Advance, Fetch,
           InsertBlock, InsertTransaction, WriteExtras, Mark, redis, vars
  <1> QED
    BY <1>3, <1>4, <1>5

LEMMA BackedStep == Known /\ Canonical /\ Backed /\ [Next]_vars => Backed'
  BY OthersReached, CursorStep, MarkerStep DEF Backed

LEMMA BackedAlways == Spec => [](Known /\ Canonical /\ Backed)
  <1>1. Spec => []Known
    BY TypeCorrect, PTL DEF Known
  <1> QED
    BY CanonicalInit, CanonicalStep, BackedInit, BackedStep, <1>1, PTL DEF Spec

\* Every height up to the cursor is stored, with all its transactions or a warning,
\* whatever call failed and wherever the process died (SyncBlocks).
THEOREM CursorIsBacked == Spec => []CursorBacked
  <1>1. Backed => CursorBacked
    BY DEF Backed
  <1> QED
    BY BackedAlways, <1>1, PTL

\* And so is every marked height, which no later pass will look at (syncBlockRange).
THEOREM MarkerIsBacked == Spec => []MarkerBacked
  <1>1. Backed => MarkerBacked
    BY DEF Backed
  <1> QED
    BY BackedAlways, <1>1, PTL

-----------------------------------------------------------------------------
(* Repetitions have a cause *)

At(n) == {s \in Syncs : pc[s] \in Inside /\ next[s] = n}

\* Loops that will still write the extras of the i-th transaction of a block.
Pending(n, i) == {s \in At(n) : tx[s] <= i}

TxAt(n, i) == Body[n][chain[n]][i]

\* One writing is free once a pass is on its way or has left its marker.
Free(n) == IF n \in marked \/ At(n) # {} THEN 1 ELSE 0

\* What was written, and what is going to be, is free or has been paid for.
Paid(n, i) == extras[TxAt(n, i)] + Cardinality(Pending(n, i)) <= hurt[n] + Free(n)

\* Extras are of transactions of confirmed blocks.
FromChain ==
    \A t \in Txs : extras[t] # 0 =>
        \E n \in Heights : n <= Safe /\ \E i \in 1 .. Len(Body[n][chain[n]]) : TxAt(n, i) = t

AllPaid == \A n \in Heights : \A i \in 1 .. Len(Body[n][chain[n]]) : Paid(n, i)

Accounts == Valid(chain) /\ FromChain /\ AllPaid

LEMMA PendingFinite == ASSUME NEW n, NEW i
                       PROVE  /\ IsFiniteSet(Pending(n, i))
                              /\ Cardinality(Pending(n, i)) \in Nat
  <1>1. IsFiniteSet(Syncs)
    BY IndexerAssumption, FS_AddElement DEF Syncs
  <1>2. Pending(n, i) \subseteq Syncs
    BY DEF Pending, At
  <1> QED
    BY <1>1, <1>2, FS_Subset, FS_CardinalityType

LEMMA TxAtType ==
    ASSUME Known, NEW n \in Heights, NEW i \in 1 .. Len(Body[n][chain[n]])
    PROVE  TxAt(n, i) \in Txs /\ extras[TxAt(n, i)] \in Nat /\ hurt[n] \in Nat
  <1>1. Body[n][chain[n]] \in Seq(Txs)
    BY IndexerAssumption DEF Known, TypeOK
  <1> QED
    BY <1>1 DEF TxAt, Known, TypeOK

LEMMA AccountsInit == Init => Accounts
  <1> SUFFICES ASSUME Init PROVE Accounts
    OBVIOUS
  <1>1. Known
    BY TypeInit DEF Known
  <1>2. \A t \in Txs : extras[t] = 0
    BY DEF Init
  <1>3. ASSUME NEW n \in Heights, NEW i \in 1 .. Len(Body[n][chain[n]]) PROVE Paid(n, i)
    <2>1. Pending(n, i) = {}
      BY DEF Init, Pending, At, Inside
    <2>2. Cardinality(Pending(n, i)) = 0
      BY <2>1, FS_EmptySet
    <2>3. extras[TxAt(n, i)] = 0 /\ hurt[n] = 0
      BY <1>1, <1>2, TxAtType DEF Init
    <2> QED
      BY <2>2, <2>3 DEF Paid, Free
  <1> QED
    BY <1>2, <1>3 DEF Accounts, Init, FromChain, AllPaid

\* A loop that neither enters nor leaves a block nor moves on in it.
Stands(s) ==
    /\ pc'[s] \in Inside <=> pc[s] \in Inside
    /\ pc[s] \in Inside => next'[s] = next[s] /\ tx'[s] = tx[s]

LEMMA StandsPending ==
    ASSUME NEW s \in Syncs, Others(s), Stands(s), NEW n, NEW i
    PROVE  At(n)' = At(n) /\ Pending(n, i)' = Pending(n, i)
  <1>1. \A r \in Syncs : /\ pc'[r] \in Inside <=> pc[r] \in Inside
                         /\ pc[r] \in Inside => next'[r] = next[r] /\ tx'[r] = tx[r]
    BY DEF Others, Stands
  <1> QED
    BY <1>1 DEF At, Pending

LEMMA StandsPaid ==
    ASSUME Known, NEW s \in Syncs, Others(s), Stands(s), UNCHANGED <<chain, extras, hurt, marked>>,
           AllPaid
    PROVE  AllPaid'
  <1> SUFFICES ASSUME NEW n \in Heights, NEW i \in 1 .. Len(Body[n][chain[n]])
               PROVE  Paid(n, i)'
    BY DEF AllPaid
  <1>1. At(n)' = At(n) /\ Pending(n, i)' = Pending(n, i)
    BY StandsPending
  <1>2. Paid(n, i)
    BY DEF AllPaid
  <1> QED
    BY <1>1, <1>2 DEF Paid, Free, TxAt

\* A pass that is cut short pays for what it may have written.
LEMMA AbortPaid ==
    ASSUME Known, NEW s \in Syncs, Others(s), Abort(s), UNCHANGED <<chain, extras, marked>>, AllPaid
    PROVE  AllPaid'
  <1>1. pc'[s] = "poll"
    BY DEF Abort, Goto, Known, TypeOK
  <1>2. CASE pc[s] \notin Inside
    <2>1. UNCHANGED hurt
      BY <1>2 DEF Abort, Hurt, Known, TypeOK
    <2> QED
      BY <1>1, <1>2, <2>1, StandsPaid DEF Stands, Inside
  <1>3. CASE pc[s] \in Inside
    <2> SUFFICES ASSUME NEW n \in Heights, NEW i \in 1 .. Len(Body[n][chain[n]])
                 PROVE  Paid(n, i)'
      BY DEF AllPaid
    <2>1. At(n)' = At(n) \ {s} /\ Pending(n, i)' = Pending(n, i) \ {s}
      BY <1>1 DEF Others, At, Pending, Inside
    <2>2. hurt'[n] = IF n = next[s] THEN hurt[n] + 1 ELSE hurt[n]
      BY <1>3 DEF Abort, Hurt
    <2>3. n # next[s] => s \notin At(n) /\ s \notin Pending(n, i)
      BY DEF At, Pending
    <2>4. /\ Cardinality(Pending(n, i)) \in Nat /\ Cardinality(Pending(n, i) \ {s}) \in Nat
          /\ Cardinality(Pending(n, i) \ {s}) <= Cardinality(Pending(n, i))
      BY PendingFinite, FS_Subset, FS_CardinalityType
    <2>5. Paid(n, i) /\ extras[TxAt(n, i)] \in Nat /\ hurt[n] \in Nat
      BY TxAtType DEF AllPaid
    <2>6. TxAt(n, i)' = TxAt(n, i)
      BY DEF TxAt
    <2>7. CASE n = next[s]
      BY <2>1, <2>2, <2>4, <2>5, <2>6, <2>7 DEF Paid, Free
    <2>8. CASE n # next[s]
      <3>1. At(n)' = At(n) /\ Pending(n, i)' = Pending(n, i) /\ hurt'[n] = hurt[n]
        BY <2>1, <2>2, <2>3, <2>8
      <3> QED
        BY <2>5, <2>6, <3>1 DEF Paid, Free
    <2> QED
      BY <2>7, <2>8
  <1> QED
    BY <1>2, <1>3

\* A pass that begins is free when it is the first, and paid for when another runs.
LEMMA BeginPaid ==
    ASSUME Known, NEW s \in Syncs, Others(s), pc[s] = "check", next[s] \in Heights, next[s] \notin marked,
           Goto(s, "fetch"), UNCHANGED <<place, chain, extras, marked>>,
           Hurt({next[s]} \cap {next[r] : r \in {q \in Syncs : pc[q] \in Inside}}), AllPaid
    PROVE  AllPaid'
  <1> SUFFICES ASSUME NEW n \in Heights, NEW i \in 1 .. Len(Body[n][chain[n]])
               PROVE  Paid(n, i)'
    BY DEF AllPaid
  <1>1. pc'[s] = "fetch" /\ next'[s] = next[s] /\ tx'[s] = tx[s]
    BY DEF Goto, place, Known, TypeOK
  <1>2. Paid(n, i) /\ extras[TxAt(n, i)] \in Nat /\ hurt[n] \in Nat /\ TxAt(n, i)' = TxAt(n, i)
    BY TxAtType DEF AllPaid, TxAt
  <1>3. CASE n # next[s]
    <2>1. hurt'[n] = hurt[n]
      BY <1>3 DEF Hurt
    <2>2. At(n)' = At(n) /\ Pending(n, i)' = Pending(n, i)
      BY <1>1, <1>3 DEF Others, At, Pending, Inside
    <2> QED
      BY <1>2, <2>1, <2>2 DEF Paid, Free
  <1>4. CASE n = next[s]
    <2>1. hurt'[n] = IF At(n) # {} THEN hurt[n] + 1 ELSE hurt[n]
      <3>1. n \in {next[r] : r \in {q \in Syncs : pc[q] \in Inside}} <=> At(n) # {}
        BY DEF At
      <3> QED
        BY <1>4, <3>1 DEF Hurt
    <2>2. At(n)' = At(n) \cup {s}
      BY <1>1, <1>4 DEF Others, At, Inside
    <2>3. Pending(n, i)' = Pending(n, i) \/ Pending(n, i)' = Pending(n, i) \cup {s}
      BY <1>1, <1>4 DEF Others, At, Pending, Inside
    <2>4. /\ Cardinality(Pending(n, i)) \in Nat /\ Cardinality(Pending(n, i)') \in Nat
          /\ Cardinality(Pending(n, i)') <= Cardinality(Pending(n, i)) + 1
      <3>1. IsFiniteSet(Pending(n, i)) /\ Cardinality(Pending(n, i)) \in Nat
        BY PendingFinite
      <3>2. Cardinality(Pending(n, i) \cup {s})
                \in {Cardinality(Pending(n, i)), Cardinality(Pending(n, i)) + 1}
        BY <3>1, FS_AddElement
      <3>3. CASE Pending(n, i)' = Pending(n, i)
        BY <3>1, <3>3
      <3>4. CASE Pending(n, i)' = Pending(n, i) \cup {s}
        BY <3>1, <3>2, <3>4
      <3> QED
        BY <2>3, <3>3, <3>4
    <2>5. n \notin marked /\ n \notin marked'
      BY <1>4
    <2>6. Free(n)' = 1 /\ Free(n) = IF At(n) # {} THEN 1 ELSE 0
      BY <2>2, <2>5 DEF Free
    <2>7. Cardinality(Pending(n, i))' = Cardinality(Pending(n, i)')
      OBVIOUS
    <2> QED
      BY <1>2, <2>1, <2>4, <2>6, <2>7 DEF Paid
  <1> QED
    BY <1>3, <1>4

\* A writing changes what is pending into what is written.
LEMMA WritePaid ==
    ASSUME Known, Canonical, Valid(chain), NEW s \in Syncs, Others(s), WriteExtras(s),
           UNCHANGED chain, AllPaid
    PROVE  AllPaid'
  <1>1. /\ pc[s] = "extras" /\ pc'[s] = "row" /\ next'[s] = next[s] /\ tx'[s] = tx[s] + 1
        /\ UNCHANGED <<marked, hurt>>
    BY DEF WriteExtras, Goto, redis, Known, TypeOK
  <1>2. /\ next[s] \in Heights /\ held[s] = chain[next[s]] /\ TxOf(s) \in Txs
        /\ tx[s] \in 1 .. Len(Body[next[s]][chain[next[s]]]) /\ tx[s] \in Nat \ {0}
    <2>1. next[s] \in Heights /\ held[s] = chain[next[s]] /\ Len(BlockOf(s)) \in Nat
      BY <1>1, TxType, InsideSafe DEF Known, Canonical, HoldsChain, Inside
    <2>2. tx[s] \in Nat \ {0} /\ tx[s] <= Len(BlockOf(s))
      BY <1>1 DEF Known, TypeOK, PlaceInv, InPlace
    <2>3. TxOf(s) \in Txs
      BY <1>1, <2>2, TxType DEF Known
    <2> QED
      BY <2>1, <2>2, <2>3 DEF BlockOf
  <1>3. TxOf(s) = TxAt(next[s], tx[s])
    BY <1>2 DEF TxOf, BlockOf, TxAt
  <1>4. extras \in [Txs -> Nat]
    BY DEF Known, TypeOK
  <1> SUFFICES ASSUME NEW n \in Heights, NEW i \in 1 .. Len(Body[n][chain[n]])
               PROVE  Paid(n, i)'
    BY DEF AllPaid
  <1>5. Paid(n, i) /\ TxAt(n, i) \in Txs /\ hurt[n] \in Nat /\ TxAt(n, i)' = TxAt(n, i)
    BY TxAtType DEF AllPaid, TxAt
  <1>6. At(n)' = At(n)
    BY <1>1 DEF Others, At, Inside
  <1>7. CASE n = next[s] /\ i = tx[s]
    <2>1. Pending(n, i)' = Pending(n, i) \ {s} /\ s \in Pending(n, i)
      BY <1>1, <1>2, <1>7 DEF Others, At, Pending, Inside
    <2>2. /\ Cardinality(Pending(n, i)) \in Nat /\ Cardinality(Pending(n, i) \ {s}) \in Nat
          /\ Cardinality(Pending(n, i) \ {s}) + 1 = Cardinality(Pending(n, i))
      <3>1. IsFiniteSet(Pending(n, i))
        BY PendingFinite
      <3>2. IsFiniteSet(Pending(n, i) \ {s})
        BY <3>1, FS_RemoveElement
      <3>3. Cardinality(Pending(n, i)) \in Nat /\ Cardinality(Pending(n, i) \ {s}) \in Nat
        BY <3>1, <3>2, FS_CardinalityType
      <3>4. Cardinality(Pending(n, i) \ {s}) = Cardinality(Pending(n, i)) - 1
        BY <2>1, <3>1, FS_RemoveElement
      <3> QED
        BY <3>3, <3>4
    <2>3. extras'[TxAt(n, i)] \in {extras[TxAt(n, i)], extras[TxAt(n, i)] + 1}
      BY <1>3, <1>4, <1>5, <1>7 DEF WriteExtras
    <2>4. extras[TxAt(n, i)] \in Nat /\ Free(n)' = Free(n) /\ Free(n) \in Nat
      BY <1>1, <1>4, <1>5, <1>6 DEF Free
    <2> QED
      BY <1>1, <1>5, <2>1, <2>2, <2>3, <2>4 DEF Paid
  <1>8. CASE ~(n = next[s] /\ i = tx[s])
    <2>1. TxAt(n, i) # TxOf(s)
      <3> SUFFICES ASSUME TxAt(n, i) = TxAt(next[s], tx[s]) PROVE FALSE
        BY <1>3
      <3>1. ASSUME NEW m \in Heights, NEW j \in 1 .. Len(Body[m][chain[m]]),
                   TxAt(n, i) = TxAt(m, j)
            PROVE  n = m /\ i = j
        BY <3>1 DEF Valid, TxAt
      <3> QED
        BY <1>2, <1>8, <3>1
    <2>2. extras'[TxAt(n, i)] = extras[TxAt(n, i)]
      BY <1>4, <1>5, <2>1 DEF WriteExtras
    <2>3. s \in Pending(n, i) <=> next[s] = n /\ tx[s] + 1 <= i
      BY <1>1, <1>2, <1>8 DEF At, Pending, Inside
    <2>4. Pending(n, i)' = Pending(n, i)
      BY <1>1, <2>3 DEF Others, At, Pending, Inside
    <2> QED
      BY <1>1, <1>5, <1>6, <2>2, <2>4 DEF Paid, Free
  <1> QED
    BY <1>7, <1>8

\* A pass that ends leaves its marker, or pays.
LEMMA MarkPaid ==
    ASSUME Known, Canonical, NEW s \in Syncs, Others(s), Mark(s), UNCHANGED chain, AllPaid
    PROVE  AllPaid'
  <1>1. /\ pc[s] = "row" /\ pc'[s] = "check" /\ UNCHANGED extras /\ tx[s] > Len(BlockOf(s))
    BY DEF Mark, NextBlock, Goto, store, Known, TypeOK
  <1>2. /\ next[s] \in Heights /\ held[s] = chain[next[s]] /\ Len(BlockOf(s)) \in Nat /\ tx[s] \in Nat
    BY <1>1, TxType, InsideSafe DEF Known, TypeOK, Canonical, HoldsChain, Inside
  <1> SUFFICES ASSUME NEW n \in Heights, NEW i \in 1 .. Len(Body[n][chain[n]])
               PROVE  Paid(n, i)'
    BY DEF AllPaid
  <1>3. /\ Paid(n, i) /\ extras[TxAt(n, i)] \in Nat /\ hurt[n] \in Nat /\ TxAt(n, i)' = TxAt(n, i)
        /\ Cardinality(Pending(n, i)) \in Nat
    BY TxAtType, PendingFinite DEF AllPaid, TxAt
  <1>4. s \notin Pending(n, i)
    BY <1>1, <1>2 DEF Pending, At, BlockOf
  <1>5. At(n)' = At(n) \ {s} /\ Pending(n, i)' = Pending(n, i)
    BY <1>1, <1>4 DEF Others, At, Pending, Inside
  <1>6. CASE n # next[s]
    <2>1. At(n)' = At(n)
      BY <1>5, <1>6 DEF At
    <2>2. hurt'[n] = hurt[n] /\ (n \in marked' <=> n \in marked)
      BY <1>6 DEF Mark, Hurt
    <2> QED
      BY <1>1, <1>3, <1>5, <2>1, <2>2 DEF Paid, Free
  <1>7. CASE n = next[s]
    <2>1. \/ n \in marked' /\ hurt'[n] = hurt[n]
          \/ hurt'[n] = hurt[n] + 1
      BY <1>7 DEF Mark, Hurt
    <2>2. Free(n)' \in {0, 1} /\ Free(n) \in {0, 1} /\ (n \in marked' => Free(n)' = 1)
      BY DEF Free
    <2> QED
      BY <1>1, <1>3, <1>5, <2>1, <2>2 DEF Paid
  <1> QED
    BY <1>6, <1>7

LEMMA SyncPaid ==
    ASSUME Known, Canonical, Accounts, NEW s \in Syncs, Sync(s)
    PROVE  AllPaid'
  <1>0. /\ Others(s) /\ UNCHANGED chain /\ AllPaid /\ Valid(chain)
        /\ pc \in [Syncs -> Places] /\ next \in [Syncs -> Start .. MaxHeight + 1]
    BY OthersSame DEF Known, TypeOK, node, Accounts
  <1>1. CASE Enter(s) \/ Load(s) \/ Poll(s) \/ Advance(s)
    <2>1. UNCHANGED <<extras, hurt, marked>>
      BY <1>1 DEF Enter, Load, Poll, Advance, redis, store
    <2>2. Stands(s)
      BY <1>0, <1>1 DEF Enter, Load, Poll, Advance, Goto, Stands, Inside
    <2> QED
      BY <1>0, <2>1, <2>2, StandsPaid
  <1>2. CASE Check(s)
    <2>1. UNCHANGED <<extras, marked>> /\ pc[s] = "check"
      BY <1>2 DEF Check, redis, store
    <2>2. CASE NextBlock(s) /\ UNCHANGED hurt
      BY <1>0, <2>1, <2>2, StandsPaid DEF NextBlock, Goto, Stands, Inside
    <2>3. CASE Abort(s)
      BY <1>0, <2>1, <2>3, AbortPaid
    <2>4. CASE /\ next[s] \notin marked /\ Goto(s, "fetch") /\ UNCHANGED place
               /\ Hurt({next[s]} \cap {next[r] : r \in {q \in Syncs : pc[q] \in Inside}})
      <3>1. next[s] \in Heights
        BY <1>0, <1>2, StartType DEF Check, Known, TypeOK, Heights
      <3> QED
        BY <1>0, <2>1, <2>4, <3>1, BeginPaid
    <2> QED
      BY <1>2, <2>2, <2>3, <2>4 DEF Check
  <1>3. CASE Fetch(s)
    <2>1. UNCHANGED <<extras, marked>>
      BY <1>3 DEF Fetch, redis, store
    <2>2. CASE Abort(s)
      BY <1>0, <2>1, <2>2, AbortPaid
    <2>3. CASE ~Abort(s)
      BY <1>0, <1>3, <2>1, <2>3, StandsPaid DEF Fetch, Goto, Stands, Inside
    <2> QED
      BY <2>2, <2>3
  <1>4. CASE InsertBlock(s)
    <2>1. UNCHANGED <<extras, marked>>
      BY <1>4 DEF InsertBlock, redis
    <2>2. CASE Abort(s)
      BY <1>0, <2>1, <2>2, AbortPaid
    <2>3. CASE Goto(s, "body") /\ UNCHANGED <<hurt, place>>
      BY <1>0, <1>4, <2>1, <2>3, StandsPaid DEF InsertBlock, Goto, Stands, Inside, place
    <2> QED
      BY <1>4, <2>2, <2>3 DEF InsertBlock
  <1>5. CASE InsertTransaction(s)
    BY <1>0, <1>5, StandsPaid DEF InsertTransaction, Goto, Stands, Inside, place, redis
  <1>6. CASE WriteExtras(s)
    BY <1>0, <1>6, WritePaid
  <1>7. CASE Mark(s)
    BY <1>0, <1>7, MarkPaid
  <1> QED
    BY <1>1, <1>2, <1>3, <1>4, <1>5, <1>6, <1>7 DEF Sync

LEMMA SyncFromChain ==
    ASSUME Known, Canonical, Accounts, NEW s \in Syncs, Sync(s)
    PROVE  FromChain'
  <1>1. UNCHANGED chain /\ Safe' = Safe /\ FromChain /\ extras \in [Txs -> Nat]
    BY OthersSame DEF Known, TypeOK, node, Accounts, Safe
  <1>2. CASE UNCHANGED extras
    BY <1>1, <1>2 DEF FromChain, TxAt
  <1>3. CASE WriteExtras(s)
    <2>1. pc[s] = "extras"
      BY <1>3 DEF WriteExtras
    <2>2. next[s] \in Heights /\ next[s] <= Safe /\ held[s] = chain[next[s]]
      BY <2>1, InsideSafe DEF Canonical, HoldsChain, Inside
    <2>3. tx[s] \in 1 .. Len(BlockOf(s))
      BY <2>1, TxType DEF Known, TypeOK, PlaceInv, InPlace
    <2>4. \E i \in 1 .. Len(Body[next[s]][chain[next[s]]]) : TxAt(next[s], i) = TxOf(s)
      BY <2>2, <2>3 DEF TxOf, BlockOf, TxAt
    <2>5. \A t \in Txs : t # TxOf(s) => extras'[t] = extras[t]
      BY <1>1, <1>3 DEF WriteExtras
    <2>6. ASSUME NEW t \in Txs, extras'[t] # 0
          PROVE  \E n \in Heights : n <= Safe /\ \E i \in 1 .. Len(Body[n][chain[n]]) : TxAt(n, i) = t
      <3>1. CASE t = TxOf(s)
        BY <2>2, <2>4, <3>1
      <3>2. CASE t # TxOf(s)
        BY <1>1, <2>5, <2>6, <3>2 DEF FromChain
      <3> QED
        BY <3>1, <3>2
    <2> QED
      BY <1>1, <2>6 DEF FromChain, TxAt
  <1> QED
    BY <1>2, <1>3
    DEF Sync, Enter, Load, Poll, Check, Advance, Fetch, InsertBlock, InsertTransaction, Mark, store

LEMMA MineAccounts ==
    ASSUME Known, Accounts, Mine
    PROVE  Accounts'
  <1>1. UNCHANGED <<chain, pc, next, tx, marked, extras, hurt>>
    BY DEF Mine, place, redis, store
  <1>2. \A n \in Heights : n <= Safe => n <= Safe'
    BY StartType DEF Mine, Safe, Known, TypeOK, Heights
  <1>3. FromChain'
    <2>1. ASSUME NEW t \in Txs, extras[t] # 0
          PROVE  \E n \in Heights : n <= Safe' /\ \E i \in 1 .. Len(Body[n][chain[n]]) : Body[n][chain[n]][i] = t
      <3>1. PICK n \in Heights : n <= Safe /\ \E i \in 1 .. Len(Body[n][chain[n]]) : Body[n][chain[n]][i] = t
        BY <2>1 DEF Accounts, FromChain, TxAt
      <3> QED
        BY <1>2, <3>1
    <2> QED
      BY <1>1, <2>1 DEF FromChain, TxAt
  <1>4. AllPaid'
    BY <1>1 DEF Accounts, AllPaid, Paid, Free, At, Pending, TxAt
  <1> QED
    BY <1>1, <1>3, <1>4 DEF Accounts, Valid

\* A transaction whose extras are written stays where it is.
LEMMA ReorgAccounts ==
    ASSUME Known, Canonical, Accounts, Reorg
    PROVE  Accounts'
  <1>1. UNCHANGED <<pc, next, tx, marked, extras, hurt>> /\ Safe' = Safe
    BY DEF Reorg, place, redis, store, Safe
  <1>2. \A n \in Heights : n <= Safe => chain'[n] = chain[n]
    BY SafeKept
  <1>3. Valid(chain)'
    BY DEF Reorg, Valid
  <1>4. FromChain'
    <2>1. ASSUME NEW t \in Txs, extras[t] # 0
          PROVE  \E n \in Heights : n <= Safe' /\ \E i \in 1 .. Len(Body[n][chain'[n]]) : Body[n][chain'[n]][i] = t
      <3>1. PICK n \in Heights : n <= Safe /\ \E i \in 1 .. Len(Body[n][chain[n]]) : Body[n][chain[n]][i] = t
        BY <2>1 DEF Accounts, FromChain, TxAt
      <3>2. chain'[n] = chain[n]
        BY <1>2, <3>1
      <3> QED
        BY <1>1, <3>1, <3>2
    <2> QED
      BY <1>1, <2>1 DEF FromChain, TxAt
  <1>5. Known'
    BY NodeType DEF Known
  <1>6. ASSUME NEW n \in Heights, NEW i \in 1 .. Len(Body[n][chain'[n]]) PROVE Paid(n, i)'
    <2>1. CASE n <= Safe
      <3>1. chain'[n] = chain[n]
        BY <1>2, <2>1
      <3>2. Paid(n, i)
        BY <3>1 DEF Accounts, AllPaid
      <3> QED
        BY <1>1, <3>1, <3>2 DEF Paid, Free, At, Pending, TxAt
    <2>2. CASE ~(n <= Safe)
      <3>1. At(n)' = {} /\ Pending(n, i)' = {}
        BY <1>1, <2>2, InsideSafe DEF At, Pending
      <3>2. Cardinality(Pending(n, i)') = 0
        BY <3>1, FS_EmptySet
      <3> DEFINE t == Body[n][chain'[n]][i]
      <3>3. t \in Txs
        <4>1. chain'[n] \in Forks
          BY <1>5 DEF Known, TypeOK
        <4>2. Body[n][chain'[n]] \in Seq(Txs)
          BY <4>1, IndexerAssumption
        <4> QED
          BY <4>2
      <3>4. extras[t] = 0
        <4> SUFFICES ASSUME extras[t] # 0 PROVE FALSE
          OBVIOUS
        <4>1. PICK m \in Heights : m <= Safe /\ \E j \in 1 .. Len(Body[m][chain[m]]) : TxAt(m, j) = t
          BY <3>3 DEF Accounts, FromChain
        <4>2. PICK j \in 1 .. Len(Body[m][chain'[m]]) : Body[m][chain'[m]][j] = t
          BY <4>1, <1>2 DEF TxAt
        <4>3. n = m
          BY <1>3, <4>2 DEF Valid
        <4> QED
          BY <4>1, <4>3, <2>2
      <3>5. hurt'[n] \in Nat /\ Free(n)' \in Nat
        BY <1>1 DEF Known, TypeOK, Free
      <3>6. TxAt(n, i)' = t
        BY DEF TxAt
      <3> QED
        BY <1>1, <3>2, <3>4, <3>5, <3>6 DEF Paid
    <2> QED
      BY <2>1, <2>2
  <1> QED
    BY <1>3, <1>4, <1>6 DEF Accounts, AllPaid

LEMMA CallAccounts ==
    ASSUME Known, Accounts, Stop \/ (\E s \in Syncs : Reindex(s) \/ Cancel(s)) \/ UNCHANGED vars
    PROVE  Accounts'
  <1>1. UNCHANGED <<chain, next, tx, marked, extras, hurt>> /\ Safe' = Safe
    BY DEF Stop, Reindex, Cancel, vars, node, place, redis, store, Safe
  <1>2. \A s \in Syncs : pc'[s] \in Inside <=> pc[s] \in Inside
    BY DEF Stop, Reindex, Cancel, vars, Goto, Known, TypeOK, Inside
  <1>3. \A n, i : At(n)' = At(n) /\ Pending(n, i)' = Pending(n, i)
    BY <1>1, <1>2 DEF At, Pending
  <1>4. AllPaid'
    BY <1>1, <1>3 DEF Accounts, AllPaid, Paid, Free, TxAt
  <1>5. FromChain'
    BY <1>1 DEF Accounts, FromChain, TxAt
  <1> QED
    BY <1>1, <1>4, <1>5 DEF Accounts, Valid

\* A crash cuts every pass short, and each block pays once for all of them.
LEMMA CrashAccounts ==
    ASSUME Known, Accounts, Crash
    PROVE  Accounts'
  <1>1. UNCHANGED <<chain, marked, extras>> /\ Safe' = Safe
    BY DEF Crash, node, redis, store, Safe
  <1>2. ASSUME NEW n \in Heights, NEW i \in 1 .. Len(Body[n][chain[n]]) PROVE Paid(n, i)'
    <2>1. At(n)' = {} /\ Pending(n, i)' = {}
      BY DEF Crash, At, Pending, Inside
    <2>2. Cardinality(Pending(n, i)') = 0 /\ Cardinality(Pending(n, i)) \in Nat
      BY <2>1, FS_EmptySet, PendingFinite
    <2>3. hurt'[n] = IF At(n) # {} THEN hurt[n] + 1 ELSE hurt[n]
      <3>1. n \in {next[s] : s \in {r \in Syncs : pc[r] \in Inside}} <=> At(n) # {}
        BY DEF At
      <3> QED
        BY <3>1 DEF Crash, Hurt
    <2>4. Paid(n, i) /\ extras[TxAt(n, i)] \in Nat /\ hurt[n] \in Nat /\ TxAt(n, i)' = TxAt(n, i)
      BY <1>1, TxAtType DEF Accounts, AllPaid, TxAt
    <2>5. Free(n)' = IF n \in marked THEN 1 ELSE 0
      BY <1>1, <2>1 DEF Free
    <2>6. extras[TxAt(n, i)] <= hurt'[n] + Free(n)'
      BY <2>2, <2>3, <2>4, <2>5 DEF Paid, Free
    <2> QED
      BY <1>1, <2>2, <2>4, <2>6 DEF Paid
  <1>3. AllPaid'
    BY <1>1, <1>2 DEF AllPaid
  <1>4. FromChain'
    BY <1>1 DEF Accounts, FromChain, TxAt
  <1> QED
    BY <1>1, <1>3, <1>4 DEF Accounts, Valid

LEMMA SyncAccounts ==
    ASSUME Known, Canonical, Accounts, NEW s \in Syncs, Sync(s)
    PROVE  Accounts'
  <1>1. UNCHANGED chain
    BY OthersSame DEF Known, node
  <1> QED
    BY <1>1, SyncPaid, SyncFromChain DEF Accounts, Valid

LEMMA AccountsStep == Known /\ Canonical /\ Accounts /\ [Next]_vars => Accounts'
  BY SyncAccounts, MineAccounts, ReorgAccounts, CallAccounts, CrashAccounts DEF Next

LEMMA PaidHasCause == Known /\ Canonical /\ Accounts => RepeatsHaveACause
  <1> SUFFICES ASSUME Known, Canonical, Accounts, NEW n \in Heights, blocks[n] # Nil,
                      NEW i \in 1 .. Len(Body[n][blocks[n]])
               PROVE  extras[Body[n][blocks[n]][i]] <= 1 + hurt[n]
    BY DEF RepeatsHaveACause
  <1>1. blocks[n] = chain[n]
    BY DEF Canonical, IndexIsCanonical
  <1>2. Paid(n, i) /\ extras[TxAt(n, i)] \in Nat /\ hurt[n] \in Nat /\ Cardinality(Pending(n, i)) \in Nat
    BY <1>1, TxAtType, PendingFinite DEF Accounts, AllPaid
  <1>3. Free(n) \in {0, 1}
    BY DEF Free
  <1> QED
    BY <1>1, <1>2, <1>3 DEF Paid, TxAt

\* The metadata and logs of a transaction are written at most once more than passes
\* over its block were cut short or ran beside another (updateAddressMetadata,
\* processTransactionLogs): nothing else repeats them.
THEOREM RepeatsExplained == Spec => []RepeatsHaveACause
  <1>1. Spec => []Known
    BY TypeCorrect, PTL DEF Known
  <1> QED
    BY CanonicalInit, CanonicalStep, AccountsInit, AccountsStep, PaidHasCause, <1>1, PTL DEF Spec
=============================================================================
