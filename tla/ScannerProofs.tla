--------------------------- MODULE ScannerProofs ---------------------------
(***************************************************************************)
(* Proofs about Scanner, for any confirmation depth, batch size, fork      *)
(* depth and chain: the outbox holds exactly the confirmed deposits, a     *)
(* confirmed deposit is final, the cursor leaves no block out between the  *)
(* place loadCursor put it at and the place it has reached, and a deposit  *)
(* that no fork has touched is confirmed deep enough to stay on the chain. *)
(***************************************************************************)
EXTENDS Scanner, SequenceTheorems, TLAPS

Blocks == [hash : Nat, txs : SUBSET Deposits]

\* A function on an initial interval is a sequence.
LEMMA FunctionIsSeq ==
    ASSUME NEW S, NEW n \in Nat, NEW f \in [1 .. n -> S]
    PROVE  f \in Seq(S) /\ Len(f) = n
<1>1. f \in Seq(S)
  BY SeqDef
<1>2. Len(f) \in Nat /\ DOMAIN f = 1 .. Len(f)
  BY <1>1, LenProperties
<1> QED
  BY <1>1, <1>2

\* A cursor row made of a height and a hash.
LEMMA AtFields ==
    ASSUME NEW n, NEW h
    PROVE  At(n, h).num = n /\ At(n, h).hash = h /\ At(n, h).exists = TRUE
  BY DEF At

\* An invariant of the tick that is over needs nothing of the local variables.
LEMMA EndTickInv ==
    ASSUME IInv, EndTick, UNCHANGED chain, UNCHANGED origin,
           dep' \in [Deposits -> [status : Statuses, block : Int]],
           EventPerConfirmed', CursorInv', SnapshotInv'
    PROVE  IInv'
<1>1. RecordInv' /\ ChainInv'
  BY DEF IInv, EndTick, chain, RecordInv, ChainInv
<1>2. TickInv'
  BY DEF EndTick, Goto, TickInv, WithHead, WithCursor
<1>3. FetchInv'
  BY DEF EndTick, FetchInv, Nothing
<1> QED
  BY <1>1, <1>2, <1>3 DEF IInv

\* A tick that is given up changes no table.
LEMMA AbandonInv ==
    ASSUME IInv, EndTick, UNCHANGED chain, UNCHANGED tables
    PROVE  IInv'
<1>1. CursorInv' /\ SnapshotInv' /\ EventPerConfirmed'
  BY DEF IInv, chain, tables, CursorInv, SnapshotInv, EventPerConfirmed, PositionInv, Covered
<1>2. dep' \in [Deposits -> [status : Statuses, block : Int]] /\ UNCHANGED origin
  BY DEF IInv, RecordInv, tables
<1> QED
  BY <1>1, <1>2, EndTickInv

\* The invariant holds initially.
LEMMA InitInv == Init => IInv
<1> SUFFICES ASSUME Init PROVE IInv
  OBVIOUS
<1>1. FirstHeight \in Nat
  BY ChainAssumption
<1>2. RecordInv /\ EventPerConfirmed
  BY DEF Init, RecordInv, EventPerConfirmed, Statuses
<1>3. ChainInv
  <2>1. main \in [1 .. FirstHeight -> [hash : Nat, txs : SUBSET Deposits]]
    BY <1>1 DEF Init
  <2>2. main \in Seq([hash : Nat, txs : SUBSET Deposits]) /\ Len(main) = FirstHeight
    BY <1>1, <2>1, FunctionIsSeq
  <2> QED
    BY <1>1, <2>2 DEF Init, ChainInv
<1>4. TickInv
  BY DEF Init, TickInv, WithHead, WithCursor
<1>5. CursorInv /\ SnapshotInv /\ FetchInv
  BY DEF Init, CursorInv, SnapshotInv, FetchInv, Absent, Nothing
<1> QED
  BY <1>2, <1>3, <1>4, <1>5 DEF IInv

-----------------------------------------------------------------------------
(* The chain.                                                              *)

\* A chain step that hands out fresh hashes keeps the invariant: a position whose
\* block is still on the chain has everything below it unchanged.
LEMMA ChainStepInv ==
    ASSUME IInv, UNCHANGED tables, UNCHANGED local, ChainInv',
           hashes' >= hashes, Len(main') >= Len(main),
           \A n \in 1 .. Len(main') : main'[n].hash <= hashes =>
               n <= Len(main) /\ \A m \in 1 .. n : main'[m] = main[m]
    PROVE  IInv'
<1>1. RecordInv' /\ EventPerConfirmed'
  BY DEF IInv, RecordInv, EventPerConfirmed, tables, local
<1>t. /\ Len(main) \in Nat /\ Len(main') \in Nat /\ hashes \in Nat /\ hashes' \in Nat
      /\ origin \in Nat /\ origin' = origin /\ dep' = dep
  BY DEF IInv, ChainInv, CursorInv, tables
<1>2. ASSUME NEW n \in Nat, NEW h \in 0 .. hashes, Covered(n, h) PROVE Covered(n, h)'
  <2> SUFFICES ASSUME n \in 1 .. Len(main'), main'[n].hash = h, NEW m \in origin + 1 .. n,
                      NEW t \in main'[m].txs
               PROVE  dep[t].status # "none"
    BY <1>t DEF Covered
  <2>1. n <= Len(main) /\ \A k \in 1 .. n : main'[k] = main[k]
    BY <1>t
  <2>2. m \in 1 .. n /\ main'[m] = main[m] /\ main'[n] = main[n]
    BY <2>1, <1>t
  <2> QED
    BY <1>2, <2>1, <2>2, <1>t DEF Covered
<1>3. ASSUME NEW c, PositionInv(c) PROVE PositionInv(c)'
  BY <1>2, <1>3, <1>t DEF PositionInv
<1>4. CursorInv'
  BY <1>3 DEF IInv, CursorInv, tables
<1>5. TickInv'
  BY <1>3, <1>t DEF IInv, TickInv, tables, local, WithHead, WithCursor
<1>6. SnapshotInv'
  BY <1>2, <1>t DEF IInv, SnapshotInv, tables
<1>7. FetchInv'
  <2> SUFFICES ASSUME NEW n \in DOMAIN fetched
               PROVE  /\ n \in 1 .. Len(main')
                      /\ fetched[n].state \in {"todo", "block", "done", "error"}
                      /\ fetched[n].state \in {"block", "done"} =>
                            /\ fetched[n].hash \in 1 .. hashes'
                            /\ main'[n].hash = fetched[n].hash => fetched[n].parent = ParentOf(n)'
                      /\ fetched[n].state = "done" /\ main'[n].hash = fetched[n].hash =>
                            fetched[n].txs = main'[n].txs
    BY DEF FetchInv, local
  <2>1. /\ n \in 1 .. Len(main)
        /\ fetched[n].state \in {"todo", "block", "done", "error"}
        /\ fetched[n].state \in {"block", "done"} =>
              /\ fetched[n].hash \in 1 .. hashes
              /\ main[n].hash = fetched[n].hash => fetched[n].parent = ParentOf(n)
        /\ fetched[n].state = "done" /\ main[n].hash = fetched[n].hash =>
              fetched[n].txs = main[n].txs
    BY DEF IInv, FetchInv
  <2>2. n \in 1 .. Len(main')
    BY <2>1, <1>t
  <2>3. ASSUME fetched[n].hash \in 1 .. hashes, main'[n].hash = fetched[n].hash
        PROVE  main'[n] = main[n] /\ ParentOf(n)' = ParentOf(n)
    <3>1. \A m \in 1 .. n : main'[m] = main[m]
      BY <2>2, <2>3, <1>t
    <3>2. n # 1 => n - 1 \in 1 .. n
      BY <2>1
    <3> QED
      BY <2>1, <3>1, <3>2 DEF ParentOf
  <2> QED
    BY <2>1, <2>2, <2>3, <1>t
<1> QED
  BY <1>1, <1>4, <1>5, <1>6, <1>7 DEF IInv

\* The tables and the tick do not change when a block is produced.
LEMMA MineInv ==
    ASSUME IInv, Mine
    PROVE  IInv'
<1>1. /\ hashes \in Nat /\ main \in Seq(Blocks) /\ Len(main) \in Nat
      /\ Len(main) >= FirstHeight
      /\ \A n \in 1 .. Len(main) : main[n].hash \in 1 .. hashes
  BY DEF IInv, ChainInv, Blocks
<1>2. PICK T \in SUBSET (Deposits \ OnChain) :
        main' = Append(main, [hash |-> hashes + 1, txs |-> T])
  BY DEF Mine
<1>3. [hash |-> hashes + 1, txs |-> T] \in Blocks /\ hashes' = hashes + 1
  BY <1>1 DEF Blocks, Mine
<1>4. /\ main' \in Seq(Blocks) /\ Len(main') = Len(main) + 1
      /\ \A n \in 1 .. Len(main) : main'[n] = main[n]
      /\ main'[Len(main) + 1].hash = hashes + 1
  BY <1>1, <1>2, <1>3, AppendProperties
<1>5. \A n \in 1 .. Len(main') : n \in 1 .. Len(main) \/ n = Len(main) + 1
  BY <1>1, <1>4
<1>6. ChainInv'
  <2>1. \A n \in 1 .. Len(main') : main'[n].hash \in 1 .. hashes'
    BY <1>1, <1>3, <1>4, <1>5
  <2>2. hashes' \in Nat /\ Len(main') >= FirstHeight
    BY <1>1, <1>3, <1>4, ChainAssumption
  <2> QED
    BY <1>4, <2>1, <2>2 DEF ChainInv, Blocks
<1>7. \A n \in 1 .. Len(main') : main'[n].hash <= hashes =>
         n <= Len(main) /\ \A m \in 1 .. n : main'[m] = main[m]
  BY <1>1, <1>4, <1>5
<1>8. UNCHANGED tables /\ UNCHANGED local
  BY DEF Mine
<1> QED
  BY <1>1, <1>3, <1>4, <1>6, <1>7, <1>8, ChainStepInv

\* Nor when a fork replaces some: its blocks have hashes nobody has seen.
LEMMA ForkInv ==
    ASSUME IInv, NEW k \in 1 .. MaxFork, Fork(k)
    PROVE  IInv'
<1>1. /\ hashes \in Nat /\ main \in Seq(Blocks) /\ Len(main) \in Nat
      /\ Len(main) >= FirstHeight
      /\ \A n \in 1 .. Len(main) : main[n].hash \in 1 .. hashes /\ main[n] \in Blocks
  <2>1. main \in Seq(Blocks)
    BY DEF IInv, ChainInv, Blocks
  <2>2. \A n \in 1 .. Len(main) : main[n] \in Blocks
    BY <2>1, ElementOfSeq
  <2> QED
    BY <2>1, <2>2 DEF IInv, ChainInv
<1>2. k \in Nat /\ 0 < k /\ k < Len(main) /\ hashes' = hashes + k + 1
  BY ChainAssumption DEF Fork
<1> DEFINE base == Len(main) - k
           top == Len(main) + 1
           open == (UNION {main[n].txs : n \in base + 1 .. Len(main)}) \cup (Deposits \ OnChain)
<1>3. PICK place \in [open -> base .. top] :
        main' = [n \in 1 .. top |-> IF n <= base THEN main[n]
                                     ELSE [hash |-> hashes + n - base,
                                           txs |-> {t \in open : place[t] = n}]]
  BY DEF Fork
<1>4. base \in Nat /\ top \in Nat /\ base < Len(main) /\ top = base + k + 1
  BY <1>1, <1>2
<1>5. open \subseteq Deposits
  <2>1. \A n \in base + 1 .. Len(main) : main[n].txs \subseteq Deposits
    BY <1>1, <1>4 DEF Blocks
  <2> QED
    BY <2>1
<1> HIDE DEF open, base, top
<1>6. \A n \in 1 .. top :
         /\ n <= base => main'[n] = main[n]
         /\ ~(n <= base) => /\ main'[n].hash = hashes + n - base
                            /\ main'[n].txs \subseteq Deposits
                            /\ main'[n] \in Blocks
                            /\ hashes + n - base \in 1 .. hashes'
  BY <1>1, <1>2, <1>3, <1>4, <1>5 DEF Blocks
<1>7. main' \in [1 .. top -> Blocks]
  <2>1. ASSUME NEW n \in 1 .. top PROVE main'[n] \in Blocks
    <3>1. n <= base => n \in 1 .. Len(main)
      BY <1>1, <1>4
    <3> QED
      BY <1>1, <1>6, <3>1
  <2> QED
    BY <1>3, <2>1
<1>8. main' \in Seq(Blocks) /\ Len(main') = top
  BY <1>4, <1>7, FunctionIsSeq
<1>9. ChainInv'
  <2>1. ASSUME NEW n \in 1 .. top PROVE main'[n].hash \in 1 .. hashes'
    <3>1. n <= base => n \in 1 .. Len(main)
      BY <1>1, <1>4
    <3>2. n <= base => main'[n].hash \in 1 .. hashes
      BY <1>1, <1>6, <3>1
    <3>3. ~(n <= base) => main'[n].hash \in 1 .. hashes'
      BY <1>6
    <3> QED
      BY <1>1, <1>2, <3>2, <3>3
  <2> QED
    BY <1>1, <1>2, <1>8, <2>1, ChainAssumption DEF ChainInv, Blocks, top
<1>10. \A n \in 1 .. Len(main') : main'[n].hash <= hashes =>
         n <= Len(main) /\ \A m \in 1 .. n : main'[m] = main[m]
  <2> SUFFICES ASSUME NEW n \in 1 .. top, main'[n].hash <= hashes
               PROVE  n <= Len(main) /\ \A m \in 1 .. n : main'[m] = main[m]
    BY <1>8
  <2>1. n <= base
    BY <1>1, <1>4, <1>6
  <2> QED
    BY <1>1, <1>4, <1>6, <2>1
<1>11. UNCHANGED tables /\ UNCHANGED local
  BY DEF Fork
<1>12. hashes' >= hashes /\ Len(main') >= Len(main)
  BY <1>1, <1>2, <1>8 DEF top
<1> QED
  BY <1>9, <1>10, <1>11, <1>12, ChainStepInv

-----------------------------------------------------------------------------
(* Steps of the tick that change no table.                                 *)

\* What such a step leaves alone.
LEMMA TablesKept ==
    ASSUME IInv, UNCHANGED chain, UNCHANGED tables
    PROVE  /\ ChainInv' /\ CursorInv' /\ SnapshotInv' /\ EventPerConfirmed'
           /\ dep' \in [Deposits -> [status : Statuses, block : Int]]
           /\ PositionInv(cur) /\ cur' = cur => PositionInv(cur)'
           /\ PositionInv(cursor) /\ cur' = cursor => PositionInv(cur)'
           /\ fetched' = fetched => FetchInv'
<1>1. ChainInv' /\ EventPerConfirmed' /\ dep' \in [Deposits -> [status : Statuses, block : Int]]
  BY DEF IInv, chain, tables, ChainInv, EventPerConfirmed, RecordInv
<1>2. CursorInv' /\ SnapshotInv'
  BY DEF IInv, chain, tables, CursorInv, SnapshotInv, PositionInv, Covered
<1>3. /\ PositionInv(cur) /\ cur' = cur => PositionInv(cur)'
      /\ PositionInv(cursor) /\ cur' = cursor => PositionInv(cur)'
  BY DEF chain, tables, PositionInv, Covered
<1>4. fetched' = fetched => FetchInv'
  BY DEF IInv, chain, FetchInv, ParentOf
<1> QED
  BY <1>1, <1>2, <1>3, <1>4

\* The head.
LEMMA GetNowBlockInv ==
    ASSUME IInv, GetNowBlock
    PROVE  IInv'
<1>1. UNCHANGED chain /\ UNCHANGED tables /\ fetched' = fetched /\ pc' = "cursor"
  BY DEF GetNowBlock, Goto
<1>2. RecordInv'
  BY <1>1, TablesKept DEF IInv, RecordInv, GetNowBlock
<1>3. head' \in 1 .. Len(main')
  BY ChainAssumption DEF IInv, ChainInv, GetNowBlock, chain
<1>4. TickInv'
  BY <1>1, <1>3 DEF TickInv, WithHead, WithCursor
<1> QED
  BY <1>1, <1>2, <1>4, TablesKept DEF IInv

\* The confirm pass reads.
LEMMA ConfirmReadsInv ==
    ASSUME IInv, ConfirmUpTo \/ ReadReceipt
    PROVE  IInv'
<1>1. /\ UNCHANGED chain /\ UNCHANGED tables /\ UNCHANGED <<fetched, head, cur, point>>
      /\ pc \in {"confirm", "receipt"} /\ pc' \in {"receipt", "settle"}
  BY DEF ConfirmUpTo, ReadReceipt, Goto
<1>2. RecordInv'
  <2>1. \A t : BlockOf(t) \in Int
    BY DEF BlockOf
  <2>2. DeepEnough \subseteq Deposits
    BY DEF DeepEnough
  <2>3. CASE ConfirmUpTo
    BY <1>1, <2>2, <2>3, TablesKept DEF IInv, RecordInv, ConfirmUpTo
  <2>4. CASE ReadReceipt
    <3>1. pend' \subseteq Deposits /\ rec' \subseteq Deposits /\ seen' \in Int
      BY <2>1, <2>4 DEF IInv, RecordInv, ReadReceipt
    <3> QED
      BY <1>1, <3>1, TablesKept DEF RecordInv
  <2> QED
    BY <2>3, <2>4
<1>3. TickInv'
  BY <1>1, TablesKept DEF IInv, TickInv, WithHead, WithCursor, chain, tables
<1> QED
  BY <1>1, <1>2, <1>3, TablesKept DEF IInv

\* The range to fetch lies on the chain.
LEMMA StartFetchInv ==
    ASSUME IInv, StartFetch
    PROVE  IInv'
<1>1. UNCHANGED chain /\ UNCHANGED tables
  BY DEF StartFetch
<1>2. CASE From > To
  BY <1>1, <1>2, AbandonInv DEF StartFetch
<1>3. CASE ~(From > To)
  <2>1. /\ pc = "receipt" /\ pc' = "fetch" /\ UNCHANGED <<head, cur, pend, rec, seen, point>>
        /\ fetched' = [n \in From .. To |-> [state |-> "todo"]]
    BY <1>3 DEF StartFetch, Goto
  <2>2. head \in 1 .. Len(main) /\ PositionInv(cur) /\ Len(main) \in Nat
    BY <2>1 DEF IInv, TickInv, ChainInv, WithHead, WithCursor
  <2>3. \A n \in From .. To : n \in 1 .. Len(main)
    BY <2>2, DepthAssumption DEF From, To, PositionInv
  <2>4. FetchInv'
    BY <1>1, <2>1, <2>3 DEF FetchInv, chain
  <2>5. RecordInv' /\ TickInv'
    BY <1>1, <2>1, TablesKept DEF IInv, RecordInv, TickInv, WithHead, WithCursor, chain, tables
  <2> QED
    BY <1>1, <2>4, <2>5, TablesKept DEF IInv
<1> QED
  BY <1>2, <1>3

\* A fetched block is one of the chain; its receipts may be of a later one.
LEMMA FetchStepInv ==
    ASSUME IInv, NEW n \in DOMAIN fetched, FetchBlock(n) \/ FetchReceipts(n)
    PROVE  IInv'
<1>1. /\ UNCHANGED chain /\ UNCHANGED tables
      /\ UNCHANGED <<pc, head, cur, pend, rec, seen, point>> /\ pc = "fetch"
  BY DEF FetchBlock, FetchReceipts
<1>2. RecordInv' /\ TickInv'
  BY <1>1, TablesKept DEF IInv, RecordInv, TickInv, WithHead, WithCursor, chain, tables
<1>3. \A m \in DOMAIN fetched :
        /\ m \in 1 .. Len(main)
        /\ main[m].hash \in 1 .. hashes
  BY DEF IInv, ChainInv, FetchInv
<1>4. FetchInv'
  <2>1. PICK b : /\ fetched' = [fetched EXCEPT ![n] = b]
                 /\ b.state \in {"block", "done", "error"}
                 /\ b.state \in {"block", "done"} =>
                       /\ b.hash \in 1 .. hashes
                       /\ main[n].hash = b.hash => b.parent = ParentOf(n)
                 /\ b.state = "done" /\ main[n].hash = b.hash => b.txs = main[n].txs
    <3>1. CASE FetchBlock(n)
      BY <1>3, <3>1 DEF FetchBlock
    <3>2. CASE FetchReceipts(n)
      BY <3>2 DEF FetchReceipts, IInv, FetchInv
    <3> QED
      BY <3>1, <3>2
  <2>2. /\ DOMAIN fetched' = DOMAIN fetched /\ fetched'[n] = b
        /\ \A m \in DOMAIN fetched : m # n => fetched'[m] = fetched[m]
    BY <2>1
  <2> QED
    BY <1>1, <1>3, <2>1, <2>2 DEF IInv, FetchInv, chain, ParentOf
<1> QED
  BY <1>1, <1>2, <1>4, TablesKept DEF IInv

\* handleReorg walks back from the cursor.
LEMMA WalkInv ==
    ASSUME IInv, DetectReorg \/ WalkBack
    PROVE  IInv'
<1>1. UNCHANGED chain /\ UNCHANGED tables
  BY DEF DetectReorg, WalkBack
<1>2. CASE DetectReorg
  <2>1. /\ pc = "fetch" /\ pc' = "walk" /\ UNCHANGED <<head, cur, pend, rec, seen, fetched>>
        /\ point' = From - 1
    BY <1>2 DEF DetectReorg, Applying, Goto
  <2>2. cur = cursor /\ cursor.num \in Nat
    BY <2>1 DEF IInv, TickInv, WithHead, WithCursor, PositionInv
  <2>3. point' = cursor.num
    BY <2>1, <2>2 DEF From
  <2>4. RecordInv' /\ TickInv'
    BY <1>1, <2>1, <2>2, <2>3, TablesKept
       DEF IInv, RecordInv, TickInv, WithHead, WithCursor, chain, tables
  <2> QED
    BY <1>1, <2>1, <2>4, TablesKept DEF IInv
<1>3. CASE WalkBack
  <2>1. CASE point <= 0 \/ point < From - ReorgDepth
    BY <1>1, <1>3, <2>1, AbandonInv DEF WalkBack
  <2>2. CASE ~(point <= 0 \/ point < From - ReorgDepth)
    <3>1. /\ pc = "walk" /\ UNCHANGED <<head, cur, pend, rec, seen, fetched>>
          /\ \/ pc' = "rollback" /\ point' = point /\ point \in DOMAIN snaps
             \/ pc' = "walk" /\ point' = point - 1
      BY <1>3, <2>2 DEF WalkBack, Goto
    <3>2. point \in Int /\ point <= cursor.num /\ cursor.num \in Nat
      BY <3>1 DEF IInv, TickInv, WithHead, WithCursor, PositionInv
    <3>3. point' \in Int /\ point' <= cursor.num
      BY <3>1, <3>2
    <3>4. RecordInv' /\ TickInv'
      BY <1>1, <3>1, <3>3, TablesKept
         DEF IInv, RecordInv, TickInv, WithHead, WithCursor, chain, tables
    <3> QED
      BY <1>1, <3>1, <3>4, TablesKept DEF IInv
  <2> QED
    BY <2>1, <2>2
<1> QED
  BY <1>2, <1>3

-----------------------------------------------------------------------------
(* Steps that write.                                                       *)

\* A position stays covered as long as no record disappears.
LEMMA CoveredKept ==
    ASSUME IInv, UNCHANGED chain, UNCHANGED origin,
           \A u \in Deposits : dep[u].status # "none" => dep'[u].status # "none",
           NEW n \in Nat, NEW h, Covered(n, h)
    PROVE  Covered(n, h)'
<1> SUFFICES ASSUME n \in 1 .. Len(main), main[n].hash = h, NEW m \in origin + 1 .. n,
                    NEW t \in main[m].txs
             PROVE  dep'[t].status # "none"
  BY DEF Covered, chain
<1>1. m \in 1 .. Len(main) /\ main \in Seq([hash : Nat, txs : SUBSET Deposits])
  BY DEF IInv, CursorInv, ChainInv
<1>2. main[m] \in [hash : Nat, txs : SUBSET Deposits]
  BY <1>1, ElementOfSeq
<1>3. t \in Deposits
  BY <1>2
<1> QED
  BY <1>3 DEF Covered

\* loadCursor: behind a cursor that was just put somewhere there is nothing to cover.
LEMMA LoadCursorInv ==
    ASSUME IInv, LoadCursor
    PROVE  IInv'
<1>1. /\ UNCHANGED chain /\ UNCHANGED <<snaps, dep, outbox, head, pend, rec, seen, fetched, point>>
      /\ pc = "cursor" /\ pc' = "confirm"
  BY DEF LoadCursor, Goto
<1>2. head \in 1 .. Len(main) /\ Len(main) \in Nat /\ hashes \in Nat
  BY <1>1 DEF IInv, TickInv, ChainInv, WithHead
<1>3. RecordInv' /\ ChainInv' /\ EventPerConfirmed' /\ FetchInv'
  BY <1>1 DEF IInv, RecordInv, ChainInv, EventPerConfirmed, FetchInv, ParentOf, chain
<1>4. CASE UNCHANGED <<cursor, origin>> /\ cur' = cursor /\ cursor.exists
  <2>1. UNCHANGED tables
    BY <1>1, <1>4 DEF tables
  <2>2. PositionInv(cursor)
    BY <1>4 DEF IInv, CursorInv
  <2>3. TickInv'
    BY <1>1, <1>2, <1>4, <2>1, <2>2, TablesKept DEF TickInv, WithHead, WithCursor, chain
  <2> QED
    BY <1>1, <1>3, <2>1, <2>3, TablesKept DEF IInv
<1>5. ASSUME NEW n \in Nat, n <= Len(main), PlaceCursor(n)
      PROVE  IInv'
  <2>1. cur' = At(n, NoHash) /\ cursor' = At(n, NoHash) /\ origin' = n
    BY <1>5 DEF PlaceCursor
  <2>2. cursor'.num = n /\ cursor'.hash = NoHash /\ cursor'.exists = TRUE /\ cur' = cursor'
    BY <2>1, AtFields
  <2>3. \A m \in Nat : \A h : m <= n => Covered(m, h)'
    BY <2>1 DEF Covered
  <2>4. PositionInv(cursor)' /\ PositionInv(cur)'
    BY <1>1, <1>2, <1>5, <2>1, <2>2, <2>3 DEF PositionInv, NoHash, chain
  <2>5. CursorInv'
    BY <2>1, <2>2, <2>4 DEF CursorInv
  <2>6. SnapshotInv'
    BY <1>1, <1>2, <1>5, <2>2, <2>3 DEF IInv, SnapshotInv, chain
  <2>7. TickInv'
    BY <1>1, <1>2, <2>2, <2>4 DEF TickInv, WithHead, WithCursor, chain
  <2> QED
    BY <1>3, <2>5, <2>6, <2>7 DEF IInv
<1>6. \/ \E n \in Nat : n <= Len(main) /\ PlaceCursor(n)
      \/ UNCHANGED <<cursor, origin>> /\ cur' = cursor /\ cursor.exists
  <2>1. head - 1 \in Nat /\ head - 1 <= Len(main) /\ StartBlock \in Nat
        /\ (~(StartBlock > head) => StartBlock <= Len(main))
    BY <1>2, DepthAssumption
  <2> QED
    BY <2>1 DEF LoadCursor
<1> QED
  BY <1>4, <1>5, <1>6

\* The positions are kept by the steps of the confirm pass.
LEMMA PositionsKept ==
    ASSUME IInv, UNCHANGED chain, UNCHANGED <<cursor, origin, snaps, head, cur, point>>,
           pc = "settle", pc' = "receipt",
           \A n \in Nat : \A h : Covered(n, h) => Covered(n, h)'
    PROVE  CursorInv' /\ SnapshotInv' /\ TickInv'
<1>1. cursor.exists => PositionInv(cursor)'
  BY DEF IInv, CursorInv, PositionInv, chain
<1>2. cur = cursor /\ cursor.exists /\ head \in 1 .. Len(main)
  BY DEF IInv, TickInv, WithHead, WithCursor
<1>3. PositionInv(cur)'
  BY <1>1, <1>2 DEF PositionInv, Covered
<1>4. CursorInv'
  BY <1>1 DEF IInv, CursorInv
<1>5. SnapshotInv'
  BY DEF IInv, SnapshotInv, chain
<1>6. TickInv'
  BY <1>2, <1>3 DEF TickInv, WithHead, WithCursor, chain
<1> QED
  BY <1>4, <1>5, <1>6

\* confirmOne settles a pending record and reports it in the same transaction.
LEMMA ConfirmOneInv ==
    ASSUME IInv, ConfirmOne
    PROVE  IInv'
<1>1. /\ UNCHANGED chain /\ UNCHANGED <<cursor, origin, snaps, head, cur, pend, fetched, point>>
      /\ pc = "settle" /\ pc' = "receipt" /\ rec' = {} /\ seen' = 0
  BY DEF ConfirmOne, Goto
<1>2. CASE UNCHANGED <<dep, outbox>>
  <2>1. UNCHANGED tables
    BY <1>1, <1>2 DEF tables
  <2>2. RecordInv' /\ TickInv'
    BY <1>1, <2>1, TablesKept DEF IInv, RecordInv, TickInv, WithHead, WithCursor, chain, tables
  <2> QED
    BY <1>1, <2>1, <2>2, TablesKept DEF IInv
<1>3. ASSUME NEW t \in rec,
             dep' = [dep EXCEPT ![t] =
                       IF ~CanConfirm(t) THEN @
                       ELSE IF seen = 0 THEN [status |-> "orphaned", block |-> @.block]
                       ELSE [status |-> "confirmed", block |-> seen]],
             outbox' = IF CanConfirm(t) /\ seen # 0 /\ Reports(t) THEN outbox \cup {t} ELSE outbox
      PROVE  IInv'
  <2>1. t \in Deposits /\ dep[t] \in [status : Statuses, block : Int] /\ seen \in Int
    BY <1>3 DEF IInv, RecordInv
  <2>2. dep' \in [Deposits -> [status : Statuses, block : Int]]
    BY <1>3, <2>1 DEF IInv, RecordInv, Statuses
  <2>3. \A u \in Deposits : u # t => dep'[u] = dep[u]
    BY <1>3 DEF IInv, RecordInv
  <2>4. dep'[t].status = IF ~CanConfirm(t) THEN dep[t].status
                         ELSE IF seen = 0 THEN "orphaned" ELSE "confirmed"
    BY <1>3, <2>1 DEF IInv, RecordInv
  <2>5. \A u \in Deposits : dep[u].status # "none" => dep'[u].status # "none"
    BY <2>3, <2>4 DEF CanConfirm
  <2>6. EventPerConfirmed'
    BY <1>3, <2>1, <2>3, <2>4 DEF IInv, EventPerConfirmed, CanConfirm, Reports
  <2>7. \A n \in Nat : \A h : Covered(n, h) => Covered(n, h)'
    BY <1>1, <2>5, CoveredKept
  <2>8. RecordInv' /\ ChainInv' /\ FetchInv'
    BY <1>1, <2>2 DEF IInv, RecordInv, ChainInv, FetchInv, ParentOf, chain
  <2>9. CursorInv' /\ SnapshotInv' /\ TickInv'
    BY <1>1, <2>7, PositionsKept
  <2> QED
    BY <2>6, <2>8, <2>9 DEF IInv
<1> QED
  BY <1>2, <1>3 DEF ConfirmOne

\* scanBlock: a block that fits on the cursor extends what is covered by one.
LEMMA ScanBlockInv ==
    ASSUME IInv, ScanBlock
    PROVE  IInv'
<1>n. PICK N : N = From
  OBVIOUS
<1>b. PICK b : b = fetched[N]
  OBVIOUS
<1>1. /\ UNCHANGED chain /\ UNCHANGED <<cursor, origin, outbox, head, pend, rec, seen, fetched, point>>
      /\ pc = "fetch" /\ pc' = "save" /\ N \in DOMAIN fetched /\ b.state = "done" /\ Fits(b)
      /\ snaps' = [n \in DOMAIN snaps \cup {N} |-> IF n = N THEN b.hash ELSE snaps[n]]
      /\ dep' = [t \in Deposits |-> IF t \in b.txs /\ dep[t].status = "none"
                                    THEN [status |-> "pending", block |-> N] ELSE dep[t]]
      /\ cur' = At(N, b.hash)
  BY <1>n, <1>b DEF ScanBlock, Applying, Goto
<1>2. /\ cur = cursor /\ cursor.exists /\ PositionInv(cur) /\ head \in 1 .. Len(main)
      /\ N = cursor.num + 1 /\ cursor.num \in Nat
  BY <1>1, <1>n DEF IInv, TickInv, WithHead, WithCursor, PositionInv, From
<1>3. /\ N \in 1 .. Len(main) /\ b.hash \in 1 .. hashes
      /\ main[N].hash = b.hash => b.parent = ParentOf(N) /\ b.txs = main[N].txs
  BY <1>1, <1>b DEF IInv, FetchInv
<1>4. /\ cur'.num = N /\ cur'.hash = b.hash /\ cur'.exists = TRUE
  BY <1>1, AtFields
<1>c. Len(main) \in Nat /\ hashes \in Nat /\ origin \in Nat
  BY DEF IInv, ChainInv, CursorInv
<1>5. dep' \in [Deposits -> [status : Statuses, block : Int]]
  BY <1>1, <1>3 DEF IInv, RecordInv, Statuses
<1>6. /\ \A u \in Deposits : dep[u].status # "none" => dep'[u].status # "none"
      /\ \A u \in Deposits : u \in b.txs => dep'[u].status # "none"
      /\ \A u \in Deposits : dep'[u].status = "confirmed" <=> dep[u].status = "confirmed"
  BY <1>1
<1>7. \A n \in Nat : \A h : Covered(n, h) => Covered(n, h)'
  BY <1>1, <1>6, CoveredKept
<1>8. Covered(N, b.hash)'
  <2> SUFFICES ASSUME main[N].hash = b.hash, NEW m \in origin + 1 .. N,
                      NEW t \in main[m].txs
               PROVE  dep'[t].status # "none"
    BY <1>1 DEF Covered, chain
  <2>1. m \in 1 .. Len(main) /\ main \in Seq([hash : Nat, txs : SUBSET Deposits])
    BY <1>3, <1>c DEF IInv, ChainInv
  <2>2. t \in Deposits
    <3>1. main[m] \in [hash : Nat, txs : SUBSET Deposits]
      BY <2>1, ElementOfSeq
    <3> QED
      BY <3>1
  <2>3. CASE m = N
    BY <1>3, <1>6, <2>2, <2>3
  <2>4. CASE m # N
    <3>0. cur.num \in Nat /\ N = cur.num + 1
      BY <1>2
    <3>1. m \in origin + 1 .. cur.num /\ cur.num \in 1 .. Len(main) /\ N # 1
      BY <1>3, <1>c, <2>1, <2>4, <3>0
    <3>2. b.parent = main[cur.num].hash /\ main[cur.num].hash \in 1 .. hashes
      BY <1>2, <1>3, <3>1 DEF ParentOf, IInv, ChainInv
    <3>3. cur.hash # NoHash
      BY <1>2, <1>c, <3>1 DEF PositionInv
    <3>4. main[cur.num].hash = cur.hash
      BY <1>1, <3>2, <3>3 DEF Fits, NoHash
    <3> QED
      BY <1>2, <1>6, <2>2, <3>1, <3>4 DEF PositionInv, Covered
  <2> QED
    BY <2>3, <2>4
<1>9. RecordInv' /\ ChainInv' /\ FetchInv' /\ EventPerConfirmed'
  BY <1>1, <1>5, <1>6
     DEF IInv, RecordInv, ChainInv, FetchInv, ParentOf, EventPerConfirmed, chain
<1>10. CursorInv'
  BY <1>1, <1>7 DEF IInv, CursorInv, PositionInv, chain
<1>11. SnapshotInv'
  BY <1>1, <1>2, <1>3, <1>7 DEF IInv, SnapshotInv, chain
<1>12. PositionInv(cur)'
  BY <1>1, <1>3, <1>4, <1>8, <1>c DEF PositionInv, NoHash, chain
<1>13. TickInv'
  <2>1. /\ cur'.num \in DOMAIN snaps' /\ snaps'[cur'.num] = cur'.hash /\ cursor'.num <= cur'.num
        /\ \A n \in DOMAIN snaps' : n <= cur'.num => n <= cursor'.num \/ n = cur'.num
    BY <1>1, <1>2, <1>4 DEF IInv, SnapshotInv
  <2> QED
    BY <1>1, <1>2, <1>12, <2>1 DEF TickInv, WithHead, WithCursor, chain
<1> QED
  BY <1>9, <1>10, <1>11, <1>13 DEF IInv

\* saveCursor makes the position of the tick the stored one.
LEMMA SaveCursorInv ==
    ASSUME IInv, SaveCursor
    PROVE  IInv'
<1>1. /\ UNCHANGED chain
      /\ UNCHANGED <<origin, snaps, dep, outbox, head, cur, pend, rec, seen, fetched, point>>
      /\ pc = "save" /\ pc' = "fetch" /\ cursor' = cur
  BY DEF SaveCursor, Goto
<1>2. /\ cursor.exists /\ PositionInv(cur) /\ head \in 1 .. Len(main)
      /\ cur.num \in DOMAIN snaps /\ snaps[cur.num] = cur.hash
      /\ \A n \in DOMAIN snaps : n <= cur.num => n <= cursor.num \/ n = cur.num
  BY <1>1 DEF IInv, TickInv, WithHead, WithCursor
<1>3. RecordInv' /\ ChainInv' /\ FetchInv' /\ EventPerConfirmed'
  BY <1>1 DEF IInv, RecordInv, ChainInv, FetchInv, ParentOf, EventPerConfirmed, chain
<1>4. PositionInv(cursor)' /\ PositionInv(cur)' /\ cur.exists = TRUE
  <2>1. cur = At(cur.num, cur.hash)
    BY <1>2 DEF PositionInv
  <2>2. cur.exists = TRUE
    BY <2>1 DEF At
  <2> QED
    BY <1>1, <1>2, <2>2 DEF PositionInv, Covered, chain
<1>5. CursorInv'
  BY <1>1, <1>4 DEF IInv, CursorInv
<1>6. SnapshotInv'
  BY <1>1, <1>2 DEF IInv, SnapshotInv, PositionInv, Covered, chain
<1>7. TickInv'
  BY <1>1, <1>2, <1>4 DEF TickInv, WithHead, WithCursor, chain
<1> QED
  BY <1>3, <1>5, <1>6, <1>7 DEF IInv

\* Old snapshots are dropped at the end of a batch.
LEMMA PruneInv ==
    ASSUME IInv, PruneSnapshots
    PROVE  IInv'
<1>1. /\ EndTick /\ UNCHANGED chain /\ UNCHANGED <<cursor, origin, dep, outbox>>
      /\ snaps' = [n \in {m \in DOMAIN snaps : m >= cur.num - SnapshotsKept} |-> snaps[n]]
  BY DEF PruneSnapshots
<1>2. /\ dep' \in [Deposits -> [status : Statuses, block : Int]]
      /\ EventPerConfirmed' /\ CursorInv'
  BY <1>1 DEF IInv, RecordInv, EventPerConfirmed, CursorInv, PositionInv, Covered, chain
<1>3. SnapshotInv'
  BY <1>1 DEF IInv, SnapshotInv, Covered, chain
<1> QED
  BY <1>1, <1>2, <1>3, EndTickInv

\* The rollback goes back to a snapshot, and gives up pending records only.
LEMMA RollbackInv ==
    ASSUME IInv, Rollback
    PROVE  IInv'
<1>1. /\ EndTick /\ UNCHANGED chain /\ UNCHANGED <<origin, outbox>> /\ pc = "rollback"
      /\ dep' = [t \in Deposits |->
                   IF t \in Orphans THEN [status |-> "orphaned", block |-> dep[t].block]
                   ELSE dep[t]]
      /\ snaps' = [n \in {m \in DOMAIN snaps : m <= point} |-> snaps[n]]
      /\ cursor' = At(point, snaps[point])
  BY DEF Rollback, Rewind
<1>2. point \in DOMAIN snaps /\ point \in Int /\ point <= cursor.num /\ cursor.num \in Nat
  BY <1>1 DEF IInv, TickInv, WithHead, WithCursor, PositionInv
<1>3. /\ point \in Nat /\ point <= Len(main) /\ snaps[point] \in 1 .. hashes
      /\ Covered(point, snaps[point])
  BY <1>2 DEF IInv, SnapshotInv
<1>4. cursor'.num = point /\ cursor'.hash = snaps[point] /\ cursor'.exists = TRUE
  BY <1>1, AtFields
<1>5. \A u \in Deposits : /\ dep[u].status # "none" => dep'[u].status # "none"
                          /\ dep'[u].status = "confirmed" <=> dep[u].status = "confirmed"
  BY <1>1 DEF Orphans
<1>6. dep' \in [Deposits -> [status : Statuses, block : Int]]
  BY <1>1 DEF IInv, RecordInv, Statuses
<1>7. EventPerConfirmed'
  BY <1>1, <1>5 DEF IInv, EventPerConfirmed
<1>8. \A n \in Nat : \A h : Covered(n, h) => Covered(n, h)'
  BY <1>1, <1>5, CoveredKept
<1>9. CursorInv'
  <2>1. PositionInv(cursor)'
    BY <1>1, <1>3, <1>4, <1>8 DEF PositionInv, NoHash, chain, IInv, ChainInv
  <2> QED
    BY <1>1, <1>4, <2>1 DEF IInv, CursorInv
<1>10. SnapshotInv'
  BY <1>1, <1>2, <1>4, <1>8 DEF IInv, SnapshotInv, chain
<1> QED
  BY <1>1, <1>6, <1>7, <1>9, <1>10, EndTickInv

-----------------------------------------------------------------------------
(* The theorems.                                                           *)

\* Every step preserves the invariant.
LEMMA NextInv == IInv /\ [Next]_vars => IInv'
<1> SUFFICES ASSUME IInv, [Next]_vars PROVE IInv'
  OBVIOUS
<1>1. CASE FetchFailed \/ Error \/ Crash \/ RealignFails
  BY <1>1, AbandonInv DEF FetchFailed, Error, Crash, RealignFails
<1>2. CASE UNCHANGED vars
  <2>1. UNCHANGED chain /\ UNCHANGED tables /\ UNCHANGED local
    BY <1>2 DEF vars
  <2>2. RecordInv' /\ TickInv'
    BY <2>1, TablesKept DEF IInv, RecordInv, TickInv, WithHead, WithCursor, chain, tables, local
  <2> QED
    BY <2>1, <2>2, TablesKept DEF IInv, local
<1> QED
  BY <1>1, <1>2, MineInv, ForkInv, GetNowBlockInv, ConfirmReadsInv, StartFetchInv, FetchStepInv,
     WalkInv, LoadCursorInv, ConfirmOneInv, ScanBlockInv, SaveCursorInv, PruneInv, RollbackInv
     DEF Next, Tick

\* What the tick holds stays true of the chain and of the tables, in every reachable
\* state and for every value of the constants.
THEOREM Invariance == Spec => []IInv
<1> QED
  BY InitInv, NextInv, PTL DEF Spec

\* Confirming a record and enqueueing its event are one: the events are those of the
\* confirmed user deposits.
THEOREM OneEventPerDeposit == Spec => []EventPerConfirmed
<1>1. IInv => EventPerConfirmed
  BY DEF IInv
<1> QED
  BY <1>1, Invariance, PTL

\* Between the place loadCursor put it at and the place it has reached, the cursor
\* skips no deposit of the chain it is on.
THEOREM CursorSkipsNothing == Spec => []NothingSkipped
<1>1. IInv => NothingSkipped
  BY DEF IInv, CursorInv, PositionInv, NothingSkipped
<1> QED
  BY <1>1, Invariance, PTL

\* No step changes a confirmed record: rollbacks and rescans leave it alone.
THEOREM ConfirmedDepositsAreFinal == Spec => ConfirmedIsFinal
<1>1. IInv /\ [Next]_vars =>
        [\A t \in Deposits : dep[t].status = "confirmed" => dep'[t] = dep[t]]_vars
  <2> SUFFICES ASSUME IInv, Next, NEW t \in Deposits, dep[t].status = "confirmed"
               PROVE  dep'[t] = dep[t]
    BY DEF vars
  <2>1. CASE ConfirmOne
    <3>1. dep \in [Deposits -> [status : Statuses, block : Int]] /\ rec \subseteq Deposits
      BY DEF IInv, RecordInv
    <3> QED
      BY <2>1, <3>1 DEF ConfirmOne, CanConfirm
  <2>2. CASE ScanBlock
    BY <2>2 DEF ScanBlock
  <2>3. CASE Rollback
    BY <2>3 DEF Rollback, Orphans
  <2>4. CASE dep' = dep
    BY <2>4
  <2>5. \/ ConfirmOne \/ ScanBlock \/ Rollback \/ dep' = dep
    BY DEF Next, Tick, GetNowBlock, LoadCursor, RealignFails, ConfirmUpTo, ReadReceipt, StartFetch,
       FetchBlock, FetchReceipts, DetectReorg, SaveCursor, FetchFailed, PruneSnapshots, WalkBack,
       Error, Crash, Mine, Fork, tables
  <2> QED
    BY <2>1, <2>2, <2>3, <2>4, <2>5
<1> QED
  BY <1>1, Invariance, PTL DEF Spec, ConfirmedIsFinal

-----------------------------------------------------------------------------
(* A deposit no fork has touched stays where it was when it was confirmed. *)

\* What a fork does to the chain: it leaves the blocks below it alone, and puts into
\* the new ones, once each, only deposits that were replaced or waited.
LEMMA ForkShape ==
    ASSUME IInv, NEW k \in 1 .. MaxFork, Fork(k)
    PROVE  LET base == Len(main) - k
               lost == UNION {main[n].txs : n \in base + 1 .. Len(main)}
           IN  /\ base \in Nat /\ k \in Nat \ {0} /\ Len(main) \in Nat
               /\ Len(main') = Len(main) + 1
               /\ \A n \in 1 .. base : main'[n] = main[n]
               /\ \A n \in base + 1 .. Len(main') : main'[n].txs \subseteq lost \cup (Deposits \ OnChain)
               /\ \A m, n \in base + 1 .. Len(main') : m # n => main'[m].txs \cap main'[n].txs = {}
               /\ forked' = forked \cup lost \cup UNION {main'[n].txs : n \in base + 1 .. Len(main')}
<1> DEFINE base == Len(main) - k
           lost == UNION {main[n].txs : n \in base + 1 .. Len(main)}
           open == lost \cup (Deposits \ OnChain)
           top == Len(main) + 1
<1>1. Len(main) \in Nat /\ k \in Nat \ {0} /\ k < Len(main)
  BY ChainAssumption DEF IInv, ChainInv, Fork
<1>2. PICK place \in [open -> base .. top] :
        main' = [n \in 1 .. top |-> IF n <= base THEN main[n]
                                     ELSE [hash |-> hashes + n - base,
                                           txs |-> {t \in open : place[t] = n}]]
  BY DEF Fork
<1>3. forked' = forked \cup lost \cup UNION {main'[n].txs : n \in base + 1 .. Len(main')}
  BY DEF Fork
<1> HIDE DEF open, lost, top
<1>4. main' \in Seq(Blocks) /\ main' \in [1 .. top -> Blocks]
  <2>1. main' \in Seq(Blocks)
    BY ForkInv DEF IInv, ChainInv, Blocks
  <2>2. main' \in [1 .. Len(main') -> Blocks] /\ Len(main') \in Nat
    BY <2>1, LenProperties, SeqDef
  <2>3. 1 .. Len(main') = 1 .. top
    BY <1>2, <2>2
  <2> QED
    BY <2>1, <2>2, <2>3
<1>5. Len(main') = top
  <2>1. top \in Nat
    BY <1>1 DEF top
  <2> QED
    BY <1>4, <2>1, FunctionIsSeq
<1>6. \A n \in 1 .. base : main'[n] = main[n]
  BY <1>1, <1>2 DEF top
<1>7. \A n \in base + 1 .. top : main'[n].txs = {t \in open : place[t] = n}
  BY <1>1, <1>2 DEF top
<1>8. \A n \in base + 1 .. top : main'[n].txs \subseteq open
  BY <1>7
<1>9. \A m, n \in base + 1 .. top : m # n => main'[m].txs \cap main'[n].txs = {}
  BY <1>7
<1> QED
  BY <1>1, <1>3, <1>5, <1>6, <1>8, <1>9 DEF open, lost, top

\* BlockOf finds the deposits that are on the chain.
LEMMA BlockOfFinds ==
    ASSUME NEW t \in Deposits, NEW n, In(t, n), IInv
    PROVE  t \in OnChain /\ In(t, BlockOf(t))
<1>1. Len(main) \in Nat /\ \E m \in 1 .. Len(main) : t \in main[m].txs
  BY DEF In, IInv, ChainInv
<1>2. BlockOf(t) \in 1 .. Len(main) /\ t \in main[BlockOf(t)].txs
  BY <1>1 DEF BlockOf
<1> QED
  BY <1>1, <1>2 DEF OnChain, In

\* The chain stays unambiguous, and moves no deposit that a fork leaves untouched.
LEMMA ChainKeeps ==
    ASSUME IInv, UniqueInv, Mine \/ \E k \in 1 .. MaxFork : Fork(k)
    PROVE  /\ UniqueInv' /\ Len(main) \in Nat /\ Len(main') = Len(main) + 1
           /\ forked \subseteq forked'
           /\ \A t \in Deposits \ forked' : \A n : In(t, n) => In(t, n)'
<1>0. Len(main) \in Nat /\ main \in Seq(Blocks)
  BY DEF IInv, ChainInv, Blocks
<1>1. CASE Mine
  <2>1. PICK T \in SUBSET (Deposits \ OnChain) :
          main' = Append(main, [hash |-> hashes + 1, txs |-> T])
    BY <1>1 DEF Mine
  <2>2. [hash |-> hashes + 1, txs |-> T] \in Blocks
    BY DEF IInv, ChainInv, Blocks
  <2>3. /\ Len(main') = Len(main) + 1 /\ main'[Len(main) + 1].txs = T
        /\ \A n \in 1 .. Len(main) : main'[n] = main[n]
    BY <1>0, <2>1, <2>2, AppendProperties
  <2>4. \A n \in 1 .. Len(main) : \A t \in T : t \notin main[n].txs
    BY BlockOfFinds DEF In
  <2>5. UniqueInv'
    <3> SUFFICES ASSUME NEW m \in 1 .. Len(main'), NEW n \in 1 .. Len(main'), m # n
                 PROVE  main'[m].txs \cap main'[n].txs = {}
      BY DEF UniqueInv
    <3>1. (m \in 1 .. Len(main) \/ m = Len(main) + 1) /\ (n \in 1 .. Len(main) \/ n = Len(main) + 1)
      BY <1>0, <2>3
    <3> QED
      BY <2>3, <2>4, <3>1 DEF UniqueInv
  <2>6. \A t, n : In(t, n) => In(t, n)'
    BY <1>0, <2>3 DEF In
  <2> QED
    BY <1>0, <1>1, <2>3, <2>5, <2>6 DEF Mine
<1>2. ASSUME NEW k \in 1 .. MaxFork, Fork(k)
      PROVE  /\ UniqueInv' /\ Len(main') = Len(main) + 1 /\ forked \subseteq forked'
             /\ \A t \in Deposits \ forked' : \A n : In(t, n) => In(t, n)'
  <2> DEFINE base == Len(main) - k
             lost == UNION {main[n].txs : n \in base + 1 .. Len(main)}
  <2>1. /\ base \in Nat /\ k \in Nat \ {0} /\ Len(main') = Len(main) + 1
        /\ \A n \in 1 .. base : main'[n] = main[n]
        /\ \A n \in base + 1 .. Len(main') : main'[n].txs \subseteq lost \cup (Deposits \ OnChain)
        /\ \A m, n \in base + 1 .. Len(main') : m # n => main'[m].txs \cap main'[n].txs = {}
        /\ forked' = forked \cup lost \cup UNION {main'[n].txs : n \in base + 1 .. Len(main')}
    BY <1>2, ForkShape
  <2>2. ASSUME NEW m \in 1 .. base, NEW n \in base + 1 .. Len(main')
        PROVE  main'[m].txs \cap main'[n].txs = {}
    <3> SUFFICES ASSUME NEW t \in main[m].txs, t \in lost \cup (Deposits \ OnChain)
                 PROVE  FALSE
      BY <2>1
    <3>1. m \in 1 .. Len(main)
      BY <1>0, <2>1
    <3>2. t \notin lost
      BY <1>0, <2>1, <3>1 DEF UniqueInv
    <3>3. t \in Deposits /\ In(t, m) /\ t \notin OnChain
      BY <3>1, <3>2 DEF In
    <3> QED
      BY <3>3, BlockOfFinds
  <2>3. UniqueInv'
    <3> SUFFICES ASSUME NEW m \in 1 .. Len(main'), NEW n \in 1 .. Len(main'), m # n
                 PROVE  main'[m].txs \cap main'[n].txs = {}
      BY DEF UniqueInv
    <3>1. /\ m \in 1 .. base \/ m \in base + 1 .. Len(main')
          /\ n \in 1 .. base \/ n \in base + 1 .. Len(main')
      BY <1>0, <2>1
    <3>2. CASE m \in 1 .. base /\ n \in 1 .. base
      BY <1>0, <2>1, <3>2 DEF UniqueInv
    <3> QED
      BY <2>1, <2>2, <3>1, <3>2
  <2>4. ASSUME NEW t \in Deposits \ forked', NEW n, In(t, n)
        PROVE  In(t, n)'
    <3>1. n \in 1 .. Len(main) /\ t \in main[n].txs /\ t \notin lost
      BY <2>1, <2>4 DEF In
    <3>2. n \in 1 .. base
      BY <1>0, <2>1, <3>1
    <3> QED
      BY <1>0, <2>1, <3>1, <3>2 DEF In
  <2> QED
    BY <2>1, <2>3, <2>4
<1> QED
  BY <1>0, <1>1, <1>2

\* A chain step keeps everything a tick remembers of an untouched deposit true.
LEMMA ChainBuried ==
    ASSUME IInv, BuriedInv, Mine \/ \E k \in 1 .. MaxFork : Fork(k)
    PROVE  BuriedInv'
<1>1. UNCHANGED <<dep, fetched, pend, rec, seen, head, pc>>
  BY DEF Mine, Fork, tables, local
<1>2. UniqueInv' /\ \A t \in Deposits \ forked' : \A n : In(t, n) => In(t, n)'
  BY ChainKeeps DEF BuriedInv
<1>3. ASSUME NEW t \in Deposits \ forked' PROVE DepthInv(t)'
  <2>1. DepthInv(t) /\ Len(main) \in Nat /\ Len(main') = Len(main) + 1
    BY ChainKeeps DEF BuriedInv
  <2>2. dep[t].status = "confirmed" => dep[t].block + Confirmations <= Len(main')
    <3>1. dep[t].block \in Int /\ Confirmations \in Nat
      BY DepthAssumption DEF IInv, RecordInv
    <3> QED
      BY <2>1, <3>1 DEF DepthInv
  <2> QED
    BY <1>1, <1>2, <2>1, <2>2 DEF DepthInv
<1> QED
  BY <1>1, <1>2, <1>3 DEF BuriedInv

\* A tick that is over forgets; the records it leaves are those it found, or pending
\* ones it gave up.
LEMMA EndTickBuried ==
    ASSUME BuriedInv, EndTick, UNCHANGED chain,
           \A t \in Deposits : /\ dep'[t].block = dep[t].block
                               /\ dep'[t].status # "none" => dep[t].status # "none"
                               /\ dep'[t].status = "confirmed" => dep[t].status = "confirmed"
    PROVE  BuriedInv'
<1>1. pend' = {} /\ rec' = {} /\ fetched' = Nothing
  BY DEF EndTick
<1>2. UniqueInv' /\ forked' = forked /\ main' = main
  BY DEF BuriedInv, UniqueInv, chain
<1>3. ASSUME NEW t \in Deposits \ forked PROVE DepthInv(t)'
  BY <1>1, <1>2 DEF BuriedInv, DepthInv, In, Nothing
<1> QED
  BY <1>1, <1>2, <1>3 DEF BuriedInv

\* A step of the tick that changes neither the records nor what it holds of them.
LEMMA IdleBuried ==
    ASSUME BuriedInv, UNCHANGED chain, UNCHANGED <<dep, pend, rec, seen, head>>,
           fetched' = fetched, pc' # "tick" \/ pc' = pc
    PROVE  BuriedInv'
  BY DEF BuriedInv, UniqueInv, DepthInv, In, chain

\* The confirm pass reads: the records it looks at are deep enough below the head of
\* this tick, and the receipt of an untouched deposit is in the block of its record.
LEMMA ConfirmReadsBuried ==
    ASSUME IInv, BuriedInv, GetNowBlock \/ ConfirmUpTo \/ ReadReceipt
    PROVE  BuriedInv'
<1>1. /\ UNCHANGED chain /\ UNCHANGED <<dep, fetched>> /\ pc' # "tick"
  BY DEF GetNowBlock, ConfirmUpTo, ReadReceipt, Goto, tables
<1>2. UniqueInv' /\ forked' = forked /\ main' = main
  BY <1>1 DEF BuriedInv, UniqueInv, chain
<1>3. ASSUME NEW t \in Deposits \ forked PROVE DepthInv(t)'
  <2>1. DepthInv(t)
    BY DEF BuriedInv
  <2>2. CASE GetNowBlock
    <3>1. pend' = {} /\ rec' = {}
      BY <2>2 DEF GetNowBlock, BuriedInv
    <3> QED
      BY <1>1, <1>2, <2>1, <3>1 DEF DepthInv, In
  <2>3. CASE ConfirmUpTo
    <3>1. UNCHANGED <<rec, seen, head>> /\ (pend' = DeepEnough \/ pend' = {})
      BY <2>3 DEF ConfirmUpTo
    <3>2. t \in DeepEnough => dep[t].status # "none" /\ dep[t].block + Confirmations <= head
      <4>1. dep[t].block \in Int /\ Confirmations \in Nat /\ head \in Int
        BY <2>3, DepthAssumption DEF ConfirmUpTo, IInv, RecordInv, TickInv, WithHead
      <4> QED
        BY <4>1 DEF DeepEnough
    <3> QED
      BY <1>1, <1>2, <2>1, <3>1, <3>2 DEF DepthInv, In
  <2>4. CASE ReadReceipt
    <3>1. PICK u \in pend : /\ pend' = pend \ {u} /\ head' = head
                            /\ \/ rec' = {u} /\ seen' = BlockOf(u)
                               \/ UNCHANGED <<rec, seen>>
      BY <2>4 DEF ReadReceipt
    <3>2. t \in pend => BlockOf(t) = dep[t].block
      <4> SUFFICES ASSUME t \in pend PROVE BlockOf(t) = dep[t].block
        OBVIOUS
      <4>1. In(t, dep[t].block)
        BY <2>1 DEF DepthInv
      <4>2. In(t, BlockOf(t))
        BY <4>1, BlockOfFinds
      <4> QED
        BY <4>1, <4>2 DEF BuriedInv, UniqueInv, In
    <3> QED
      BY <1>1, <1>2, <2>1, <3>1, <3>2 DEF DepthInv, In
  <2> QED
    BY <2>2, <2>3, <2>4
<1> QED
  BY <1>1, <1>2, <1>3 DEF BuriedInv

\* The confirm pass writes.
LEMMA ConfirmOneBuried ==
    ASSUME IInv, BuriedInv, ConfirmOne
    PROVE  BuriedInv'
<1>1. /\ UNCHANGED chain /\ UNCHANGED <<pend, head, fetched>> /\ rec' = {} /\ pc = "settle"
      /\ pc' = "receipt"
  BY DEF ConfirmOne, Goto
<1>2. UniqueInv' /\ forked' = forked /\ main' = main
  BY <1>1 DEF BuriedInv, UniqueInv, chain
<1>3. ASSUME NEW t \in Deposits \ forked PROVE DepthInv(t)'
  <2>1. DepthInv(t) /\ dep[t] \in [status : Statuses, block : Int]
    BY DEF BuriedInv, IInv, RecordInv
  <2>2. CASE dep'[t] = dep[t]
    BY <1>1, <1>2, <2>1, <2>2 DEF DepthInv, In
  <2>3. CASE dep'[t] # dep[t]
    <3>1. t \in rec /\ dep'[t] = [status |-> IF seen = 0 THEN "orphaned" ELSE "confirmed",
                                  block |-> IF seen = 0 THEN dep[t].block ELSE seen]
      BY <2>3 DEF ConfirmOne, IInv, RecordInv
    <3>2. seen = dep[t].block /\ dep[t].block + Confirmations <= head /\ dep[t].status # "none"
      BY <2>1, <3>1 DEF DepthInv
    <3>3. dep'[t].block = dep[t].block /\ dep'[t].status # "none"
      BY <3>1, <3>2
    <3>4. dep[t].block + Confirmations <= Len(main)
      <4>1. head \in 1 .. Len(main) /\ Len(main) \in Nat /\ Confirmations \in Nat
        BY <1>1, DepthAssumption DEF IInv, TickInv, ChainInv, WithHead
      <4> QED
        BY <2>1, <3>2, <4>1
    <3> QED
      BY <1>1, <1>2, <2>1, <3>2, <3>3, <3>4 DEF DepthInv, In
  <2> QED
    BY <2>2, <2>3
<1> QED
  BY <1>1, <1>2, <1>3 DEF BuriedInv

\* The prefetch and scanBlock: a record is made of the block its deposit is in.
LEMMA ScanBuried ==
    ASSUME IInv, BuriedInv,
           ScanBlock \/ \E n \in DOMAIN fetched : FetchBlock(n) \/ FetchReceipts(n)
    PROVE  BuriedInv'
<1>1. /\ UNCHANGED chain /\ UNCHANGED <<pend, rec, seen, head>> /\ pc' # "tick"
  BY DEF ScanBlock, FetchBlock, FetchReceipts, Goto
<1>2. UniqueInv' /\ forked' = forked /\ main' = main
  BY <1>1 DEF BuriedInv, UniqueInv, chain
<1>3. ASSUME NEW t \in Deposits \ forked PROVE DepthInv(t)'
  <2>1. DepthInv(t)
    BY DEF BuriedInv
  <2>2. CASE ScanBlock
    <3>1. /\ fetched' = fetched
          /\ \/ dep'[t] = dep[t]
             \/ /\ dep[t].status = "none"
                /\ dep'[t] = [status |-> "pending", block |-> From]
                /\ From \in DOMAIN fetched /\ fetched[From].state = "done"
                /\ t \in fetched[From].txs
      BY <2>2 DEF ScanBlock
    <3>2. dep'[t] # dep[t] => dep'[t].status = "pending" /\ dep'[t].block = From /\ In(t, From)
      BY <2>1, <3>1 DEF DepthInv
    <3> QED
      BY <1>1, <1>2, <2>1, <3>1, <3>2 DEF DepthInv, In
  <2>3. ASSUME NEW n \in DOMAIN fetched, FetchBlock(n) \/ FetchReceipts(n)
        PROVE  DepthInv(t)'
    <3>1. n \in 1 .. Len(main) /\ dep' = dep
      BY <2>3 DEF IInv, FetchInv, FetchBlock, FetchReceipts, tables
    <3>2. PICK b : /\ fetched' = [fetched EXCEPT ![n] = b]
                   /\ b.state = "done" => b.txs = main[n].txs
      BY <2>3 DEF FetchBlock, FetchReceipts
    <3> QED
      BY <1>1, <1>2, <2>1, <3>1, <3>2 DEF DepthInv, In
  <2> QED
    BY <2>2, <2>3
<1> QED
  BY <1>1, <1>2, <1>3 DEF BuriedInv

\* Every step preserves BuriedInv.
LEMMA NextBuried == IInv /\ BuriedInv /\ [Next]_vars => BuriedInv'
<1> SUFFICES ASSUME IInv, BuriedInv, [Next]_vars PROVE BuriedInv'
  OBVIOUS
<1>1. CASE FetchFailed \/ Error \/ Crash \/ RealignFails \/ PruneSnapshots
  BY <1>1, EndTickBuried DEF FetchFailed, Error, Crash, RealignFails, PruneSnapshots, tables
<1>2. CASE Rollback
  <2>1. EndTick /\ UNCHANGED chain
    BY <1>2 DEF Rollback
  <2>2. \A t \in Deposits : /\ dep'[t].block = dep[t].block
                            /\ dep'[t].status # "none" => dep[t].status # "none"
                            /\ dep'[t].status = "confirmed" => dep[t].status = "confirmed"
    BY <1>2 DEF Rollback, Orphans
  <2> QED
    BY <2>1, <2>2, EndTickBuried
<1>3. CASE LoadCursor \/ DetectReorg \/ SaveCursor
  BY <1>3, IdleBuried DEF LoadCursor, DetectReorg, SaveCursor, Goto, tables
<1>4. CASE UNCHANGED vars
  BY <1>4, IdleBuried DEF vars, tables, local
<1>5. CASE WalkBack
  <2>1. CASE EndTick
    BY <1>5, <2>1, EndTickBuried DEF WalkBack, tables
  <2>2. CASE ~EndTick
    BY <1>5, <2>2, IdleBuried DEF WalkBack, Goto, tables
  <2> QED
    BY <2>1, <2>2
<1>6. CASE StartFetch
  <2>1. CASE EndTick
    BY <1>6, <2>1, EndTickBuried DEF StartFetch, tables
  <2>2. CASE ~EndTick
    <3>1. /\ UNCHANGED chain /\ UNCHANGED <<dep, pend, rec, seen, head>> /\ pc' = "fetch"
          /\ fetched' = [n \in From .. To |-> [state |-> "todo"]]
      BY <1>6, <2>2 DEF StartFetch, Goto, tables
    <3> QED
      BY <3>1 DEF BuriedInv, UniqueInv, DepthInv, In, chain
  <2> QED
    BY <2>1, <2>2
<1> QED
  BY <1>1, <1>2, <1>3, <1>4, <1>5, <1>6, ChainBuried, ConfirmReadsBuried, ConfirmOneBuried,
     ScanBuried DEF Next, Tick

\* Every confirmed deposit that no fork has touched is in the block of its record,
\* with Confirmations blocks on top of it, whatever head and receipts the tick read
\* and however deep the forks around it were.
THEOREM ConfirmedDepositsAreBuried == Spec => []BuriedInv
<1>1. Init => BuriedInv
  <2> SUFFICES ASSUME Init PROVE BuriedInv
    OBVIOUS
  <2>1. Len(main) = FirstHeight
    <3>1. main \in [1 .. FirstHeight -> Blocks]
      BY ChainAssumption DEF Init, Blocks
    <3> QED
      BY <3>1, FunctionIsSeq, ChainAssumption
  <2>2. UniqueInv
    BY <2>1 DEF Init, UniqueInv
  <2> QED
    BY <2>2 DEF Init, BuriedInv, DepthInv, Nothing
<1> QED
  BY <1>1, NextBuried, Invariance, PTL DEF Spec

\* As long as no fork is deeper than deposit.confirmations, what was pushed is not
\* taken back: no fork touches a deposit it finds confirmed and untouched.
THEOREM PushedStaysOnChain ==
    ASSUME MaxFork <= Confirmations
    PROVE  Spec => NotTakenBack
<1>1. IInv /\ BuriedInv /\ [Next]_vars =>
        [\A t \in Deposits :
            dep[t].status = "confirmed" /\ t \notin forked => t \notin forked']_vars
  <2> SUFFICES ASSUME IInv, BuriedInv, Next, NEW t \in Deposits \ forked,
                      dep[t].status = "confirmed"
               PROVE  t \notin forked'
    BY DEF vars
  <2>1. CASE forked' = forked
    BY <2>1
  <2>2. ASSUME NEW k \in 1 .. MaxFork, Fork(k)
        PROVE  t \notin forked'
    <3> DEFINE base == Len(main) - k
               lost == UNION {main[n].txs : n \in base + 1 .. Len(main)}
               b == dep[t].block
    <3>1. /\ base \in Nat /\ k \in Nat \ {0} /\ Len(main) \in Nat
          /\ \A n \in base + 1 .. Len(main') : main'[n].txs \subseteq lost \cup (Deposits \ OnChain)
          /\ forked' = forked \cup lost \cup UNION {main'[n].txs : n \in base + 1 .. Len(main')}
      BY <2>2, ForkShape
    <3>2. In(t, b) /\ b + Confirmations <= Len(main)
      BY DEF BuriedInv, DepthInv
    <3>3. b \in 1 .. Len(main) /\ t \in main[b].txs
      BY <3>2 DEF In
    <3>4. b <= base
      <4>1. k <= Confirmations /\ Confirmations \in Nat /\ MaxFork \in Nat
        BY DepthAssumption, ChainAssumption
      <4> QED
        BY <3>1, <3>2, <3>3, <4>1
    <3>5. t \notin lost
      BY <3>1, <3>3, <3>4 DEF BuriedInv, UniqueInv
    <3>6. t \in OnChain
      BY <3>2, BlockOfFinds
    <3> QED
      BY <3>1, <3>5, <3>6
  <2>3. forked' = forked \/ \E k \in 1 .. MaxFork : Fork(k)
    BY DEF Next, Tick, GetNowBlock, LoadCursor, RealignFails, ConfirmUpTo, ReadReceipt, StartFetch,
       ConfirmOne, FetchBlock, FetchReceipts, DetectReorg, ScanBlock, SaveCursor, FetchFailed,
       PruneSnapshots, WalkBack, Rollback, Error, Crash, Mine, chain
  <2> QED
    BY <2>1, <2>2, <2>3
<1> QED
  BY <1>1, ConfirmedDepositsAreBuried, Invariance, PTL DEF Spec, NotTakenBack

=============================================================================
