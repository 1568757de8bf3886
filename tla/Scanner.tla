------------------------------ MODULE Scanner ------------------------------
(***************************************************************************)
(* The deposit scanner (internal/scanner/scanner.go) over the tables       *)
(* chain_cursor, block_snapshot, deposit_record and notify_outbox, and a   *)
(* chain that grows and forks meanwhile.                                   *)
(*                                                                         *)
(* One tick reads the head, loads the cursor, confirms the pending         *)
(* records that are deep enough, prefetches a range of blocks (a block and *)
(* its receipts are two RPCs, and the blocks arrive in any order), and     *)
(* applies them in order until one does not fit on the cursor.  Every RPC  *)
(* and every database statement or transaction is a step of its own.       *)
(*                                                                         *)
(* A deposit is one Transfer log of an allowlisted contract to a known     *)
(* address; amounts and decoding are abstracted away.                      *)
(***************************************************************************)
EXTENDS Integers, FiniteSets, Sequences

CONSTANTS
    Deposits,       \* (txid, event_index) pairs that pay one of our addresses
    Internal,       \* the ones that come from another address of ours
    StartBlock,     \* deposit.start_block, 0 for the head at the first start
    Confirmations,  \* deposit.confirmations
    ReorgDepth,     \* deposit.reorg_depth
    SnapshotsKept,  \* snapshots kept behind the cursor (ReorgDepth * 10)
    BatchBlocks,    \* deposit.batch_blocks
    FirstHeight,    \* height of the chain at the first start
    MaxHeight,      \* bound: blocks on the chain
    MaxFork,        \* a fork replaces at most this many blocks
    MaxForks,       \* bound: forks
    MaxFaults       \* bound: crashes, failed calls and lagging answers

NoHash == 0  \* an empty block_hash column

ASSUME DepositAssumption == Internal \subseteq Deposits
ASSUME DepthAssumption ==
    /\ StartBlock \in Nat
    /\ Confirmations \in Nat
    /\ ReorgDepth \in Nat
    /\ SnapshotsKept \in Nat
    /\ BatchBlocks \in Nat \ {0}
ASSUME ChainAssumption ==
    /\ FirstHeight \in Nat \ {0, 1}
    /\ MaxHeight \in Nat
    /\ MaxFork \in Nat
    /\ MaxForks \in Nat
    /\ MaxFaults \in Nat

VARIABLES
    \* --- chain (external)
    main,     \* main[n]: the block at height n
    hashes,   \* block hashes handed out so far
    forks,    \* forks so far
    forked,   \* deposits in a block a fork replaced or brought (history)
    \* --- database
    cursor,   \* chain_cursor row
    origin,   \* height the cursor was last created or realigned at (history)
    snaps,    \* block_snapshot: height -> hash
    dep,      \* dep[t]: deposit_record of t
    outbox,   \* deposits with a notify_outbox row
    \* --- process
    pc,       \* next step of the tick
    checked,  \* cursorChecked
    head,     \* height of the head this tick read
    cur,      \* the cursor this tick works with
    pend,     \* pending records the confirm pass still has to look at
    rec,      \* the record under confirmation
    seen,     \* height its receipt was found at, 0 when there is none
    fetched,  \* prefetched blocks
    point,    \* forkPoint of handleReorg
    faults    \* faults spent, out of MaxFaults

chain == <<main, hashes, forks, forked>>
tables == <<cursor, origin, snaps, dep, outbox>>
local == <<pc, checked, head, cur, pend, rec, seen, fetched, point>>
vars == <<chain, tables, local, faults>>

Absent == [num |-> 0, hash |-> NoHash, exists |-> FALSE]
At(n, h) == [num |-> n, hash |-> h, exists |-> TRUE]
Nothing == <<>>

\* Height of the block that holds deposit t, 0 when it is not on the chain.
BlockOf(t) ==
    IF \E n \in 1 .. Len(main) : t \in main[n].txs
    THEN CHOOSE n \in 1 .. Len(main) : t \in main[n].txs
    ELSE 0

OnChain == {t \in Deposits : BlockOf(t) # 0}

Init ==
    /\ main = [n \in 1 .. FirstHeight |-> [hash |-> n, txs |-> {}]]
    /\ hashes = FirstHeight
    /\ forks = 0
    /\ forked = {}
    /\ cursor = Absent
    /\ origin = 0
    /\ snaps = Nothing
    /\ dep = [t \in Deposits |-> [status |-> "none", block |-> 0]]
    /\ outbox = {}
    /\ pc = "tick"
    /\ checked = FALSE
    /\ head = 0
    /\ cur = Absent
    /\ pend = {}
    /\ rec = {}
    /\ seen = 0
    /\ fetched = Nothing
    /\ point = 0
    /\ faults = 0

-----------------------------------------------------------------------------
(* The chain.                                                              *)

\* The last heights within the bound only add depth: no deposit is put there.
Room(n) == n + Confirmations <= MaxHeight

\* Block n + 1 is produced on top of block n, with any of the waiting deposits.  A
\* deposit is in a block when its transaction succeeded there; a reverted one waits.
Mine ==
    /\ Len(main) < MaxHeight
    /\ \E T \in SUBSET (Deposits \ OnChain) :
         /\ T = {} \/ Room(Len(main) + 1)
         /\ main' = Append(main, [hash |-> hashes + 1, txs |-> T])
    /\ hashes' = hashes + 1
    /\ UNCHANGED <<forks, forked, tables, local, faults>>

\* The last k blocks are replaced by k + 1 others; a transaction of theirs is
\* included again in one of them, or is gone (it waits, at height base).
Fork(k) ==
    /\ forks < MaxForks
    /\ k < Len(main)
    /\ Len(main) < MaxHeight
    /\ LET base == Len(main) - k
           lost == UNION {main[n].txs : n \in base + 1 .. Len(main)}
           open == lost \cup (Deposits \ OnChain)
       IN  /\ \E place \in [open -> base .. Len(main) + 1] :
                 /\ \A t \in open : place[t] = base \/ Room(place[t])
                 /\ main' = [n \in 1 .. Len(main) + 1 |->
                              IF n <= base THEN main[n]
                              ELSE [hash |-> hashes + n - base,
                                    txs |-> {t \in open : place[t] = n}]]
           /\ forked' = forked \cup lost \cup UNION {main'[n].txs : n \in base + 1 .. Len(main')}
    /\ hashes' = hashes + k + 1
    /\ forks' = forks + 1
    /\ UNCHANGED <<tables, local, faults>>

\* Two blocks link when the parent hash of the second is the hash of the first.
ParentOf(n) == IF n = 1 THEN NoHash ELSE main[n - 1].hash

-----------------------------------------------------------------------------
(* The tick.                                                               *)

Goto(l) == pc' = l

\* The tick is over; what it held in local variables is gone.
EndTick ==
    /\ Goto("tick")
    /\ head' = 0 /\ cur' = Absent /\ pend' = {} /\ rec' = {} /\ seen' = 0
    /\ fetched' = Nothing /\ point' = 0

Fault == faults < MaxFaults /\ faults' = faults + 1

\* A node of the gateway may lag behind by a block.
GetNowBlock ==
    /\ pc = "tick"
    /\ \/ head' = Len(main) /\ UNCHANGED faults
       \/ head' = Len(main) - 1 /\ Fault
    /\ Goto("cursor")
    /\ UNCHANGED <<chain, tables, checked, cur, pend, rec, seen, fetched, point>>

\* cursorOnChain: close to the head a foreign hash is a reorg, which is left to
\* handleReorg; far from it the cursor belongs to another chain.
CursorOnChain ==
    /\ cursor.num <= head
    /\ \/ cursor.hash = NoHash
       \/ head - cursor.num <= ReorgDepth
       \/ main[cursor.num].hash = cursor.hash

\* loadCursor puts the cursor at height n, with no hash.
PlaceCursor(n) ==
    /\ cur' = At(n, NoHash)
    /\ cursor' = At(n, NoHash)
    /\ origin' = n

\* loadCursor: created on the first start, validated once per process start and
\* realigned to the head when it cannot be a position of this chain.
LoadCursor ==
    /\ pc = "cursor"
    /\ \/ /\ ~cursor.exists
          /\ PlaceCursor(IF StartBlock = 0 \/ StartBlock > head THEN head - 1 ELSE StartBlock)
          /\ UNCHANGED checked
       \/ /\ cursor.exists
          /\ checked \/ CursorOnChain
          /\ cur' = cursor
          /\ checked' = TRUE
          /\ UNCHANGED <<cursor, origin>>
       \/ /\ cursor.exists
          /\ ~checked /\ ~CursorOnChain
          /\ PlaceCursor(head - 1)
          /\ checked' = TRUE
    /\ Goto("confirm")
    /\ UNCHANGED <<chain, snaps, dep, outbox, head, pend, rec, seen, fetched, point, faults>>

\* The realigned cursor is not saved, and is not looked at again: cursorChecked is
\* set before the write.
RealignFails ==
    /\ pc = "cursor"
    /\ cursor.exists /\ ~checked /\ ~CursorOnChain
    /\ Fault
    /\ checked' = TRUE
    /\ EndTick
    /\ UNCHANGED <<chain, tables>>

\* Mutant: off by one at the confirmation depth.
DeepEnoughShallow ==
    {t \in Deposits : /\ head - Confirmations > 0
                      /\ dep[t].status = "pending"
                      /\ dep[t].block <= head - Confirmations + 1}

\* The pending records that reached the confirmation depth.
DeepEnough ==
    {t \in Deposits : /\ head - Confirmations > 0
                      /\ dep[t].status = "pending"
                      /\ dep[t].block <= head - Confirmations}

\* confirmUpTo, the query; an error is logged and the scan goes on.
ConfirmUpTo ==
    /\ pc = "confirm"
    /\ \/ pend' = DeepEnough /\ UNCHANGED faults
       \/ pend' = {} /\ Fault
    /\ Goto("receipt")
    /\ UNCHANGED <<chain, tables, checked, head, cur, rec, seen, fetched, point>>

\* confirmOne, the receipt: the transaction may be gone, or in another block.
\* An error skips the record.
ReadReceipt ==
    /\ pc = "receipt"
    /\ \E t \in pend :
         /\ pend' = pend \ {t}
         /\ \/ /\ rec' = {t}
               /\ seen' = BlockOf(t)
               /\ Goto("settle")
               /\ UNCHANGED faults
            \/ Fault /\ UNCHANGED <<rec, seen, pc>>
    /\ UNCHANGED <<chain, tables, checked, head, cur, fetched, point>>

\* WHERE id = ? AND status = pending
CanConfirm(t) == dep[t].status = "pending"

\* Mutant: internal movements are reported as well.
ReportsAll(t) == TRUE

\* Internal movements are not user deposits.
Reports(t) == t \notin Internal

\* confirmOne, the transaction: it commits, or it fails and the next tick finds
\* the record again.
ConfirmOne ==
    /\ pc = "settle"
    /\ \/ /\ \E t \in rec :
               /\ dep' = [dep EXCEPT ![t] =
                            IF ~CanConfirm(t) THEN @
                            ELSE IF seen = 0 THEN [status |-> "orphaned", block |-> @.block]
                            ELSE [status |-> "confirmed", block |-> seen]]
               /\ outbox' = IF CanConfirm(t) /\ seen # 0 /\ Reports(t)
                            THEN outbox \cup {t} ELSE outbox
          /\ UNCHANGED faults
       \/ Fault /\ UNCHANGED <<dep, outbox>>
    /\ rec' = {} /\ seen' = 0
    /\ Goto("receipt")
    /\ UNCHANGED <<chain, cursor, origin, snaps, checked, head, cur, pend, fetched, point>>

\* The confirm pass is over; nothing to scan ends the tick.
From == cur.num + 1
To == IF From + BatchBlocks - 1 <= head THEN From + BatchBlocks - 1 ELSE head

StartFetch ==
    /\ pc = "receipt"
    /\ pend = {}
    /\ IF From > To
       THEN EndTick
       ELSE /\ Goto("fetch")
            /\ fetched' = [n \in From .. To |-> [state |-> "todo"]]
            /\ UNCHANGED <<head, cur, pend, rec, seen, point>>
    /\ UNCHANGED <<chain, tables, checked, faults>>

\* fetchRange: the workers fetch the block ...
FetchBlock(n) ==
    /\ pc = "fetch"
    /\ n \in DOMAIN fetched
    /\ fetched[n].state = "todo"
    /\ \/ /\ fetched' = [fetched EXCEPT ![n] = [state |-> "block", hash |-> main[n].hash,
                                                parent |-> ParentOf(n)]]
          /\ UNCHANGED faults
       \/ /\ fetched' = [fetched EXCEPT ![n] = [state |-> "error"]]
          /\ Fault
    /\ UNCHANGED <<chain, tables, pc, checked, head, cur, pend, rec, seen, point>>

\* ... and then its receipts, of whatever block is at that height by now.
FetchReceipts(n) ==
    /\ pc = "fetch"
    /\ n \in DOMAIN fetched
    /\ fetched[n].state = "block"
    /\ \/ /\ fetched' = [fetched EXCEPT ![n] = [state |-> "done", hash |-> @.hash,
                                                parent |-> @.parent, txs |-> main[n].txs]]
          /\ UNCHANGED faults
       \/ /\ fetched' = [fetched EXCEPT ![n] = [state |-> "error"]]
          /\ Fault
    /\ UNCHANGED <<chain, tables, pc, checked, head, cur, pend, rec, seen, point>>

\* wg.Wait: the blocks are applied when all of them have arrived.
Applying ==
    /\ pc = "fetch"
    /\ \A n \in DOMAIN fetched : fetched[n].state \in {"done", "error"}

\* Mutant: the parent hash is not looked at.
FitsAny(b) == TRUE

\* The block continues the chain the cursor is on.
Fits(b) == cur.hash = NoHash \/ b.parent = NoHash \/ b.parent = cur.hash

\* The next block is on another fork: handleReorg begins to walk back.
DetectReorg ==
    /\ Applying
    /\ From \in DOMAIN fetched
    /\ fetched[From].state = "done"
    /\ ~Fits(fetched[From])
    /\ point' = From - 1
    /\ Goto("walk")
    /\ UNCHANGED <<chain, tables, checked, head, cur, pend, rec, seen, fetched, faults>>

\* scanBlock: snapshot and records in one transaction; a known record stays as
\* it is (ON CONFLICT DO NOTHING).
ScanBlock ==
    /\ Applying
    /\ From \in DOMAIN fetched
    /\ fetched[From].state = "done"
    /\ Fits(fetched[From])
    /\ LET b == fetched[From] IN
         /\ snaps' = [n \in DOMAIN snaps \cup {From} |-> IF n = From THEN b.hash ELSE snaps[n]]
         /\ dep' = [t \in Deposits |->
                      IF t \in b.txs /\ dep[t].status = "none"
                      THEN [status |-> "pending", block |-> From] ELSE dep[t]]
         /\ cur' = At(From, b.hash)
    /\ Goto("save")
    /\ UNCHANGED <<chain, cursor, origin, outbox, checked, head, pend, rec, seen, fetched, point, faults>>

\* saveCursor, a statement of its own.
SaveCursor ==
    /\ pc = "save"
    /\ cursor' = cur
    /\ Goto("fetch")
    /\ UNCHANGED <<chain, origin, snaps, dep, outbox, checked, head, cur, pend, rec, seen, fetched,
                   point, faults>>

\* A block that could not be fetched ends the tick.
FetchFailed ==
    /\ Applying
    /\ From \in DOMAIN fetched
    /\ fetched[From].state = "error"
    /\ EndTick
    /\ UNCHANGED <<chain, tables, checked, faults>>

\* The range is applied: pruneSnapshots.
PruneSnapshots ==
    /\ Applying
    /\ From \notin DOMAIN fetched
    /\ snaps' = [n \in {m \in DOMAIN snaps : m >= cur.num - SnapshotsKept} |-> snaps[n]]
    /\ EndTick
    /\ UNCHANGED <<chain, cursor, origin, dep, outbox, checked, faults>>

\* handleReorg, one turn of its loop.
WalkBack ==
    /\ pc = "walk"
    /\ IF point <= 0 \/ point < From - ReorgDepth
       THEN EndTick
       ELSE /\ IF point \in DOMAIN snaps /\ main[point].hash = snaps[point]
               THEN Goto("rollback") /\ UNCHANGED point
               ELSE point' = point - 1 /\ UNCHANGED pc
            /\ UNCHANGED <<head, cur, pend, rec, seen, fetched>>
    /\ UNCHANGED <<chain, tables, checked, faults>>

\* Mutant: the cursor is not rewound.
RewindNot == cursor

\* The cursor after a rollback.
Rewind == At(point, snaps[point])

\* Mutant: confirmed records are orphaned as well.
OrphansAll == {t \in Deposits : dep[t].status # "none" /\ dep[t].block > point}

\* The records a rollback gives up: the unconfirmed ones above the fork point.
Orphans == {t \in Deposits : dep[t].status = "pending" /\ dep[t].block > point}

\* handleReorg, the transaction.
Rollback ==
    /\ pc = "rollback"
    /\ dep' = [t \in Deposits |->
                 IF t \in Orphans THEN [status |-> "orphaned", block |-> dep[t].block]
                 ELSE dep[t]]
    /\ snaps' = [n \in {m \in DOMAIN snaps : m <= point} |-> snaps[n]]
    /\ cursor' = Rewind
    /\ EndTick
    /\ UNCHANGED <<chain, origin, outbox, checked, faults>>

\* An RPC or a statement outside the confirm pass and the prefetch fails.
Error ==
    /\ pc \in {"cursor", "save", "walk", "rollback"} \/ Applying
    /\ Fault
    /\ EndTick
    /\ UNCHANGED <<chain, tables, checked>>

\* The process dies and is restarted.
Crash ==
    /\ pc # "tick" \/ checked
    /\ Fault
    /\ EndTick
    /\ checked' = FALSE
    /\ UNCHANGED <<chain, tables>>

Tick ==
    \/ GetNowBlock \/ LoadCursor \/ ConfirmUpTo \/ ReadReceipt \/ ConfirmOne \/ StartFetch
    \/ \E n \in DOMAIN fetched : FetchBlock(n) \/ FetchReceipts(n)
    \/ DetectReorg \/ ScanBlock \/ SaveCursor \/ FetchFailed \/ PruneSnapshots
    \/ WalkBack \/ Rollback

Next == Tick \/ RealignFails \/ Error \/ Crash \/ Mine \/ \E k \in 1 .. MaxFork : Fork(k)

Spec == Init /\ [][Next]_vars

\* The loop of Run keeps ticking and the chain keeps producing blocks.
FairSpec == Spec /\ WF_vars(Tick) /\ WF_vars(Mine)

-----------------------------------------------------------------------------
(* Properties.                                                             *)

\* "exactly one outbox event per record" (confirmUpTo), and none for internal
\* movements: the events are those of the confirmed user deposits.
EventPerConfirmed ==
    outbox = {t \in Deposits \ Internal : dep[t].status = "confirmed"}

\* Every deposit in the blocks after origin up to n has a record, when the block at
\* height n is the one with hash h.
Covered(n, h) ==
    n \in 1 .. Len(main) /\ main[n].hash = h =>
        \A m \in origin + 1 .. n : \A t \in main[m].txs : dep[t].status # "none"

\* The cursor never skips blocks: while it is on the chain, every deposit in a block
\* between the place it was put at and the place it has reached has a record,
\* whatever forks, crashes between scanBlock and saveCursor, and restarts came before.
NothingSkipped == cursor.exists => Covered(cursor.num, cursor.hash)

\* A confirmed deposit stays confirmed: a later fork rolls back pending records only.
ConfirmedIsFinal ==
    [][\A t \in Deposits : dep[t].status = "confirmed" => dep'[t] = dep[t]]_vars

\* Only confirmed deposits are pushed, so that no reorg takes back what was pushed: a
\* fork of at most Confirmations blocks leaves every confirmed deposit in its block,
\* though the depth was judged by a head read earlier and by a record of a block
\* fetched in two calls.  Left out are deposits a fork had touched before; one that a
\* fork moved up may be confirmed with no block on top of it.
NotTakenBack ==
    [][\A t \in Deposits :
          dep[t].status = "confirmed" /\ t \notin forked => t \notin forked']_vars

\* Every user deposit is notified in the end, unless a fork replaced or brought its
\* block: forks before and after it, failed calls and crashes do not lose it.
DepositsAreNotified ==
    \A t \in Deposits \ Internal : t \in OnChain ~> t \in outbox \cup forked

\* "moved to another block -> update block_number" (confirmOne): a deposit whose
\* transaction a fork only moved, or brought, is notified as well.
MovedAreNotified ==
    \A t \in Deposits \ Internal : []<>(t \in OnChain => t \in outbox)

-----------------------------------------------------------------------------
(* The inductive invariant behind EventPerConfirmed and NothingSkipped.    *)

Statuses == {"none", "pending", "confirmed", "orphaned"}

\* Steps at which the tick holds a head, and at which it holds a cursor.
WithHead == {"cursor", "confirm", "receipt", "settle", "fetch", "save", "walk", "rollback"}
WithCursor == WithHead \ {"cursor"}

RecordInv ==
    /\ dep \in [Deposits -> [status : Statuses, block : Int]]
    /\ pend \subseteq Deposits
    /\ rec \subseteq Deposits
    /\ seen \in Int

ChainInv ==
    /\ hashes \in Nat
    /\ main \in Seq([hash : Nat, txs : SUBSET Deposits])
    /\ Len(main) >= FirstHeight
    /\ \A n \in 1 .. Len(main) : main[n].hash \in 1 .. hashes

\* A position is on a block that was on the chain, or where the cursor was put.
PositionInv(c) ==
    /\ c.num \in Nat
    /\ c.hash \in 0 .. hashes
    /\ c.hash = NoHash => c.num <= origin
    /\ c.num <= Len(main)
    /\ c = At(c.num, c.hash)
    /\ Covered(c.num, c.hash)

TickInv ==
    /\ pc \in {"tick"} \cup WithHead
    /\ pc \in WithHead => head \in 1 .. Len(main)
    /\ pc \in WithCursor => cursor.exists /\ PositionInv(cur)
    /\ pc \in WithCursor \ {"save"} => cur = cursor
    /\ pc = "save" => /\ cur.num \in DOMAIN snaps
                      /\ snaps[cur.num] = cur.hash
                      /\ cursor.num <= cur.num
                      /\ \A n \in DOMAIN snaps : n <= cur.num => n <= cursor.num \/ n = cur.num
    /\ pc \in {"walk", "rollback"} => point \in Int /\ point <= cursor.num
    /\ pc = "rollback" => point \in DOMAIN snaps

CursorInv ==
    /\ origin \in Nat
    /\ cursor.exists \in BOOLEAN
    /\ cursor.exists => PositionInv(cursor)

\* handleReorg may go back to any snapshot the cursor has passed.
SnapshotInv ==
    \A n \in DOMAIN snaps :
        /\ n \in Nat \ {0}
        /\ snaps[n] \in 1 .. hashes
        /\ n <= cursor.num => n <= Len(main) /\ Covered(n, snaps[n])

\* What was fetched of a block that is still on the chain is what the chain holds.
FetchInv ==
    \A n \in DOMAIN fetched :
        /\ n \in 1 .. Len(main)
        /\ fetched[n].state \in {"todo", "block", "done", "error"}
        /\ fetched[n].state \in {"block", "done"} =>
               /\ fetched[n].hash \in 1 .. hashes
               /\ main[n].hash = fetched[n].hash => fetched[n].parent = ParentOf(n)
        /\ fetched[n].state = "done" /\ main[n].hash = fetched[n].hash =>
               fetched[n].txs = main[n].txs

\* A deposit is in one block at most.
UniqueInv ==
    \A m, n \in 1 .. Len(main) : m # n => main[m].txs \cap main[n].txs = {}

\* Deposit t is in the block at height n.
In(t, n) == n \in 1 .. Len(main) /\ t \in main[n].txs

\* What a tick remembers of deposit t is where t is, and no less deep than it was.
DepthInv(t) ==
    /\ dep[t].status # "none" => In(t, dep[t].block)
    /\ \A n \in DOMAIN fetched :
          fetched[n].state = "done" => (t \in fetched[n].txs => In(t, n))
    /\ t \in pend \cup rec =>
          dep[t].status # "none" /\ dep[t].block + Confirmations <= head
    /\ t \in rec => seen = dep[t].block
    /\ dep[t].status = "confirmed" => dep[t].block + Confirmations <= Len(main)

\* A deposit no fork has touched is confirmed with Confirmations blocks on top of it.
BuriedInv ==
    /\ UniqueInv
    /\ pc = "tick" => pend = {} /\ rec = {}
    /\ \A t \in Deposits \ forked : DepthInv(t)

IInv ==
    /\ RecordInv /\ ChainInv /\ TickInv /\ CursorInv /\ SnapshotInv /\ FetchInv
    /\ EventPerConfirmed

=============================================================================
