----------------------------- MODULE AddrFilter -----------------------------
(***************************************************************************)
(* Deposit addresses and the scanner's filter over them: createAddress in  *)
(* the api processes (internal/api/api.go), the derivation index allocator *)
(* (internal/store/store.go), the push of a new address to the scanner     *)
(* (internal/bloom/http.go) and the filter itself, which is loaded at      *)
(* start, re-synced from user_wallet and rebuilt when it is overloaded     *)
(* (internal/bloom/registry.go).                                           *)
(*                                                                         *)
(* An address is the derivation index it was derived from, or one of       *)
(* Foreign that an operator wrote into a row.  The filter is the set of    *)
(* addresses added to it: it has no false negatives, and a false positive  *)
(* costs a database lookup.  Time appears only as the window of rows with  *)
(* updated_at >= syncedAt - updateSkew.  A row's updated_at is set before  *)
(* the INSERT and it becomes visible later; that takes less than           *)
(* updateSkew, and so does the load of a rebuild.                          *)
(***************************************************************************)
EXTENDS Integers, FiniteSets

CONSTANTS
    Requests,   \* createAddress requests
    Accounts,   \* merchant_id and uid
    NoAccount,
    Foreign,    \* addresses an operator may write into a row
    Expected,   \* expected_addresses, what the first filter is built for
    Batch,      \* load_batch
    MaxCapacity,\* bound: the capacity rebuild doubles
    MaxRows,    \* bound: ids of user_wallet
    MaxFaults   \* bound: crashes, failed statements and operator edits

ASSUME AccountAssumption == NoAccount \notin Accounts
ASSUME BatchAssumption == Batch \in Nat \ {0}
ASSUME CapacityAssumption == {Expected, MaxCapacity} \subseteq Nat
ASSUME BoundAssumption == {MaxRows, MaxFaults} \subseteq Nat
ASSUME ForeignAssumption == Foreign \subseteq Int /\ Foreign \cap Nat = {}

VARIABLES
    \* --- database
    next,      \* wallet_index_allocator.next_index, 0 while there is no row
    wallets,   \* wallets[i]: the user_wallet row with id i
    lastId,    \* AUTO_INCREMENT
    \* --- createAddress
    pc,        \* pc[q]: its next step
    account,   \* account[q]: the account it asks for
    index,     \* index[q]: the index it was given
    row,       \* row[q]: the row it inserted or was answered with
    \* --- the scanner's registry
    filter,    \* the addresses in the filter
    count,     \* Count of the filter, up to one more than its capacity
    capacity,  \* Capacity of the filter
    maxID,     \* the highest id it has paged to
    window,    \* the rows with updated_at >= syncedAt - updateSkew
    late,      \* the window that the running Sync will leave behind
    sync,      \* next step of RunSync, "down" while the scanner is not running
    cursor,    \* load's maxID
    loading,   \* the filter that load fills
    faults     \* faults spent, out of MaxFaults

database == <<next, wallets, lastId>>
requests == <<pc, account, index, row>>
registry == <<filter, count, capacity, maxID, window, late, sync, cursor, loading>>
vars == <<database, requests, registry, faults>>

Ids == 1 .. MaxRows
NoWallet == [state |-> "none", account |-> NoAccount, index |-> -1, address |-> -1]

\* Rows other transactions can read, and rows inserted and not yet committed.
Visible == {i \in Ids : wallets[i].state = "visible"}
Uncommitted == {i \in Ids : wallets[i].state = "inserted"}
Addresses(S) == {wallets[i].address : i \in S}

Init ==
    /\ next = 0
    /\ wallets = [i \in Ids |-> NoWallet]
    /\ lastId = 0
    /\ pc = [q \in Requests |-> "idle"]
    /\ account = [q \in Requests |-> NoAccount]
    /\ index = [q \in Requests |-> -1]
    /\ row = [q \in Requests |-> 0]
    /\ filter = {}
    /\ count = 0
    /\ capacity = Expected
    /\ maxID = 0
    /\ window = {}
    /\ late = {}
    /\ sync = "down"
    /\ cursor = 0
    /\ loading = {}
    /\ faults = 0

Fault == faults < MaxFaults /\ faults' = faults + 1

Goto(q, step) == pc' = [pc EXCEPT ![q] = step]

\* Add n addresses, S, to the filter: Count counts repeated ones too.
Add(S, n) ==
    /\ filter' = filter \cup S
    /\ count' = IF count + n > capacity THEN capacity + 1 ELSE count + n

-----------------------------------------------------------------------------
(* createAddress.                                                          *)

\* The checks of the request and the lookup of the account's row, whose address
\* is the answer if there is one.
CreateAddress(q) ==
    /\ pc[q] = "idle"
    /\ \E a \in Accounts :
         /\ account' = [account EXCEPT ![q] = a]
         /\ \/ \E i \in Visible :
                 /\ wallets[i].account = a
                 /\ row' = [row EXCEPT ![q] = i]
                 /\ Goto(q, "done")
            \/ /\ \A i \in Visible : wallets[i].account # a
               /\ Goto(q, "index")
               /\ UNCHANGED row
    /\ UNCHANGED <<database, index, registry, faults>>

\* NextAddressIndex: the row lock makes reading and advancing one step, unless
\* there is no row to lock yet.
NextAddressIndex(q) ==
    /\ pc[q] = "index"
    /\ \/ /\ next > 0
          /\ index' = [index EXCEPT ![q] = next]
          /\ next' = next + 1
          /\ Goto(q, "derive")
       \/ /\ next = 0
          /\ Goto(q, "create")
          /\ UNCHANGED <<next, index>>
    /\ UNCHANGED <<wallets, lastId, account, row, registry, faults>>

\* Mutant: the row another request has just created is taken for one's own.
CreateOrTake(q) ==
    /\ pc[q] = "create"
    /\ index' = [index EXCEPT ![q] = 0]
    /\ next' = 1
    /\ Goto(q, "derive")
    /\ UNCHANGED <<wallets, lastId, account, row, registry, faults>>

\* The first allocation inserts the row; the chain is its primary key, so the
\* request fails if another one has inserted it since.
CreateAllocator(q) ==
    /\ pc[q] = "create"
    /\ \/ /\ next = 0
          /\ index' = [index EXCEPT ![q] = 0]
          /\ next' = 1
          /\ Goto(q, "derive")
       \/ /\ next > 0
          /\ Goto(q, "failed")
          /\ UNCHANGED <<next, index>>
    /\ UNCHANGED <<wallets, lastId, account, row, registry, faults>>

\* The signer derives the address, or fails and the index is lost.
DeriveAddress(q) ==
    /\ pc[q] = "derive"
    /\ Goto(q, "insert") \/ Goto(q, "failed")
    /\ UNCHANGED <<database, account, index, row, registry, faults>>

\* Updated rows enter the window, and that of a running Sync as well.
Stamp(i) ==
    /\ window' = window \cup {i}
    /\ late' = IF sync \in {"down", "idle"} THEN late ELSE late \cup {i}

Inserted(q) == [state |-> "inserted", account |-> account[q], index |-> index[q],
                address |-> index[q]]

\* Mutant: account has no unique index.
InsertAny(q) ==
    /\ pc[q] = "insert"
    /\ lastId < MaxRows
    /\ lastId' = lastId + 1
    /\ wallets' = [wallets EXCEPT ![lastId'] = Inserted(q)]
    /\ Stamp(lastId')
    /\ row' = [row EXCEPT ![q] = lastId']
    /\ Goto(q, "commit")
    /\ UNCHANGED <<next, account, index, filter, count, capacity, maxID, sync, cursor,
                   loading, faults>>

\* Create(&wallet): the unique index on account makes it wait for an
\* uncommitted row of the same account and fail on a visible one, whose address
\* is then the answer.  A statement that fails otherwise fails the request.
Insert(q) ==
    LET Own == {i \in Visible \cup Uncommitted : wallets[i].account = account[q]} IN
    /\ pc[q] = "insert"
    /\ \/ /\ Own = {}
          /\ lastId < MaxRows
          /\ lastId' = lastId + 1
          /\ wallets' = [wallets EXCEPT ![lastId'] = Inserted(q)]
          /\ Stamp(lastId')
          /\ row' = [row EXCEPT ![q] = lastId']
          /\ Goto(q, "commit")
          /\ UNCHANGED faults
       \/ /\ \E i \in Own \cap Visible : row' = [row EXCEPT ![q] = i]
          /\ Goto(q, "done")
          /\ UNCHANGED <<wallets, lastId, window, late, faults>>
       \/ /\ Own = {}
          /\ Fault
          /\ Goto(q, "failed")
          /\ UNCHANGED <<wallets, lastId, window, late, row>>
    /\ UNCHANGED <<next, account, index, filter, count, capacity, maxID, sync, cursor,
                   loading>>

\* The INSERT commits; the address is answered and its push is on the way.
Commit(q) ==
    /\ pc[q] = "commit"
    /\ wallets' = [wallets EXCEPT ![row[q]].state = "visible"]
    /\ Goto(q, "notify")
    /\ UNCHANGED <<next, lastId, account, index, row, registry, faults>>

Running == sync \notin {"down", "init", "publish"}

\* The push reaches a running scanner or is lost, and its answer may be lost.
\* It is repeated once.
Notify(q) ==
    /\ pc[q] \in {"notify", "again"}
    /\ \/ /\ Running
          /\ Add({index[q]}, 1)
          /\ \/ Goto(q, "done")
             \/ pc[q] = "notify" /\ Goto(q, "again")
       \/ /\ Goto(q, IF pc[q] = "notify" THEN "again" ELSE "done")
          /\ UNCHANGED <<filter, count>>
    /\ UNCHANGED <<database, account, index, row, capacity, maxID, window, late, sync, cursor,
                   loading, faults>>

\* The api process dies: an INSERT that has not committed is rolled back, its id
\* is not used again, and a push is forgotten.
RequestCrash(q) ==
    /\ pc[q] \notin {"idle", "done", "failed"}
    /\ Fault
    /\ IF pc[q] = "commit" THEN wallets' = [wallets EXCEPT ![row[q]] = NoWallet]
       ELSE UNCHANGED wallets
    /\ Goto(q, "failed")
    /\ UNCHANGED <<next, lastId, account, index, row, registry>>

\* "a row edited by hand, an address re-assigned": an operator writes an
\* address into a row, and nobody pushes it.
Edit(i, x) ==
    /\ i \in Visible
    /\ x \notin Addresses(Visible \cup Uncommitted)
    /\ Fault
    /\ wallets' = [wallets EXCEPT ![i].address = x]
    /\ Stamp(i)
    /\ UNCHANGED <<next, lastId, requests, filter, count, capacity, maxID, sync, cursor,
                   loading>>

-----------------------------------------------------------------------------
(* The registry.                                                           *)

\* UserWalletAddressesAfter: the first Batch visible rows after an id.
IsPage(P, after) ==
    LET Later == {i \in Visible : i > after} IN
    /\ P \subseteq Later
    /\ \A i \in P, j \in Later : j < i => j \in P
    /\ Cardinality(P) = Batch \/ (P = Later /\ Cardinality(P) < Batch)

IsLast(m, P, after) == m \in P \cup {after} /\ \A i \in P \cup {after} : i <= m

\* Init: the window starts before the load does.
Start ==
    /\ sync = "down"
    /\ sync' = "init"
    /\ cursor' = 0
    /\ loading' = {}
    /\ late' = Uncommitted
    /\ UNCHANGED <<database, requests, filter, count, capacity, maxID, window, faults>>

\* Sync: a filter with more entries than it was built for is rebuilt.
Sync ==
    /\ sync = "idle"
    /\ late' = Uncommitted
    /\ sync' = IF count > capacity THEN "rebuild" ELSE "page"
    /\ UNCHANGED <<database, requests, filter, count, capacity, maxID, window, cursor,
                   loading, faults>>

\* One page of new rows, until one is not full.
SyncPage ==
    /\ sync = "page"
    /\ \E P \in SUBSET Visible :
         /\ IsPage(P, maxID)
         /\ Add(Addresses(P), Cardinality(P))
         /\ \E m \in Ids \cup {0} : IsLast(m, P, maxID) /\ maxID' = m
         /\ sync' = IF Cardinality(P) < Batch THEN "updated" ELSE "page"
    /\ UNCHANGED <<database, requests, capacity, window, late, cursor, loading, faults>>

\* Mutant: the next window starts where this Sync ends.
WindowNow == Uncommitted \ late

\* syncedAt = startedAt: what was updated since, or was not committed then.
Window == late

\* Mutant: less than a page of updates is left for the next Sync.
SyncFullOnly ==
    /\ sync = "updated"
    /\ \/ /\ Cardinality(Visible \cap window) >= Batch
          /\ sync' = "load"
          /\ UNCHANGED late
       \/ /\ Cardinality(Visible \cap window) < Batch
          /\ sync' = "idle"
          /\ late' = {}
    /\ UNCHANGED <<database, requests, filter, count, capacity, maxID, window, cursor,
                   loading, faults>>

\* syncUpdated: the rows of the window, or the whole table if they fill a page.
SyncUpdated ==
    /\ sync = "updated"
    /\ \/ /\ Cardinality(Visible \cap window) >= Batch
          /\ sync' = "load"
          /\ cursor' = 0
          /\ UNCHANGED <<filter, count, window, late>>
       \/ /\ Cardinality(Visible \cap window) < Batch
          /\ Add(Addresses(Visible \cap window), Cardinality(Visible \cap window))
          /\ window' = Window
          /\ late' = {}
          /\ sync' = "idle"
          /\ UNCHANGED cursor
    /\ UNCHANGED <<database, requests, capacity, maxID, loading, faults>>

\* load of syncUpdated, one page at a time, into the filter in use.
LoadAll ==
    /\ sync = "load"
    /\ \E P \in SUBSET Visible, m \in Ids \cup {0} :
         LET last == Cardinality(P) < Batch IN
         /\ IsPage(P, cursor)
         /\ IsLast(m, P, cursor)
         /\ Add(Addresses(P), Cardinality(P))
         /\ cursor' = IF last THEN 0 ELSE m
         /\ window' = IF last THEN Window ELSE window
         /\ late' = IF last THEN {} ELSE late
         /\ sync' = IF last THEN "idle" ELSE "load"
    /\ UNCHANGED <<database, requests, capacity, maxID, loading, faults>>

\* load of Init and of rebuild, into a new filter.
LoadNew ==
    /\ sync \in {"init", "rebuild"}
    /\ \E P \in SUBSET Visible, m \in Ids \cup {0} :
         /\ IsPage(P, cursor)
         /\ IsLast(m, P, cursor)
         /\ loading' = loading \cup Addresses(P)
         /\ cursor' = m
         /\ sync' = IF Cardinality(P) = Batch THEN sync
                    ELSE IF sync = "init" THEN "publish" ELSE "swap"
    /\ UNCHANGED <<database, requests, filter, count, capacity, maxID, window, late, faults>>

\* The new filter is put in place of the old one.  Every row of load adds an
\* address of its own.
Swap ==
    /\ sync \in {"publish", "swap"}
    /\ filter' = loading
    /\ capacity' = IF sync = "publish" THEN Expected
                   ELSE IF 2 * capacity > MaxCapacity THEN MaxCapacity ELSE 2 * capacity
    /\ count' = IF Cardinality(loading) > capacity' THEN capacity' + 1
                ELSE Cardinality(loading)
    /\ maxID' = cursor
    /\ window' = Window
    /\ sync' = "idle"
    /\ late' = {}
    /\ cursor' = 0
    /\ loading' = {}
    /\ UNCHANGED <<database, requests, faults>>

\* A query that fails ends the Sync; at start it ends the process.
SyncError ==
    /\ sync \in {"init", "page", "updated", "load", "rebuild"}
    /\ Fault
    /\ sync' = IF sync = "init" THEN "down" ELSE "idle"
    /\ late' = {}
    /\ cursor' = 0
    /\ loading' = {}
    /\ UNCHANGED <<database, requests, filter, count, capacity, maxID, window>>

ScannerCrash ==
    /\ Running
    /\ Fault
    /\ filter' = {}
    /\ count' = 0
    /\ capacity' = Expected
    /\ maxID' = 0
    /\ window' = {}
    /\ late' = {}
    /\ cursor' = 0
    /\ loading' = {}
    /\ sync' = "down"
    /\ UNCHANGED <<database, requests>>

-----------------------------------------------------------------------------
RequestStep(q) ==
    \/ CreateAddress(q) \/ NextAddressIndex(q) \/ CreateAllocator(q)
    \/ DeriveAddress(q) \/ Insert(q) \/ Commit(q) \/ Notify(q)

RegistryStep == Start \/ Sync \/ SyncPage \/ SyncUpdated \/ LoadAll \/ LoadNew \/ Swap

Next ==
    \/ \E q \in Requests : RequestStep(q) \/ RequestCrash(q)
    \/ \E i \in Ids, x \in Foreign : Edit(i, x)
    \/ RegistryStep \/ SyncError \/ ScannerCrash

Spec == Init /\ [][Next]_vars

\* The scanner is restarted when it dies, and RunSync ticks.  Nothing is assumed
\* of the requests.
Fairness == WF_vars(RegistryStep)

FairSpec == Spec /\ Fairness

-----------------------------------------------------------------------------
(* Properties.                                                             *)

Holding == {"derive", "insert", "commit", "notify", "again"}

\* Every variable holds values of its column or local variable.
TypeOK ==
    /\ next \in Nat
    /\ wallets \in [Ids -> [state : {"none", "inserted", "visible"},
                            account : Accounts \cup {NoAccount},
                            index : Int, address : Int]]
    /\ lastId \in 0 .. MaxRows
    /\ pc \in [Requests -> {"idle", "index", "create", "done", "failed"} \cup Holding]
    /\ account \in [Requests -> Accounts \cup {NoAccount}]
    /\ index \in [Requests -> Int]
    /\ row \in [Requests -> 0 .. MaxRows]
    /\ filter \subseteq Int
    /\ count \in Nat
    /\ capacity \in Nat
    /\ maxID \in 0 .. MaxRows
    /\ window \subseteq Ids
    /\ late \subseteq Ids
    /\ sync \in {"down", "init", "idle", "page", "updated", "load", "rebuild", "publish",
                "swap"}
    /\ cursor \in 0 .. MaxRows
    /\ loading \subseteq Int
    /\ faults \in Nat

\* "NextAddressIndex atomically reserves the next derivation index": no index
\* is given to two requests, the two that create the allocator row included, so
\* no two accounts get the same address.
IndexReservedOnce ==
    \A p, q \in Requests :
        pc[p] \in Holding /\ pc[q] \in Holding /\ index[p] = index[q] => p = q

\* "createAddress allocates one deposit address per (merchant_id, uid)": every
\* answer for an account names the same row, also when requests for it race.
OneRowPerAccount ==
    \A p, q \in Requests :
        pc[p] \in {"notify", "again", "done"} /\ pc[q] \in {"notify", "again", "done"}
            /\ account[p] = account[q] => row[p] = row[q]

\* "missing one means every deposit to it is ignored": an address the filter of a
\* running scanner does not have is one the next Sync will read, however ids and
\* commits are ordered and whatever the last Sync was doing meanwhile.
NothingOverlooked ==
    Running => \A i \in Visible :
        wallets[i].address \in filter \/ i > maxID \/ i \in window

\* "Giving up is safe": in the end the filter has every address and keeps it,
\* although pushes are lost and rebuilds go on.
FilterConverges == <>[](Running /\ Addresses(Visible) \subseteq filter)

\* "lookups never observe a partially filled filter": an address the filter of a
\* running scanner has is not taken out of it again.
NothingForgotten ==
    [][Running /\ sync' # "down" =>
           Addresses(Visible) \cap filter \subseteq filter']_vars

-----------------------------------------------------------------------------
(* The inductive invariant.                                                *)

Stored == Visible \cup Uncommitted

\* Rows are inserted in the order of their ids, one per account.
RowInv ==
    /\ \A i \in Stored : i <= lastId
    /\ \A i, j \in Stored : wallets[i].account = wallets[j].account => i = j

\* A request that inserts has a row of its own, one that has answered answered
\* with a row of its account.
RequestInv ==
    /\ \A q \in Requests :
         /\ pc[q] = "commit" => row[q] \in Uncommitted
         /\ pc[q] \in {"notify", "again", "done"} => row[q] \in Visible
         /\ pc[q] \in {"commit", "notify", "again", "done"} =>
                wallets[row[q]].account = account[q]
    /\ \A p, q \in Requests :
         pc[p] = "commit" /\ pc[q] = "commit" /\ row[p] = row[q] => p = q

\* Indexes that were handed out are below the next one.
IndexInv ==
    \A q \in Requests : pc[q] \in Holding => index[q] \in Nat /\ index[q] < next

\* A row that is still to be committed is in the windows to come.
WindowInv ==
    /\ Running => Uncommitted \subseteq window
    /\ sync \notin {"down", "idle"} => Uncommitted \subseteq late

\* What load has passed it has loaded, or the next Sync reads it again.
LoadInv ==
    /\ sync \in {"idle", "page", "updated"} => cursor = 0
    /\ IsFiniteSet(loading)
    /\ \A i \in Visible :
        /\ sync \in {"init", "publish", "rebuild", "swap"} =>
               i > cursor \/ wallets[i].address \in loading \/ i \in late
        /\ sync = "load" =>
               i > cursor \/ wallets[i].address \in filter \/ i \in late

\* What requests and registry remember agrees with the tables.
IInv ==
    /\ TypeOK
    /\ RowInv
    /\ RequestInv
    /\ IndexInv
    /\ IndexReservedOnce
    /\ WindowInv
    /\ LoadInv
    /\ NothingOverlooked

=============================================================================
