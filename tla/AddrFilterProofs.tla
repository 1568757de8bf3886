-------------------------- MODULE AddrFilterProofs --------------------------
(***************************************************************************)
(* TLAPS proofs about AddrFilter: the inductive invariant, and from it     *)
(* that no derivation index is given out twice, that an account has one    *)
(* address and that the filter overlooks no address, for every number of   *)
(* requests, accounts, rows and faults and every page size and capacity.   *)
(***************************************************************************)
EXTENDS AddrFilter, FiniteSetTheorems, TLAPS

Wallet ==
    [state : {"none", "inserted", "visible"}, account : Accounts \cup {NoAccount},
     index : Int, address : Int]

LEMMA IdFacts ==
  /\ \A i \in Ids : i \in Nat /\ i > 0
  /\ 0 .. MaxRows = Ids \cup {0}
  /\ IsFiniteSet(Ids)
<1>1. MaxRows \in Nat
  BY BoundAssumption
<1>2. IsFiniteSet(Ids)
  BY <1>1, FS_Interval DEF Ids
<1> QED
  BY <1>1, <1>2 DEF Ids

\* The two halves of the invariant: the tables with the requests, and the
\* tables with the registry.
TableInv == RowInv /\ RequestInv /\ IndexInv /\ IndexReservedOnce
RegistryInv == WindowInv /\ LoadInv /\ NothingOverlooked

LEMMA Halves ==
  /\ IInv <=> TypeOK /\ TableInv /\ RegistryInv
  /\ IInv' <=> TypeOK' /\ TableInv' /\ RegistryInv'
BY DEF IInv, TableInv, RegistryInv

LEMMA TableFrame ==
  ASSUME TableInv, UNCHANGED <<database, requests>>
  PROVE  TableInv'
BY DEF TableInv, database, requests, RowInv, RequestInv, IndexInv, IndexReservedOnce, Stored,
       Visible, Uncommitted

LEMMA RegistryFrame ==
  ASSUME RegistryInv, UNCHANGED <<wallets, registry>>
  PROVE  RegistryInv'
BY DEF RegistryInv, registry, WindowInv, LoadInv, NothingOverlooked, Running, Visible,
       Uncommitted

\* The parts of TypeOK.
DatabaseOK ==
    /\ next \in Nat
    /\ wallets \in [Ids -> Wallet]
    /\ lastId \in 0 .. MaxRows

RequestsOK ==
    /\ pc \in [Requests -> {"idle", "index", "create", "done", "failed"} \cup Holding]
    /\ account \in [Requests -> Accounts \cup {NoAccount}]
    /\ index \in [Requests -> Int]
    /\ row \in [Requests -> 0 .. MaxRows]

RegistryOK ==
    /\ filter \subseteq Int
    /\ count \in Nat
    /\ capacity \in Nat
    /\ maxID \in 0 .. MaxRows
    /\ window \subseteq Ids
    /\ late \subseteq Ids
    /\ sync \in {"down", "init", "idle", "page", "updated", "load", "rebuild", "publish",
                "swap"}
    /\ cursor \in 0 .. MaxRows
    /\ loading \subseteq Int

LEMMA TypeParts ==
  /\ TypeOK <=> DatabaseOK /\ RequestsOK /\ RegistryOK /\ faults \in Nat
  /\ TypeOK' <=> DatabaseOK' /\ RequestsOK' /\ RegistryOK' /\ faults' \in Nat
BY DEF TypeOK, DatabaseOK, RequestsOK, RegistryOK, Wallet

LEMMA TypeFrame ==
  /\ UNCHANGED database /\ DatabaseOK => DatabaseOK'
  /\ UNCHANGED requests /\ RequestsOK => RequestsOK'
  /\ UNCHANGED registry /\ RegistryOK => RegistryOK'
BY DEF database, requests, registry, DatabaseOK, RequestsOK, RegistryOK

LEMMA FaultType ==
  ASSUME faults \in Nat, Fault \/ UNCHANGED faults
  PROVE  faults' \in Nat
BY DEF Fault

LEMMA GotoType ==
  ASSUME RequestsOK, NEW q \in Requests,
         NEW s \in {"idle", "index", "create", "done", "failed"} \cup Holding, Goto(q, s)
  PROVE  /\ pc' \in [Requests -> {"idle", "index", "create", "done", "failed"} \cup Holding]
         /\ pc'[q] = s
         /\ \A p \in Requests : p # q => pc'[p] = pc[p]
BY DEF RequestsOK, Goto

LEMMA VisibleFacts ==
  ASSUME TypeOK
  PROVE  /\ Visible \subseteq Ids
         /\ Uncommitted \subseteq Ids
         /\ \A P \in SUBSET Visible :
              IsFiniteSet(P) /\ Cardinality(P) \in Nat /\ Addresses(P) \subseteq Int
                /\ IsFiniteSet(Addresses(P))
<1>1. Visible \subseteq Ids /\ Uncommitted \subseteq Ids
  BY DEF Visible, Uncommitted
<1>2. ASSUME NEW P \in SUBSET Visible
      PROVE  IsFiniteSet(P) /\ Cardinality(P) \in Nat /\ Addresses(P) \subseteq Int
               /\ IsFiniteSet(Addresses(P))
  <2>1. IsFiniteSet(P)
    BY <1>1, <1>2, IdFacts, FS_Subset
  <2>2. Cardinality(P) \in Nat
    BY <2>1, FS_CardinalityType
  <2>3. \A i \in P : wallets[i].address \in Int
    BY <1>1, <1>2 DEF TypeOK
  <2>4. Addresses(P) \subseteq Int
    BY <2>3 DEF Addresses
  <2>5. IsFiniteSet(Addresses(P))
    <3> DEFINE f == [i \in P |-> wallets[i].address]
    <3>1. f \in Surjection(P, Addresses(P))
      BY DEF Surjection, Addresses
    <3> HIDE DEF f
    <3> QED
      BY <2>1, <3>1, FS_Surjection
  <2> QED
    BY <2>1, <2>2, <2>4, <2>5
<1> QED
  BY <1>1, <1>2

LEMMA AddType ==
  ASSUME RegistryOK, NEW S \in SUBSET Int, NEW n \in Nat, Add(S, n)
  PROVE  filter' \subseteq Int /\ count' \in Nat /\ filter \subseteq filter' /\ S \subseteq filter'
BY DEF RegistryOK, Add

LEMMA InitIInv == Init => IInv
<1> SUFFICES ASSUME Init PROVE IInv
  OBVIOUS
<1>1. Visible = {} /\ Uncommitted = {}
  BY DEF Init, NoWallet, Visible, Uncommitted
<1>2. DatabaseOK /\ RequestsOK /\ RegistryOK /\ faults \in Nat
  <2>1. NoWallet \in Wallet
    BY DEF NoWallet, Wallet
  <2> QED
    BY <2>1, CapacityAssumption, BoundAssumption
       DEF Init, DatabaseOK, RequestsOK, RegistryOK
<1>3. TableInv
  BY <1>1 DEF Init, TableInv, RowInv, RequestInv, IndexInv, IndexReservedOnce, Stored, Holding
<1>4. RegistryInv
  BY <1>1, FS_EmptySet DEF Init, RegistryInv, WindowInv, LoadInv, NothingOverlooked, Running
<1> QED
  BY <1>2, <1>3, <1>4, TypeParts, Halves

-----------------------------------------------------------------------------
(* createAddress.                                                          *)

\* A step of a request that leaves the tables and the registry alone, and the
\* request neither committing nor answered.
LEMMA QuietKeeps ==
  ASSUME IInv, NEW q \in Requests, UNCHANGED <<database, registry, account, index, row>>,
         faults' \in Nat,
         NEW s \in {"idle", "index", "create", "done", "failed"} \cup Holding, Goto(q, s),
         s \in Holding => pc[q] \in Holding,
         s # "commit",
         s \in {"notify", "again", "done"} => pc[q] \in {"notify", "again", "done"}
  PROVE  IInv'
<1>1. TypeOK /\ TableInv /\ RegistryInv
  BY Halves
<1>2. DatabaseOK /\ RequestsOK /\ RegistryOK
  BY <1>1, TypeParts
<1>3. /\ pc' \in [Requests -> {"idle", "index", "create", "done", "failed"} \cup Holding]
      /\ pc'[q] = s
      /\ \A p \in Requests : p # q => pc'[p] = pc[p]
  BY <1>2, GotoType
<1>4. TypeOK'
  BY <1>2, <1>3, TypeParts, TypeFrame DEF RequestsOK
<1>5. RowInv'
  BY <1>1 DEF TableInv, RowInv, Stored, Visible, Uncommitted, database
<1>6. RequestInv'
  BY <1>1, <1>3 DEF TableInv, RequestInv, Visible, Uncommitted, database, Holding
<1>7. IndexInv' /\ IndexReservedOnce'
  BY <1>1, <1>3 DEF TableInv, IndexInv, IndexReservedOnce, database
<1>8. RegistryInv'
  BY <1>1, RegistryFrame DEF database
<1> QED
  BY <1>4, <1>5, <1>6, <1>7, <1>8, Halves DEF TableInv

LEMMA CreateAddressKeeps ==
  ASSUME IInv, NEW q \in Requests, CreateAddress(q)
  PROVE  IInv'
<1>1. TypeOK /\ TableInv /\ RegistryInv
  BY Halves
<1>2. DatabaseOK /\ RequestsOK /\ RegistryOK /\ faults' \in Nat
  BY <1>1, TypeParts DEF CreateAddress
<1>3. UNCHANGED <<database, registry, index>> /\ pc[q] = "idle"
  BY DEF CreateAddress
<1>4. PICK a \in Accounts :
        /\ account' = [account EXCEPT ![q] = a]
        /\ \/ \E i \in Visible :
                /\ wallets[i].account = a
                /\ row' = [row EXCEPT ![q] = i]
                /\ Goto(q, "done")
           \/ Goto(q, "index") /\ UNCHANGED row
  BY DEF CreateAddress
<1>5. PICK s \in {"done", "index"} : Goto(q, s)
  BY <1>4
<1>6. /\ pc' \in [Requests -> {"idle", "index", "create", "done", "failed"} \cup Holding]
      /\ pc'[q] = s
      /\ \A p \in Requests : p # q => pc'[p] = pc[p]
  BY <1>2, <1>5, GotoType
<1>7. row' \in [Requests -> 0 .. MaxRows]
  BY <1>2, <1>4, IdFacts DEF RequestsOK, Visible
<1>8. /\ \A p \in Requests : p # q => row'[p] = row[p] /\ account'[p] = account[p]
      /\ account'[q] = a
      /\ pc'[q] = "done" => row'[q] \in Visible /\ wallets[row'[q]].account = a
      /\ pc'[q] \notin Holding
  BY <1>2, <1>4, <1>6 DEF RequestsOK, Goto, Holding
<1>9. TypeOK'
  BY <1>2, <1>3, <1>4, <1>6, <1>7, TypeParts, TypeFrame DEF RequestsOK
<1>10. RowInv'
  BY <1>1, <1>3 DEF TableInv, RowInv, Stored, Visible, Uncommitted, database
<1>11. RequestInv'
  BY <1>1, <1>3, <1>6, <1>8 DEF TableInv, RequestInv, Visible, Uncommitted, database
<1>12. IndexInv' /\ IndexReservedOnce'
  BY <1>1, <1>3, <1>6, <1>8 DEF TableInv, IndexInv, IndexReservedOnce, database
<1>13. RegistryInv'
  BY <1>1, <1>3, RegistryFrame DEF database
<1> QED
  BY <1>9, <1>10, <1>11, <1>12, <1>13, Halves DEF TableInv

\* Handing out the next index, at the first or a later allocation.
LEMMA ReserveKeeps ==
  ASSUME IInv, NEW q \in Requests,
         UNCHANGED <<wallets, lastId, account, row, registry, faults>>,
         pc[q] \notin Holding, Goto(q, "derive"),
         index' = [index EXCEPT ![q] = next], next' = next + 1
  PROVE  IInv'
<1>1. TypeOK /\ TableInv /\ RegistryInv
  BY Halves
<1>2. DatabaseOK /\ RequestsOK /\ RegistryOK /\ faults \in Nat
  BY <1>1, TypeParts
<1>3. /\ pc' \in [Requests -> {"idle", "index", "create", "done", "failed"} \cup Holding]
      /\ pc'[q] = "derive"
      /\ \A p \in Requests : p # q => pc'[p] = pc[p]
  BY <1>2, GotoType DEF Holding
<1>4. /\ index' \in [Requests -> Int]
      /\ index'[q] = next /\ next \in Nat
      /\ \A p \in Requests : p # q => index'[p] = index[p]
  BY <1>2 DEF DatabaseOK, RequestsOK
<1>5. TypeOK'
  BY <1>2, <1>3, <1>4, TypeParts, TypeFrame DEF RequestsOK, DatabaseOK
<1>6. RowInv'
  BY <1>1 DEF TableInv, RowInv, Stored, Visible, Uncommitted
<1>7. RequestInv'
  BY <1>1, <1>3 DEF TableInv, RequestInv, Visible, Uncommitted
<1>8. \A p \in Requests : p # q /\ pc'[p] \in Holding => index'[p] \in Nat /\ index'[p] < next
  BY <1>1, <1>3, <1>4 DEF TableInv, IndexInv
<1>9. IndexInv'
  BY <1>3, <1>4, <1>8 DEF IndexInv
<1>10. IndexReservedOnce'
  BY <1>1, <1>3, <1>4, <1>8 DEF TableInv, IndexReservedOnce
<1>11. RegistryInv'
  BY <1>1, RegistryFrame
<1> QED
  BY <1>5, <1>6, <1>7, <1>9, <1>10, <1>11, Halves DEF TableInv

LEMMA NextAddressIndexKeeps ==
  ASSUME IInv, NEW q \in Requests, NextAddressIndex(q)
  PROVE  IInv'
<1>1. pc[q] = "index" /\ pc[q] \notin Holding /\ faults' \in Nat
  BY DEF NextAddressIndex, Holding, IInv, TypeOK
<1>2. CASE index' = [index EXCEPT ![q] = next] /\ next' = next + 1 /\ Goto(q, "derive")
  BY <1>1, <1>2, ReserveKeeps DEF NextAddressIndex
<1>3. CASE Goto(q, "create") /\ UNCHANGED <<next, index>>
  <2>1. UNCHANGED <<database, registry, account, index, row>>
    BY <1>3 DEF NextAddressIndex, database
  <2> QED
    BY <1>1, <1>3, <2>1, QuietKeeps DEF Holding
<1> QED
  BY <1>2, <1>3 DEF NextAddressIndex

LEMMA CreateAllocatorKeeps ==
  ASSUME IInv, NEW q \in Requests, CreateAllocator(q)
  PROVE  IInv'
<1>1. pc[q] = "create" /\ pc[q] \notin Holding /\ faults' \in Nat
  BY DEF CreateAllocator, Holding, IInv, TypeOK
<1>2. CASE next = 0 /\ index' = [index EXCEPT ![q] = 0] /\ next' = 1 /\ Goto(q, "derive")
  <2>1. index' = [index EXCEPT ![q] = next] /\ next' = next + 1
    BY <1>2
  <2> QED
    BY <1>1, <1>2, <2>1, ReserveKeeps DEF CreateAllocator
<1>3. CASE Goto(q, "failed") /\ UNCHANGED <<next, index>>
  <2>1. UNCHANGED <<database, registry, account, index, row>>
    BY <1>3 DEF CreateAllocator, database
  <2> QED
    BY <1>1, <1>3, <2>1, QuietKeeps DEF Holding
<1> QED
  BY <1>2, <1>3 DEF CreateAllocator

LEMMA DeriveAddressKeeps ==
  ASSUME IInv, NEW q \in Requests, DeriveAddress(q)
  PROVE  IInv'
<1>1. /\ UNCHANGED <<database, registry, account, index, row>>
      /\ pc[q] \in Holding
      /\ faults' \in Nat
  BY DEF DeriveAddress, Holding, IInv, TypeOK
<1>2. PICK s \in {"insert", "failed"} : Goto(q, s)
  BY DEF DeriveAddress
<1> QED
  BY <1>1, <1>2, QuietKeeps DEF Holding

\* Updated rows are in the windows afterwards.
LEMMA StampFacts ==
  ASSUME TypeOK, NEW i \in Ids, Stamp(i)
  PROVE  /\ window' \subseteq Ids /\ late' \subseteq Ids
         /\ window \subseteq window' /\ i \in window'
         /\ late \subseteq late'
         /\ sync \notin {"down", "idle"} => i \in late'
BY DEF TypeOK, Stamp

LEMMA InsertRowKeeps ==
  ASSUME IInv, NEW q \in Requests, pc[q] = "insert",
         {i \in Visible \cup Uncommitted : wallets[i].account = account[q]} = {},
         lastId < MaxRows, lastId' = lastId + 1,
         wallets' = [wallets EXCEPT ![lastId'] = Inserted(q)],
         Stamp(lastId'), row' = [row EXCEPT ![q] = lastId'], Goto(q, "commit"),
         UNCHANGED <<next, account, index, filter, count, capacity, maxID, sync, cursor,
                     loading, faults>>
  PROVE  IInv'
<1> DEFINE n == lastId + 1
<1>1. TypeOK /\ TableInv /\ RegistryInv
  BY Halves
<1>2. DatabaseOK /\ RequestsOK /\ RegistryOK /\ faults \in Nat
  BY <1>1, TypeParts
<1>3. n \in Ids /\ lastId \in Nat
  BY <1>2, BoundAssumption DEF DatabaseOK, Ids
<1>4. /\ pc' \in [Requests -> {"idle", "index", "create", "done", "failed"} \cup Holding]
      /\ pc'[q] = "commit"
      /\ \A p \in Requests : p # q => pc'[p] = pc[p]
  BY <1>2, GotoType DEF Holding
<1>5. Inserted(q) \in Wallet /\ Inserted(q).state = "inserted"
        /\ Inserted(q).account = account[q]
  BY <1>2 DEF RequestsOK, Inserted, Wallet
<1>6. /\ wallets' \in [Ids -> Wallet]
      /\ wallets'[n] = Inserted(q)
      /\ \A i \in Ids : i # n => wallets'[i] = wallets[i]
  <2>1. wallets \in [Ids -> Wallet]
    BY <1>2 DEF DatabaseOK
  <2> QED
    BY <1>3, <1>5, <2>1
<1>7. /\ row' \in [Requests -> 0 .. MaxRows]
      /\ row'[q] = n
      /\ \A p \in Requests : p # q => row'[p] = row[p]
  BY <1>2, <1>3, IdFacts DEF RequestsOK
<1>8. n \notin Visible /\ n \notin Uncommitted
  BY <1>1, <1>3 DEF TableInv, RowInv, Stored
<1>9. Visible' = Visible /\ Uncommitted' = Uncommitted \cup {n}
  <2>1. \A i \in Ids : i # n => wallets'[i].state = wallets[i].state
    BY <1>6
  <2>2. wallets'[n].state = "inserted"
    BY <1>5, <1>6
  <2> QED
    BY <1>3, <1>8, <2>1, <2>2 DEF Visible, Uncommitted
<1>10. Stamp(n)
  OBVIOUS
<1>11. /\ window' \subseteq Ids /\ late' \subseteq Ids
       /\ window \subseteq window' /\ n \in window'
       /\ late \subseteq late'
       /\ sync \notin {"down", "idle"} => n \in late'
  BY <1>1, <1>3, <1>10, StampFacts
<1> HIDE DEF n
<1>12. TypeOK'
  <2>1. DatabaseOK'
    BY <1>2, <1>3, <1>6, IdFacts DEF DatabaseOK, n
  <2>2. RequestsOK'
    BY <1>2, <1>4, <1>7 DEF RequestsOK
  <2>3. RegistryOK'
    BY <1>2, <1>11 DEF RegistryOK
  <2> QED
    BY <1>2, <2>1, <2>2, <2>3, TypeParts
<1>13. \A i \in Visible \cup Uncommitted :
         /\ i \in Ids /\ i # n
         /\ wallets'[i] = wallets[i]
         /\ wallets[i].account # account[q]
  BY <1>6, <1>8 DEF Visible, Uncommitted
<1>14. RowInv'
  <2>1. \A i \in Visible \cup Uncommitted : i <= lastId
    BY <1>1 DEF TableInv, RowInv, Stored
  <2>2. \A i \in Stored' : i <= lastId'
    BY <1>3, <1>9, <2>1, IdFacts DEF Stored, n, Visible, Uncommitted
  <2>3. \A i, j \in Stored' : wallets'[i].account = wallets'[j].account => i = j
    BY <1>1, <1>5, <1>6, <1>9, <1>13 DEF TableInv, RowInv, Stored
  <2> QED
    BY <2>2, <2>3 DEF RowInv
<1>15. RequestInv'
  BY <1>1, <1>4, <1>5, <1>6, <1>7, <1>9, <1>13 DEF TableInv, RequestInv
<1>16. IndexInv' /\ IndexReservedOnce'
  BY <1>1, <1>4 DEF TableInv, IndexInv, IndexReservedOnce, Holding
<1>17. WindowInv'
  BY <1>1, <1>9, <1>11 DEF RegistryInv, WindowInv, Running
<1>18. LoadInv' /\ NothingOverlooked'
  BY <1>1, <1>9, <1>11, <1>13 DEF RegistryInv, LoadInv, NothingOverlooked, Running
<1> QED
  BY <1>12, <1>14, <1>15, <1>16, <1>17, <1>18, Halves DEF TableInv, RegistryInv

LEMMA InsertKeeps ==
  ASSUME IInv, NEW q \in Requests, Insert(q)
  PROVE  IInv'
<1>1. pc[q] = "insert" /\ pc[q] \in Holding
  BY DEF Insert, Holding
<1>2. CASE Fault /\ Goto(q, "failed") /\ UNCHANGED <<wallets, lastId, window, late, row>>
  <2>1. UNCHANGED <<database, registry, account, index, row>>
    BY <1>2 DEF Insert, database, registry
  <2>2. faults' \in Nat
    BY <1>2, FaultType DEF IInv, TypeOK
  <2> QED
    BY <1>1, <1>2, <2>1, <2>2, QuietKeeps DEF Holding
<1>3. CASE /\ \E i \in Visible : wallets[i].account = account[q] /\ row' = [row EXCEPT ![q] = i]
           /\ Goto(q, "done")
           /\ UNCHANGED <<wallets, lastId, window, late, faults>>
  <2>1. TypeOK /\ TableInv /\ RegistryInv
    BY Halves
  <2>2. DatabaseOK /\ RequestsOK /\ RegistryOK /\ faults' \in Nat
    BY <1>3, <2>1, TypeParts
  <2>3. UNCHANGED <<database, registry, account, index>>
    BY <1>3 DEF Insert, database, registry
  <2>4. /\ pc' \in [Requests -> {"idle", "index", "create", "done", "failed"} \cup Holding]
        /\ pc'[q] = "done" /\ pc'[q] \notin Holding
        /\ \A p \in Requests : p # q => pc'[p] = pc[p]
    BY <1>3, <2>2, GotoType DEF Holding
  <2>5. PICK i \in Visible : wallets[i].account = account[q] /\ row' = [row EXCEPT ![q] = i]
    BY <1>3
  <2>6. /\ row' \in [Requests -> 0 .. MaxRows]
        /\ row'[q] = i
        /\ \A p \in Requests : p # q => row'[p] = row[p]
    BY <2>2, <2>5, IdFacts DEF RequestsOK, Visible
  <2>7. TypeOK'
    BY <2>2, <2>3, <2>4, <2>6, TypeParts, TypeFrame DEF RequestsOK
  <2>8. RowInv'
    BY <2>1, <2>3 DEF TableInv, RowInv, Stored, Visible, Uncommitted, database
  <2>9. RequestInv'
    BY <2>1, <2>3, <2>4, <2>5, <2>6 DEF TableInv, RequestInv, Visible, Uncommitted, database
  <2>10. IndexInv' /\ IndexReservedOnce'
    BY <2>1, <2>3, <2>4 DEF TableInv, IndexInv, IndexReservedOnce, database
  <2>11. RegistryInv'
    BY <2>1, <2>3, RegistryFrame DEF database
  <2> QED
    BY <2>7, <2>8, <2>9, <2>10, <2>11, Halves DEF TableInv
<1>4. CASE /\ {i \in Visible \cup Uncommitted : wallets[i].account = account[q]} = {}
           /\ lastId < MaxRows
           /\ lastId' = lastId + 1
           /\ wallets' = [wallets EXCEPT ![lastId'] = Inserted(q)]
           /\ Stamp(lastId')
           /\ row' = [row EXCEPT ![q] = lastId']
           /\ Goto(q, "commit")
           /\ UNCHANGED faults
  <2>1. UNCHANGED <<next, account, index, filter, count, capacity, maxID, sync, cursor,
                    loading, faults>>
    BY <1>4 DEF Insert
  <2> QED
    BY <1>1, <1>4, <2>1, InsertRowKeeps
<1> QED
  BY <1>2, <1>3, <1>4 DEF Insert

\* The row of a committing request is written: every other row stays.
LEMMA CommitRow ==
  ASSUME TypeOK, TableInv, NEW q \in Requests, pc[q] = "commit"
  PROVE  /\ row[q] \in Ids /\ row[q] \in Uncommitted /\ row[q] \notin Visible
         /\ wallets[row[q]] \in Wallet
         /\ wallets[row[q]].account = account[q]
         /\ \A p \in Requests : p # q /\ pc[p] = "commit" => row[p] # row[q]
BY DEF TypeOK, TableInv, RequestInv, Visible, Uncommitted, Wallet

LEMMA CommitKeeps ==
  ASSUME IInv, NEW q \in Requests, Commit(q)
  PROVE  IInv'
<1> DEFINE n == row[q]
<1>1. TypeOK /\ TableInv /\ RegistryInv
  BY Halves
<1>2. DatabaseOK /\ RequestsOK /\ RegistryOK /\ faults' \in Nat
  BY <1>1, TypeParts DEF Commit
<1>3. /\ pc[q] = "commit"
      /\ wallets' = [wallets EXCEPT ![n].state = "visible"]
      /\ Goto(q, "notify")
      /\ UNCHANGED <<next, lastId, account, index, row, registry>>
  BY DEF Commit
<1>4. /\ n \in Ids /\ n \in Uncommitted /\ n \notin Visible
      /\ wallets[n] \in Wallet
      /\ wallets[n].account = account[q]
      /\ \A p \in Requests : p # q /\ pc[p] = "commit" => row[p] # n
  BY <1>1, <1>3, CommitRow
<1> HIDE DEF n
<1>5. /\ pc' \in [Requests -> {"idle", "index", "create", "done", "failed"} \cup Holding]
      /\ pc'[q] = "notify"
      /\ \A p \in Requests : p # q => pc'[p] = pc[p]
  BY <1>2, <1>3, GotoType DEF Holding
<1>6. /\ wallets' \in [Ids -> Wallet]
      /\ wallets'[n].state = "visible"
      /\ wallets'[n].account = wallets[n].account
      /\ wallets'[n].address = wallets[n].address
      /\ \A i \in Ids : i # n => wallets'[i] = wallets[i]
  <2> DEFINE w == [wallets[n] EXCEPT !.state = "visible"]
  <2>1. /\ w \in Wallet /\ w.state = "visible"
        /\ w.account = wallets[n].account /\ w.address = wallets[n].address
    BY <1>4 DEF Wallet
  <2>2. wallets \in [Ids -> Wallet]
    BY <1>2 DEF DatabaseOK
  <2>3. wallets' = [wallets EXCEPT ![n] = w]
    BY <1>3
  <2> HIDE DEF w
  <2> QED
    BY <1>4, <2>1, <2>2, <2>3
<1>7. Visible' = Visible \cup {n} /\ Uncommitted' = Uncommitted \ {n}
  BY <1>4, <1>6 DEF Visible, Uncommitted
<1>8. \A i \in Ids : /\ wallets'[i].account = wallets[i].account
                     /\ wallets'[i].address = wallets[i].address
  BY <1>6
<1>9. Visible \subseteq Ids /\ Uncommitted \subseteq Ids
  BY DEF Visible, Uncommitted
<1>10. TypeOK'
  <2>1. DatabaseOK' /\ RequestsOK'
    BY <1>2, <1>3, <1>5, <1>6 DEF DatabaseOK, RequestsOK
  <2> QED
    BY <1>2, <1>3, <2>1, TypeParts, TypeFrame
<1>11. RowInv'
  BY <1>1, <1>3, <1>4, <1>7, <1>8, <1>9 DEF TableInv, RowInv, Stored
<1>12. RequestInv'
  <2>1. ASSUME NEW p \in Requests
        PROVE  /\ pc'[p] = "commit" => row'[p] \in Uncommitted'
               /\ pc'[p] \in {"notify", "again", "done"} => row'[p] \in Visible'
               /\ pc'[p] \in {"commit", "notify", "again", "done"} =>
                      wallets'[row'[p]].account = account'[p]
    <3>1. CASE p = q
      BY <1>3, <1>4, <1>5, <1>6, <1>7, <3>1 DEF n
    <3>2. CASE p # q
      BY <1>1, <1>3, <1>4, <1>5, <1>7, <1>8, <1>9, <3>2 DEF TableInv, RequestInv
    <3> QED
      BY <3>1, <3>2
  <2>2. \A p, r \in Requests :
           pc'[p] = "commit" /\ pc'[r] = "commit" /\ row'[p] = row'[r] => p = r
    BY <1>1, <1>3, <1>5 DEF TableInv, RequestInv
  <2> QED
    BY <2>1, <2>2 DEF RequestInv
<1>13. IndexInv' /\ IndexReservedOnce'
  BY <1>1, <1>3, <1>5 DEF TableInv, IndexInv, IndexReservedOnce, Holding
<1>14. WindowInv'
  BY <1>1, <1>3, <1>7 DEF RegistryInv, WindowInv, Running, registry
<1>15. LoadInv'
  BY <1>1, <1>3, <1>4, <1>7, <1>8, <1>9 DEF RegistryInv, LoadInv, WindowInv, registry
<1>16. NothingOverlooked'
  BY <1>1, <1>3, <1>4, <1>7, <1>8, <1>9
     DEF RegistryInv, NothingOverlooked, WindowInv, registry, Running
<1> QED
  BY <1>10, <1>11, <1>12, <1>13, <1>14, <1>15, <1>16, Halves DEF TableInv, RegistryInv

LEMMA RequestCrashKeeps ==
  ASSUME IInv, NEW q \in Requests, RequestCrash(q)
  PROVE  IInv'
<1> DEFINE n == row[q]
<1>1. TypeOK /\ TableInv /\ RegistryInv
  BY Halves
<1>2. DatabaseOK /\ RequestsOK /\ RegistryOK
  BY <1>1, TypeParts
<1>3. faults' \in Nat
  BY <1>1, FaultType DEF RequestCrash, TypeOK
<1>4. UNCHANGED <<next, lastId, account, index, row, registry>> /\ Goto(q, "failed")
  BY DEF RequestCrash
<1>5. CASE pc[q] # "commit"
  <2>1. UNCHANGED <<database, registry, account, index, row>>
    BY <1>4, <1>5 DEF RequestCrash, database
  <2> QED
    BY <1>3, <1>4, <2>1, QuietKeeps DEF Holding
<1>6. CASE pc[q] = "commit"
  <2>1. wallets' = [wallets EXCEPT ![n] = NoWallet]
    BY <1>6 DEF RequestCrash
  <2>2. /\ n \in Ids /\ n \in Uncommitted /\ n \notin Visible
        /\ \A p \in Requests : p # q /\ pc[p] = "commit" => row[p] # n
    BY <1>1, <1>6, CommitRow
  <2> HIDE DEF n
  <2>3. NoWallet \in Wallet /\ NoWallet.state = "none"
    BY DEF NoWallet, Wallet
  <2>4. /\ pc' \in [Requests -> {"idle", "index", "create", "done", "failed"} \cup Holding]
        /\ pc'[q] = "failed" /\ pc'[q] \notin Holding
        /\ \A p \in Requests : p # q => pc'[p] = pc[p]
    BY <1>2, <1>4, GotoType DEF Holding
  <2>5. /\ wallets' \in [Ids -> Wallet]
        /\ wallets'[n] = NoWallet
        /\ \A i \in Ids : i # n => wallets'[i] = wallets[i]
    BY <1>2, <2>1, <2>2, <2>3 DEF DatabaseOK
  <2>6. Visible' = Visible /\ Uncommitted' = Uncommitted \ {n}
    BY <2>2, <2>3, <2>5 DEF Visible, Uncommitted
  <2>7. \A i \in Visible' \cup Uncommitted' : i \in Ids /\ wallets'[i] = wallets[i]
    BY <2>2, <2>5, <2>6 DEF Visible, Uncommitted
  <2>8. TypeOK'
    <3>1. DatabaseOK' /\ RequestsOK'
      BY <1>2, <1>4, <2>4, <2>5 DEF DatabaseOK, RequestsOK
    <3> QED
      BY <1>2, <1>3, <1>4, <3>1, TypeParts, TypeFrame
  <2>9. RowInv'
    BY <1>1, <1>4, <2>6, <2>7 DEF TableInv, RowInv, Stored
  <2>10. RequestInv'
    BY <1>1, <1>4, <2>2, <2>4, <2>6, <2>7 DEF TableInv, RequestInv
  <2>11. IndexInv' /\ IndexReservedOnce'
    BY <1>1, <1>4, <2>4 DEF TableInv, IndexInv, IndexReservedOnce
  <2>12. WindowInv'
    BY <1>1, <1>4, <2>6 DEF RegistryInv, WindowInv, Running, registry
  <2>13. LoadInv' /\ NothingOverlooked'
    BY <1>1, <1>4, <2>6, <2>7 DEF RegistryInv, LoadInv, NothingOverlooked, registry, Running
  <2> QED
    BY <2>8, <2>9, <2>10, <2>11, <2>12, <2>13, Halves DEF TableInv, RegistryInv
<1> QED
  BY <1>5, <1>6

\* The filter of a running scanner grows, outside of Sync.
LEMMA NotifyKeeps ==
  ASSUME IInv, NEW q \in Requests, Notify(q)
  PROVE  IInv'
<1>1. TypeOK /\ TableInv /\ RegistryInv
  BY Halves
<1>2. DatabaseOK /\ RequestsOK /\ RegistryOK /\ faults' \in Nat
  BY <1>1, TypeParts DEF Notify
<1>3. /\ UNCHANGED <<database, account, index, row>>
      /\ UNCHANGED <<capacity, maxID, window, late, sync, cursor, loading>>
      /\ pc[q] \in {"notify", "again"}
  BY DEF Notify
<1>4. PICK s \in {"done", "again"} : Goto(q, s)
  BY DEF Notify
<1>5. /\ pc' \in [Requests -> {"idle", "index", "create", "done", "failed"} \cup Holding]
      /\ pc'[q] = s
      /\ \A p \in Requests : p # q => pc'[p] = pc[p]
  BY <1>2, <1>4, GotoType DEF Holding
<1>6. filter' \subseteq Int /\ count' \in Nat /\ filter \subseteq filter'
  <2>1. CASE Add({index[q]}, 1)
    <3>1. {index[q]} \in SUBSET Int
      BY <1>2 DEF RequestsOK
    <3> QED
      BY <1>2, <2>1, <3>1, AddType
  <2>2. CASE UNCHANGED <<filter, count>>
    BY <1>2, <2>2 DEF RegistryOK
  <2> QED
    BY <2>1, <2>2 DEF Notify
<1>7. TypeOK'
  <2>1. RequestsOK' /\ RegistryOK'
    BY <1>2, <1>3, <1>5, <1>6 DEF RequestsOK, RegistryOK
  <2> QED
    BY <1>2, <1>3, <2>1, TypeParts, TypeFrame
<1>8. RowInv'
  BY <1>1, <1>3 DEF TableInv, RowInv, Stored, Visible, Uncommitted, database
<1>9. RequestInv'
  BY <1>1, <1>3, <1>5 DEF TableInv, RequestInv, Visible, Uncommitted, database
<1>10. IndexInv' /\ IndexReservedOnce'
  BY <1>1, <1>3, <1>5 DEF TableInv, IndexInv, IndexReservedOnce, database, Holding
<1>11. WindowInv' /\ LoadInv' /\ NothingOverlooked'
  BY <1>1, <1>3, <1>6 DEF RegistryInv, WindowInv, LoadInv, NothingOverlooked, Running,
                          Visible, Uncommitted, database
<1> QED
  BY <1>7, <1>8, <1>9, <1>10, <1>11, Halves DEF TableInv, RegistryInv

LEMMA EditKeeps ==
  ASSUME IInv, NEW n \in Ids, NEW x \in Foreign, Edit(n, x)
  PROVE  IInv'
<1>1. TypeOK /\ TableInv /\ RegistryInv
  BY Halves
<1>2. DatabaseOK /\ RequestsOK /\ RegistryOK
  BY <1>1, TypeParts
<1>3. faults' \in Nat
  BY <1>1, FaultType DEF Edit, TypeOK
<1>4. /\ n \in Visible
      /\ wallets' = [wallets EXCEPT ![n].address = x]
      /\ UNCHANGED <<next, lastId, requests, filter, count, capacity, maxID, sync, cursor,
                     loading>>
  BY DEF Edit
<1>5. /\ window' \subseteq Ids /\ late' \subseteq Ids
      /\ window \subseteq window' /\ n \in window'
      /\ late \subseteq late'
      /\ sync \notin {"down", "idle"} => n \in late'
  BY <1>1, StampFacts DEF Edit
<1>6. /\ wallets' \in [Ids -> Wallet]
      /\ wallets'[n].state = wallets[n].state
      /\ wallets'[n].account = wallets[n].account
      /\ \A i \in Ids : i # n => wallets'[i] = wallets[i]
  <2> DEFINE w == [wallets[n] EXCEPT !.address = x]
  <2>1. wallets \in [Ids -> Wallet] /\ wallets[n] \in Wallet /\ x \in Int
    BY <1>2, ForeignAssumption DEF DatabaseOK
  <2>2. w \in Wallet /\ w.state = wallets[n].state /\ w.account = wallets[n].account
    BY <2>1 DEF Wallet
  <2>3. wallets' = [wallets EXCEPT ![n] = w]
    BY <1>4
  <2> HIDE DEF w
  <2> QED
    BY <2>1, <2>2, <2>3
<1>7. Visible' = Visible /\ Uncommitted' = Uncommitted
  BY <1>6 DEF Visible, Uncommitted
<1>8. Visible \subseteq Ids /\ Uncommitted \subseteq Ids
  BY DEF Visible, Uncommitted
<1>9. TypeOK'
  <2>1. DatabaseOK' /\ RegistryOK'
    BY <1>2, <1>4, <1>5, <1>6 DEF DatabaseOK, RegistryOK
  <2> QED
    BY <1>2, <1>3, <1>4, <2>1, TypeParts, TypeFrame
<1>10. RowInv'
  BY <1>1, <1>4, <1>6, <1>7, <1>8 DEF TableInv, RowInv, Stored
<1>11. RequestInv' /\ IndexInv' /\ IndexReservedOnce'
  BY <1>1, <1>4, <1>6, <1>7, <1>8
     DEF TableInv, RequestInv, IndexInv, IndexReservedOnce, requests
<1>12. WindowInv'
  BY <1>1, <1>4, <1>5, <1>7 DEF RegistryInv, WindowInv, Running
<1>13. LoadInv' /\ NothingOverlooked'
  BY <1>1, <1>4, <1>5, <1>6, <1>7, <1>8
     DEF RegistryInv, LoadInv, NothingOverlooked, Running
<1> QED
  BY <1>9, <1>10, <1>11, <1>12, <1>13, Halves DEF TableInv, RegistryInv

-----------------------------------------------------------------------------
(* The registry.                                                           *)

\* A step of the registry: only its own half of the invariant is at stake.
LEMMA RegistryStepKeeps ==
  ASSUME IInv, UNCHANGED <<database, requests>>, faults' \in Nat, RegistryOK', RegistryInv'
  PROVE  IInv'
BY Halves, TypeParts, TypeFrame, TableFrame

\* A page after an id brings every row up to its last one.
LEMMA PageFacts ==
  ASSUME TypeOK, NEW P \in SUBSET Visible, NEW after \in 0 .. MaxRows, IsPage(P, after)
  PROVE  /\ Cardinality(P) < Batch => \A i \in Visible : i > after => i \in P
         /\ Cardinality(P) # Batch => \A i \in Visible : i > after => i \in P
         /\ \A m \in Ids \cup {0} : IsLast(m, P, after) =>
              \A i \in Visible : i > after => i \in P \/ i > m
<1>1. Cardinality(P) \in Nat /\ Batch \in Nat /\ Visible \subseteq Ids
  BY VisibleFacts, BatchAssumption
<1>2. Cardinality(P) # Batch => P = {i \in Visible : i > after}
  BY DEF IsPage
<1>3. Cardinality(P) < Batch => Cardinality(P) # Batch
  BY <1>1
<1>4. ASSUME NEW m \in Ids \cup {0}, IsLast(m, P, after), NEW i \in Visible, i > after, ~(i > m)
      PROVE  i \in P
  <2>1. i \in Nat /\ m \in Nat /\ after \in Nat
    BY <1>1, <1>4, IdFacts
  <2>2. m # after
    BY <1>4, <2>1
  <2>3. m \in P
    BY <1>4, <2>2 DEF IsLast
  <2>4. m \in {j \in Visible : j > after} /\ i \in {j \in Visible : j > after}
    BY <1>4, <2>3 DEF IsPage
  <2>5. i < m => i \in P
    BY <2>3, <2>4 DEF IsPage
  <2>6. i = m \/ i < m
    BY <1>4, <2>1
  <2> QED
    BY <2>3, <2>5, <2>6
<1> QED
  BY <1>2, <1>3, <1>4

LEMMA StartKeeps ==
  ASSUME IInv, Start
  PROVE  IInv'
<1>1. TypeOK /\ RegistryInv /\ RegistryOK /\ faults' \in Nat
  BY Halves, TypeParts DEF Start
<1>2. Visible' = Visible /\ Uncommitted' = Uncommitted /\ UNCHANGED <<database, requests>>
        /\ wallets' = wallets
  BY DEF Start, database, Visible, Uncommitted
<1>3. RegistryOK'
  BY <1>1, VisibleFacts, IdFacts DEF Start, RegistryOK
<1>4. WindowInv' /\ NothingOverlooked'
  BY <1>2 DEF Start, WindowInv, NothingOverlooked, Running
<1>5. LoadInv'
  BY <1>2, IdFacts, FS_EmptySet DEF Start, LoadInv, Visible
<1> QED
  BY <1>1, <1>2, <1>3, <1>4, <1>5, RegistryStepKeeps DEF RegistryInv

LEMMA SyncKeeps ==
  ASSUME IInv, Sync
  PROVE  IInv'
<1>1. TypeOK /\ RegistryInv /\ RegistryOK /\ faults' \in Nat
  BY Halves, TypeParts DEF Sync
<1>2. Visible' = Visible /\ Uncommitted' = Uncommitted /\ UNCHANGED <<database, requests>>
        /\ wallets' = wallets
  BY DEF Sync, database, Visible, Uncommitted
<1>3. sync' \in {"rebuild", "page"} /\ sync = "idle"
  BY DEF Sync
<1>4. RegistryOK'
  BY <1>1, <1>3, VisibleFacts DEF Sync, RegistryOK
<1>5. WindowInv' /\ NothingOverlooked'
  BY <1>1, <1>2, <1>3 DEF Sync, RegistryInv, WindowInv, NothingOverlooked, Running
<1>6. LoadInv'
  BY <1>1, <1>2, <1>3, IdFacts DEF Sync, RegistryInv, LoadInv, Visible
<1> QED
  BY <1>1, <1>2, <1>4, <1>5, <1>6, RegistryStepKeeps DEF RegistryInv

LEMMA SyncPageKeeps ==
  ASSUME IInv, SyncPage
  PROVE  IInv'
<1>1. TypeOK /\ RegistryInv /\ RegistryOK /\ faults' \in Nat
  BY Halves, TypeParts DEF SyncPage
<1>2. /\ Visible' = Visible /\ Uncommitted' = Uncommitted /\ wallets' = wallets
      /\ UNCHANGED <<database, requests, capacity, window, late, cursor, loading>>
  BY DEF SyncPage, database, Visible, Uncommitted
<1>3. PICK P \in SUBSET Visible :
        /\ IsPage(P, maxID)
        /\ Add(Addresses(P), Cardinality(P))
        /\ \E m \in Ids \cup {0} : IsLast(m, P, maxID) /\ maxID' = m
        /\ sync' = IF Cardinality(P) < Batch THEN "updated" ELSE "page"
  BY DEF SyncPage
<1>4. sync = "page" /\ sync' \in {"updated", "page"}
  BY <1>3 DEF SyncPage
<1>5. Addresses(P) \subseteq Int /\ Cardinality(P) \in Nat
  BY <1>1, <1>3, VisibleFacts
<1>6. /\ filter' \subseteq Int /\ count' \in Nat
      /\ filter \subseteq filter' /\ Addresses(P) \subseteq filter'
  BY <1>1, <1>3, <1>5, AddType
<1>7. RegistryOK'
  BY <1>1, <1>2, <1>3, <1>4, <1>6, IdFacts DEF RegistryOK
<1>8. WindowInv' /\ LoadInv'
  BY <1>1, <1>2, <1>4 DEF RegistryInv, WindowInv, LoadInv, Running
<1>9. \A i \in Visible : i > maxID => wallets[i].address \in filter' \/ i > maxID'
  BY <1>1, <1>3, <1>6, PageFacts DEF RegistryOK, Addresses
<1>10. NothingOverlooked'
  BY <1>1, <1>2, <1>4, <1>6, <1>9 DEF RegistryInv, NothingOverlooked, Running
<1> QED
  BY <1>1, <1>2, <1>7, <1>8, <1>10, RegistryStepKeeps DEF RegistryInv

LEMMA SyncUpdatedKeeps ==
  ASSUME IInv, SyncUpdated
  PROVE  IInv'
<1>1. TypeOK /\ RegistryInv /\ RegistryOK /\ faults' \in Nat
  BY Halves, TypeParts DEF SyncUpdated
<1>2. /\ Visible' = Visible /\ Uncommitted' = Uncommitted /\ wallets' = wallets
      /\ UNCHANGED <<database, requests, capacity, maxID, loading>>
      /\ sync = "updated"
  BY DEF SyncUpdated, database, Visible, Uncommitted
<1>3. CASE sync' = "load" /\ cursor' = 0 /\ UNCHANGED <<filter, count, window, late>>
  <2>1. RegistryOK'
    BY <1>1, <1>2, <1>3, IdFacts DEF RegistryOK
  <2>2. WindowInv' /\ NothingOverlooked'
    BY <1>1, <1>2, <1>3 DEF RegistryInv, WindowInv, NothingOverlooked, Running
  <2>3. LoadInv'
    BY <1>1, <1>2, <1>3, IdFacts DEF RegistryInv, LoadInv, Visible
  <2> QED
    BY <1>1, <1>2, <2>1, <2>2, <2>3, RegistryStepKeeps DEF RegistryInv
<1>4. CASE /\ Add(Addresses(Visible \cap window), Cardinality(Visible \cap window))
           /\ window' = Window /\ late' = {} /\ sync' = "idle" /\ UNCHANGED cursor
  <2> DEFINE P == Visible \cap window
  <2>1. P \in SUBSET Visible
    OBVIOUS
  <2>2. Addresses(P) \subseteq Int /\ Cardinality(P) \in Nat
    BY <1>1, <2>1, VisibleFacts
  <2>3. /\ filter' \subseteq Int /\ count' \in Nat
        /\ filter \subseteq filter' /\ Addresses(P) \subseteq filter'
    BY <1>1, <1>4, <2>2, AddType
  <2>4. RegistryOK'
    BY <1>1, <1>2, <1>4, <2>3 DEF RegistryOK, Window
  <2>5. WindowInv' /\ LoadInv'
    BY <1>1, <1>2, <1>4 DEF RegistryInv, WindowInv, LoadInv, Running, Window
  <2>6. \A i \in Visible : i \in window => wallets[i].address \in filter'
    BY <2>3 DEF Addresses
  <2>7. NothingOverlooked'
    BY <1>1, <1>2, <1>4, <2>3, <2>6 DEF RegistryInv, NothingOverlooked, Running
  <2> QED
    BY <1>1, <1>2, <2>4, <2>5, <2>7, RegistryStepKeeps DEF RegistryInv
<1> QED
  BY <1>3, <1>4 DEF SyncUpdated

LEMMA LoadAllKeeps ==
  ASSUME IInv, LoadAll
  PROVE  IInv'
<1>1. TypeOK /\ RegistryInv /\ RegistryOK /\ faults' \in Nat
  BY Halves, TypeParts DEF LoadAll
<1>2. /\ Visible' = Visible /\ Uncommitted' = Uncommitted /\ wallets' = wallets
      /\ UNCHANGED <<database, requests, capacity, maxID, loading>>
      /\ sync = "load"
  BY DEF LoadAll, database, Visible, Uncommitted
<1>3. PICK P \in SUBSET Visible, m \in Ids \cup {0} :
        /\ IsPage(P, cursor)
        /\ IsLast(m, P, cursor)
        /\ Add(Addresses(P), Cardinality(P))
        /\ cursor' = IF Cardinality(P) < Batch THEN 0 ELSE m
        /\ window' = IF Cardinality(P) < Batch THEN Window ELSE window
        /\ late' = IF Cardinality(P) < Batch THEN {} ELSE late
        /\ sync' = IF Cardinality(P) < Batch THEN "idle" ELSE "load"
  BY DEF LoadAll
<1>4. Addresses(P) \subseteq Int /\ Cardinality(P) \in Nat
  BY <1>1, <1>3, VisibleFacts
<1>5. /\ filter' \subseteq Int /\ count' \in Nat
      /\ filter \subseteq filter' /\ Addresses(P) \subseteq filter'
  BY <1>1, <1>3, <1>4, AddType
<1>6. \A i \in Visible : i > cursor /\ (Cardinality(P) < Batch \/ ~(i > m)) =>
         wallets[i].address \in filter'
  BY <1>1, <1>3, <1>5, PageFacts DEF RegistryOK, Addresses
<1>7. \A i \in Visible : i > cursor \/ wallets[i].address \in filter \/ i \in late
  BY <1>1, <1>2 DEF RegistryInv, LoadInv
<1>8. CASE Cardinality(P) < Batch
  <2>1. cursor' = 0 /\ window' = late /\ late' = {} /\ sync' = "idle"
    BY <1>3, <1>8 DEF Window
  <2>2. RegistryOK'
    BY <1>1, <1>2, <1>5, <2>1, IdFacts DEF RegistryOK
  <2>3. WindowInv' /\ LoadInv'
    BY <1>1, <1>2, <2>1 DEF RegistryInv, WindowInv, LoadInv, Running
  <2>4. NothingOverlooked'
    BY <1>2, <1>5, <1>6, <1>7, <1>8, <2>1 DEF NothingOverlooked
  <2> QED
    BY <1>1, <1>2, <2>2, <2>3, <2>4, RegistryStepKeeps DEF RegistryInv
<1>9. CASE ~(Cardinality(P) < Batch)
  <2>1. cursor' = m /\ window' = window /\ late' = late /\ sync' = "load"
    BY <1>3, <1>9
  <2>2. RegistryOK'
    BY <1>1, <1>2, <1>3, <1>5, <2>1, IdFacts DEF RegistryOK
  <2>3. WindowInv' /\ NothingOverlooked'
    BY <1>1, <1>2, <1>5, <2>1 DEF RegistryInv, WindowInv, NothingOverlooked, Running
  <2>4. LoadInv'
    BY <1>1, <1>2, <1>5, <1>6, <1>7, <2>1 DEF RegistryInv, LoadInv
  <2> QED
    BY <1>1, <1>2, <2>2, <2>3, <2>4, RegistryStepKeeps DEF RegistryInv
<1> QED
  BY <1>8, <1>9

LEMMA LoadNewKeeps ==
  ASSUME IInv, LoadNew
  PROVE  IInv'
<1>1. TypeOK /\ RegistryInv /\ RegistryOK /\ faults' \in Nat
  BY Halves, TypeParts DEF LoadNew
<1>2. /\ Visible' = Visible /\ Uncommitted' = Uncommitted /\ wallets' = wallets
      /\ UNCHANGED <<database, requests, filter, count, capacity, maxID, window, late>>
      /\ sync \in {"init", "rebuild"}
  BY DEF LoadNew, database, Visible, Uncommitted
<1>3. PICK P \in SUBSET Visible, m \in Ids \cup {0} :
        /\ IsPage(P, cursor)
        /\ IsLast(m, P, cursor)
        /\ loading' = loading \cup Addresses(P)
        /\ cursor' = m
        /\ sync' = IF Cardinality(P) = Batch THEN sync
                   ELSE IF sync = "init" THEN "publish" ELSE "swap"
  BY DEF LoadNew
<1>4. Addresses(P) \subseteq Int /\ IsFiniteSet(Addresses(P))
  BY <1>1, <1>3, VisibleFacts
<1>5. \/ sync = "init" /\ sync' \in {"init", "publish"}
      \/ sync = "rebuild" /\ sync' \in {"rebuild", "swap"}
  BY <1>2, <1>3
<1>6. IsFiniteSet(loading')
  BY <1>1, <1>3, <1>4, FS_Union DEF RegistryInv, LoadInv
<1>7. \A i \in Visible : i > cursor => wallets[i].address \in loading' \/ i > cursor'
  BY <1>1, <1>3, PageFacts DEF RegistryOK, Addresses
<1>8. RegistryOK'
  BY <1>1, <1>2, <1>3, <1>4, <1>5, IdFacts DEF RegistryOK
<1>9. WindowInv' /\ NothingOverlooked'
  BY <1>1, <1>2, <1>5 DEF RegistryInv, WindowInv, NothingOverlooked, Running
<1>10. LoadInv'
  <2>1. \A i \in Visible : i > cursor \/ wallets[i].address \in loading \/ i \in late
    BY <1>1, <1>2 DEF RegistryInv, LoadInv
  <2>2. \A i \in Visible : i > cursor' \/ wallets[i].address \in loading' \/ i \in late
    BY <1>3, <1>7, <2>1
  <2> QED
    BY <1>2, <1>5, <1>6, <2>2 DEF LoadInv
<1> QED
  BY <1>1, <1>2, <1>8, <1>9, <1>10, RegistryStepKeeps DEF RegistryInv

LEMMA SwapKeeps ==
  ASSUME IInv, Swap
  PROVE  IInv'
<1>1. TypeOK /\ RegistryInv /\ RegistryOK /\ faults' \in Nat
  BY Halves, TypeParts DEF Swap
<1>2. /\ Visible' = Visible /\ Uncommitted' = Uncommitted /\ wallets' = wallets
      /\ UNCHANGED <<database, requests>>
      /\ sync \in {"publish", "swap"} /\ sync' = "idle"
      /\ filter' = loading /\ maxID' = cursor /\ window' = late
      /\ late' = {} /\ cursor' = 0 /\ loading' = {}
  BY DEF Swap, Window, database, Visible, Uncommitted
<1>3. capacity' \in Nat
  BY <1>1, CapacityAssumption DEF Swap, RegistryOK
<1>4. Cardinality(loading) \in Nat
  BY <1>1, FS_CardinalityType DEF RegistryInv, LoadInv
<1>5. count' \in Nat
  BY <1>3, <1>4 DEF Swap
<1>6. RegistryOK'
  BY <1>1, <1>2, <1>3, <1>5, IdFacts DEF RegistryOK
<1>7. WindowInv'
  BY <1>1, <1>2 DEF RegistryInv, WindowInv, Running
<1>8. LoadInv'
  BY <1>2, FS_EmptySet DEF LoadInv
<1>9. NothingOverlooked'
  BY <1>1, <1>2 DEF RegistryInv, LoadInv, NothingOverlooked
<1> QED
  BY <1>1, <1>2, <1>6, <1>7, <1>8, <1>9, RegistryStepKeeps DEF RegistryInv

LEMMA SyncErrorKeeps ==
  ASSUME IInv, SyncError
  PROVE  IInv'
<1>1. TypeOK /\ RegistryInv /\ RegistryOK
  BY Halves, TypeParts
<1>2. faults' \in Nat
  BY <1>1, FaultType DEF SyncError, TypeOK
<1>3. /\ Visible' = Visible /\ Uncommitted' = Uncommitted /\ wallets' = wallets
      /\ UNCHANGED <<database, requests, filter, count, capacity, maxID, window>>
      /\ late' = {} /\ cursor' = 0 /\ loading' = {}
  BY DEF SyncError, database, Visible, Uncommitted
<1>4. \/ sync = "init" /\ sync' = "down"
      \/ sync \in {"page", "updated", "load", "rebuild"} /\ sync' = "idle"
  BY DEF SyncError
<1>5. RegistryOK'
  BY <1>1, <1>3, <1>4, IdFacts DEF RegistryOK
<1>6. WindowInv' /\ NothingOverlooked'
  BY <1>1, <1>3, <1>4 DEF RegistryInv, WindowInv, NothingOverlooked, Running
<1>7. LoadInv'
  BY <1>3, <1>4, FS_EmptySet DEF LoadInv
<1> QED
  BY <1>2, <1>3, <1>5, <1>6, <1>7, RegistryStepKeeps DEF RegistryInv

LEMMA ScannerCrashKeeps ==
  ASSUME IInv, ScannerCrash
  PROVE  IInv'
<1>1. TypeOK /\ RegistryOK
  BY Halves, TypeParts
<1>2. faults' \in Nat
  BY <1>1, FaultType DEF ScannerCrash, TypeOK
<1>3. UNCHANGED <<database, requests>>
  BY DEF ScannerCrash
<1>4. RegistryOK'
  BY <1>1, CapacityAssumption, IdFacts DEF RegistryOK, ScannerCrash
<1>5. WindowInv' /\ NothingOverlooked' /\ LoadInv'
  BY FS_EmptySet DEF ScannerCrash, WindowInv, NothingOverlooked, LoadInv, Running
<1> QED
  BY <1>2, <1>3, <1>4, <1>5, RegistryStepKeeps DEF RegistryInv

LEMMA StutterKeeps ==
  ASSUME IInv, UNCHANGED vars
  PROVE  IInv'
<1>1. UNCHANGED <<database, requests, registry, faults>> /\ wallets' = wallets
  BY DEF vars, database
<1> QED
  BY <1>1, Halves, TypeParts, TypeFrame, TableFrame, RegistryFrame

-----------------------------------------------------------------------------
(* Theorems.                                                               *)

\* What requests and registry remember of the tables stays true in every step.
THEOREM Invariance == Spec => []IInv
<1>1. ASSUME IInv, [Next]_vars
      PROVE  IInv'
  <2>1. ASSUME NEW q \in Requests, RequestStep(q) \/ RequestCrash(q)
        PROVE  IInv'
    BY <1>1, <2>1, CreateAddressKeeps, NextAddressIndexKeeps, CreateAllocatorKeeps,
       DeriveAddressKeeps, InsertKeeps, CommitKeeps, NotifyKeeps, RequestCrashKeeps
       DEF RequestStep
  <2>2. ASSUME NEW i \in Ids, NEW x \in Foreign, Edit(i, x)
        PROVE  IInv'
    BY <1>1, <2>2, EditKeeps
  <2>3. CASE RegistryStep \/ SyncError \/ ScannerCrash
    BY <1>1, <2>3, StartKeeps, SyncKeeps, SyncPageKeeps, SyncUpdatedKeeps, LoadAllKeeps,
       LoadNewKeeps, SwapKeeps, SyncErrorKeeps, ScannerCrashKeeps DEF RegistryStep
  <2>4. CASE UNCHANGED vars
    BY <1>1, <2>4, StutterKeeps
  <2> QED
    BY <1>1, <2>1, <2>2, <2>3, <2>4 DEF Next
<1> QED
  BY <1>1, InitIInv, PTL DEF Spec

\* NextAddressIndex never gives an index to two requests, not even when several
\* of them create the allocator's row.
THEOREM IndexesAreDistinct == Spec => []IndexReservedOnce
<1>1. IInv => IndexReservedOnce
  BY DEF IInv
<1> QED
  BY <1>1, Invariance, PTL

\* However many createAddress requests race for an account, all of them answer
\* with one row.
THEOREM AccountsHaveOneRow == Spec => []OneRowPerAccount
<1>1. IInv => OneRowPerAccount
  BY DEF IInv, RowInv, RequestInv, OneRowPerAccount, Stored
<1> QED
  BY <1>1, Invariance, PTL

\* Every address that the filter of a running scanner lacks is in the part of
\* the table that the next Sync reads.
THEOREM SyncReachesAll == Spec => []NothingOverlooked
<1>1. IInv => NothingOverlooked
  BY DEF IInv
<1> QED
  BY <1>1, Invariance, PTL

=============================================================================
