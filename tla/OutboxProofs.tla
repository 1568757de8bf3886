---------------------------- MODULE OutboxProofs ----------------------------
(***************************************************************************)
(* Proofs about Outbox, for any number of events, dispatchers, publishers  *)
(* and retries: a sent event was offered to everybody and reached somebody,*)
(* and none is dead lettered early.                                        *)
(***************************************************************************)
EXTENDS Outbox, TLAPS

\* The columns of a snapshot.
LEMMA RowFields == \A r \in Row : r.id \in Events /\ r.retry \in Nat
  BY DEF Row

\* The row made from one event.
LEMMA MakeRow ==
    ASSUME NEW e \in Events, NEW n \in Nat
    PROVE  /\ [id |-> e, retry |-> n] \in Row
           /\ [id |-> e, retry |-> n].id = e
           /\ [id |-> e, retry |-> n].retry = n
  BY DEF Row

\* The invariant holds initially.
LEMMA InitInv == Init => IInv
<1> SUFFICES ASSUME Init PROVE IInv
  OBVIOUS
<1>1. Len(Publishers) \in Nat
  BY PublisherAssumption
<1>2. TypeOK
  BY <1>1 DEF Init, TypeOK
<1>3. RowInv /\ ProgressInv /\ SentWasOffered /\ NotGivenUpEarly
  BY DEF Init, RowInv, ProgressInv, SentWasOffered, NotGivenUpEarly
<1>4. CountInv
  BY BoundAssumption DEF Init, CountInv
<1> QED
  BY <1>2, <1>3, <1>4 DEF IInv

\* EnqueueOutbox adds a fresh pending row.
LEMMA EnqueueInv ==
    ASSUME IInv, NEW e \in Events, Enqueue(e)
    PROVE  IInv'
<1>1. TypeOK'
  BY DEF IInv, TypeOK, Enqueue, local, history
<1>2. RowInv' /\ ProgressInv' /\ SentWasOffered' /\ NotGivenUpEarly'
  BY DEF IInv, TypeOK, Enqueue, local, history, RowInv, ProgressInv, SentWasOffered,
     NotGivenUpEarly
<1>3. CountInv'
  BY DEF IInv, TypeOK, Enqueue, local, history, CountInv
<1> QED
  BY <1>1, <1>2, <1>3 DEF IInv

\* drainOnce takes snapshots of pending rows.
LEMMA DrainOnceInv ==
    ASSUME IInv, NEW d \in Dispatchers, DrainOnce(d)
    PROVE  IInv'
<1> DEFINE B == {[id |-> e, retry |-> retry[e]] : e \in FirstDue}
<1>1. /\ batch' = [batch EXCEPT ![d] = B] /\ pc' = [pc EXCEPT ![d] = "next"]
      /\ UNCHANGED <<status, retry, due, on, row, at, failed, faults, offered,
                     failures>>
  BY DEF DrainOnce, table, history
<1>2. ASSUME NEW r \in B
      PROVE  r \in Row /\ r.retry <= failures[r.id] /\ r.retry < MaxRetry
  <2>1. PICK e \in FirstDue : r = [id |-> e, retry |-> retry[e]]
    OBVIOUS
  <2>2. e \in Events /\ retry[e] \in Nat /\ status[e] = "pending"
    BY <2>1 DEF FirstDue, Due, IInv, TypeOK
  <2>3. r \in Row /\ r.id = e /\ r.retry = retry[e]
    BY <2>1, <2>2, MakeRow
  <2> QED
    BY <2>2, <2>3 DEF IInv, CountInv
<1> HIDE DEF B
<1>3. TypeOK'
  BY <1>1, <1>2 DEF IInv, TypeOK
<1>4. RowInv' /\ ProgressInv' /\ SentWasOffered' /\ NotGivenUpEarly'
  BY <1>1 DEF IInv, TypeOK, RowInv, ProgressInv, SentWasOffered, NotGivenUpEarly
<1>5. CountInv'
  BY <1>1, <1>2 DEF IInv, TypeOK, CountInv
<1> QED
  BY <1>3, <1>4, <1>5 DEF IInv

\* Going on to the next row of the batch.
LEMMA DeliverInv ==
    ASSUME IInv, NEW d \in Dispatchers, Deliver(d)
    PROVE  IInv'
<1>1. UNCHANGED <<status, retry, due, on, faults, offered, failures>>
  BY DEF Deliver, table, history
<1>2. CASE pc' = [pc EXCEPT ![d] = "poll"] /\ UNCHANGED <<batch, row, at, failed>>
  <2>1. TypeOK'
    BY <1>1, <1>2 DEF IInv, TypeOK
  <2>2. RowInv' /\ ProgressInv' /\ SentWasOffered' /\ NotGivenUpEarly'
    BY <1>1, <1>2 DEF IInv, TypeOK, RowInv, ProgressInv, SentWasOffered, NotGivenUpEarly
  <2>3. CountInv'
    BY <1>1, <1>2 DEF IInv, TypeOK, CountInv
  <2> QED
    BY <2>1, <2>2, <2>3 DEF IInv
<1>3. ASSUME NEW r \in batch[d], batch' = [batch EXCEPT ![d] = @ \ {r}],
             row' = [row EXCEPT ![d] = r], at' = [at EXCEPT ![d] = 1],
             failed' = [failed EXCEPT ![d] = FALSE], pc' = [pc EXCEPT ![d] = "publish"]
      PROVE  IInv'
  <2>1. r \in Row /\ r.retry <= failures[r.id] /\ r.retry < MaxRetry
    BY DEF IInv, TypeOK, CountInv
  <2>2. Len(Publishers) \in Nat
    BY PublisherAssumption
  <2>3. TypeOK'
    BY <1>1, <1>3, <2>1, <2>2 DEF IInv, TypeOK
  <2>4. RowInv' /\ SentWasOffered' /\ NotGivenUpEarly'
    BY <1>1, <1>3, <2>1 DEF IInv, TypeOK, RowInv, SentWasOffered, NotGivenUpEarly
  <2>5. ProgressInv'
    BY <1>1, <1>3 DEF IInv, TypeOK, ProgressInv
  <2>6. CountInv'
    BY <1>1, <1>3, <2>1 DEF IInv, TypeOK, CountInv
  <2> QED
    BY <2>3, <2>4, <2>5, <2>6 DEF IInv
<1> QED
  BY <1>2, <1>3 DEF Deliver

\* One publisher had its turn.
LEMMA PublishInv ==
    ASSUME IInv, NEW d \in Dispatchers, Publish(d)
    PROVE  IInv'
<1> DEFINE e == row[d].id
           i == at[d]
<1>1. e \in Events /\ i \in 1 .. Len(Publishers) /\ Len(Publishers) \in Nat
  BY RowFields, PublisherAssumption DEF IInv, TypeOK, RowInv, Publish
<1>2. /\ at' = [at EXCEPT ![d] = i + 1] /\ pc[d] = "publish"
      /\ UNCHANGED <<status, retry, due, on, pc, batch, row, faults, failures>>
  BY DEF Publish, table
<1>3. PICK answer \in Answers(Publishers[i], e) :
         /\ failed' = [failed EXCEPT ![d] = Noted(d, answer)]
         /\ offered' = IF answer = "error" THEN offered ELSE offered \cup {<<e, i>>}
  BY DEF Publish
<1>4. /\ offered \subseteq offered' /\ offered' \subseteq Events \X (1 .. Len(Publishers))
  BY <1>1, <1>3 DEF IInv, TypeOK
<1>5. failed' \in [Dispatchers -> BOOLEAN]
  BY <1>3 DEF IInv, TypeOK, Noted
<1>6. ~failed'[d] => ~failed[d] /\ <<e, i>> \in offered'
  BY <1>3 DEF IInv, TypeOK, Noted, Answers
<1>7. \A c \in Dispatchers : c # d => failed'[c] = failed[c] /\ at'[c] = at[c]
  BY <1>2, <1>3 DEF IInv, TypeOK
<1>8. at' \in [Dispatchers -> 1 .. Len(Publishers) + 1] /\ at'[d] = i + 1
  BY <1>1, <1>2 DEF IInv, TypeOK
<1>9. TypeOK'
  BY <1>2, <1>4, <1>5, <1>8 DEF IInv, TypeOK
<1>10. RowInv' /\ NotGivenUpEarly' /\ CountInv'
  BY <1>2 DEF IInv, RowInv, NotGivenUpEarly, CountInv
<1>11. SentWasOffered'
  BY <1>2, <1>4 DEF IInv, SentWasOffered
<1>12. ProgressInv'
  <2> SUFFICES ASSUME NEW c \in Dispatchers, pc'[c] = "publish", ~failed'[c],
                      NEW j \in 1 .. at'[c] - 1
               PROVE  <<row'[c].id, j>> \in offered'
    BY DEF ProgressInv
  <2>1. CASE c # d
    BY <1>2, <1>4, <1>7, <2>1 DEF IInv, ProgressInv
  <2>2. CASE c = d /\ j = i
    BY <1>2, <1>6, <2>2
  <2>3. CASE c = d /\ j # i
    <3>1. j \in 1 .. i - 1
      BY <1>1, <1>8, <2>3
    <3> QED
      BY <1>2, <1>4, <1>6, <2>3, <3>1 DEF IInv, ProgressInv
  <2> QED
    BY <2>1, <2>2, <2>3
<1> QED
  BY <1>9, <1>10, <1>11, <1>12 DEF IInv

\* The update at the end of deliver.
LEMMA RecordInv ==
    ASSUME IInv, NEW d \in Dispatchers, Record(d)
    PROVE  IInv'
<1> DEFINE e == row[d].id
<1>1. /\ e \in Events /\ row[d].retry \in Nat /\ Len(Publishers) \in Nat
      /\ row[d].retry <= failures[e] /\ row[d].retry < MaxRetry
      /\ failures[e] \in Nat /\ MaxRetry \in Nat
  BY RowFields, PublisherAssumption, BoundAssumption DEF IInv, TypeOK, RowInv, CountInv, Record
<1>2. /\ row' = [row EXCEPT ![d] = NoRow] /\ at' = [at EXCEPT ![d] = 1]
      /\ failed' = [failed EXCEPT ![d] = FALSE] /\ pc' = [pc EXCEPT ![d] = "next"]
      /\ failures' = [failures EXCEPT ![e] = IF failed[d] /\ @ < MaxRetry THEN @ + 1 ELSE @]
      /\ UNCHANGED <<on, batch, offered>>
  BY DEF Record
<1>3. \A c \in Dispatchers :
         /\ pc'[c] = "publish" => c # d
         /\ c # d => /\ pc'[c] = pc[c] /\ row'[c] = row[c] /\ at'[c] = at[c]
                     /\ failed'[c] = failed[c]
  BY <1>2 DEF IInv, TypeOK
<1>4. /\ failures' \in [Events -> Nat]
      /\ \A f \in Events : failures[f] <= failures'[f]
      /\ \A f \in Events : failures'[f] <= MaxRetry
      /\ failed[d] => row[d].retry + 1 <= failures'[e]
  BY <1>1, <1>2 DEF IInv, TypeOK, CountInv
<1>5. RowInv' /\ ProgressInv'
  <2>1. RowInv'
    BY <1>3 DEF IInv, RowInv
  <2>2. offered' = offered
    BY <1>2
  <2>3. ProgressInv'
    BY <1>3, <2>2 DEF IInv, ProgressInv
  <2> QED
    BY <2>1, <2>3
<1>6. /\ \A c \in Dispatchers : \A r \in batch'[c] :
            r.retry <= failures'[r.id] /\ r.retry < MaxRetry
      /\ \A c \in Dispatchers : pc'[c] = "publish" =>
            row'[c].retry <= failures'[row'[c].id] /\ row'[c].retry < MaxRetry
  <2>1. \A r \in Row : r.retry <= failures[r.id] => r.retry <= failures'[r.id]
    <3> SUFFICES ASSUME NEW r \in Row, r.retry <= failures[r.id]
                 PROVE  r.retry <= failures'[r.id]
      OBVIOUS
    <3>1. /\ r.id \in Events /\ r.retry \in Nat /\ failures[r.id] \in Nat
          /\ failures'[r.id] \in Nat /\ failures[r.id] <= failures'[r.id]
      BY <1>4, RowFields DEF IInv, TypeOK
    <3> QED
      BY <3>1
  <2>2. \A c \in Dispatchers : \A r \in batch'[c] : r \in Row
    BY <1>2 DEF IInv, TypeOK
  <2> QED
    BY <1>2, <1>3, <2>1, <2>2 DEF IInv, CountInv, RowInv
<1>7. /\ row' \in [Dispatchers -> Row \cup {NoRow}]
      /\ at' \in [Dispatchers -> 1 .. Len(Publishers) + 1]
      /\ failed' \in [Dispatchers -> BOOLEAN]
      /\ pc' \in [Dispatchers -> {"poll", "next", "publish"}]
  BY <1>1, <1>2 DEF IInv, TypeOK
<1>8. CASE /\ ~failed[d]
           /\ status' = [status EXCEPT ![e] = "sent"]
           /\ UNCHANGED <<retry, due, faults>>
  <2>1. \A j \in 1 .. Len(Publishers) : <<e, j>> \in offered
    <3>1. pc[d] = "publish" /\ at[d] > Len(Publishers) /\ at[d] \in 1 .. Len(Publishers) + 1
      BY DEF Record, IInv, TypeOK
    <3>2. at[d] - 1 = Len(Publishers)
      BY <1>1, <3>1
    <3> QED
      BY <1>8, <3>1, <3>2 DEF IInv, ProgressInv
  <2>2. SentWasOffered'
    BY <1>1, <1>2, <1>8, <2>1 DEF IInv, TypeOK, SentWasOffered
  <2>3. NotGivenUpEarly'
    BY <1>1, <1>4, <1>8 DEF IInv, TypeOK, NotGivenUpEarly
  <2>4. TypeOK'
    BY <1>2, <1>4, <1>7, <1>8 DEF IInv, TypeOK
  <2>5. \A f \in Events :
          /\ retry'[f] <= failures'[f] /\ failures'[f] <= MaxRetry
          /\ status'[f] \in {"absent", "pending"} => retry'[f] < MaxRetry
    BY <1>1, <1>4, <1>8 DEF IInv, TypeOK, CountInv
  <2> QED
    BY <1>5, <1>6, <2>2, <2>3, <2>4, <2>5 DEF IInv, CountInv
<1>9. CASE /\ failed[d]
           /\ status' = [status EXCEPT ![e] =
                           IF Attempt(d) >= MaxRetry THEN "dead" ELSE "pending"]
           /\ retry' = [retry EXCEPT ![e] = Attempt(d)]
           /\ due' = [due EXCEPT ![e] = FALSE]
           /\ UNCHANGED faults
  <2>1. SentWasOffered'
    BY <1>1, <1>2, <1>9 DEF IInv, TypeOK, SentWasOffered
  <2>2. NotGivenUpEarly'
    BY <1>1, <1>4, <1>9 DEF IInv, TypeOK, NotGivenUpEarly, Attempt
  <2>3. TypeOK'
    <3>1. row[d].retry + 1 \in Nat
      BY <1>1
    <3>2. /\ status' \in [Events -> {"absent", "pending", "sent", "dead"}]
          /\ retry' \in [Events -> Nat]
          /\ due' \in [Events -> BOOLEAN]
      BY <1>9, <3>1 DEF IInv, TypeOK, Attempt
    <3> QED
      BY <1>2, <1>4, <1>7, <1>9, <3>2 DEF IInv, TypeOK
  <2>4. \A f \in Events :
          /\ retry'[f] <= failures'[f] /\ failures'[f] <= MaxRetry
          /\ status'[f] \in {"absent", "pending"} => retry'[f] < MaxRetry
    <3> SUFFICES ASSUME NEW f \in Events
                 PROVE  /\ retry'[f] <= failures'[f] /\ failures'[f] <= MaxRetry
                        /\ status'[f] \in {"absent", "pending"} => retry'[f] < MaxRetry
      OBVIOUS
    <3>1. CASE f = e
      <4>1. retry'[f] = row[d].retry + 1
        BY <1>9, <3>1 DEF IInv, TypeOK, Attempt
      <4>2. status'[f] = IF row[d].retry + 1 >= MaxRetry THEN "dead" ELSE "pending"
        BY <1>9, <3>1 DEF IInv, TypeOK, Attempt
      <4> QED
        BY <1>1, <1>4, <1>9, <3>1, <4>1, <4>2
    <3>2. CASE f # e
      <4>1. /\ retry'[f] = retry[f] /\ status'[f] = status[f]
            /\ retry[f] <= failures[f] /\ retry[f] \in Nat /\ failures[f] \in Nat
            /\ status[f] \in {"absent", "pending"} => retry[f] < MaxRetry
        BY <1>9, <3>2 DEF IInv, TypeOK, CountInv
      <4>2. failures'[f] \in Nat /\ failures[f] <= failures'[f] /\ failures'[f] <= MaxRetry
        BY <1>4
      <4> QED
        BY <4>1, <4>2
    <3> QED
      BY <3>1, <3>2
  <2> QED
    BY <1>5, <1>6, <2>1, <2>2, <2>3, <2>4 DEF IInv, CountInv
<1>10. CASE faults' = faults + 1 /\ UNCHANGED table
  <2>1. UNCHANGED <<status, retry, due>>
    BY <1>10 DEF table
  <2>2. SentWasOffered' /\ NotGivenUpEarly'
    BY <1>2, <1>4, <2>1, <1>1 DEF IInv, TypeOK, SentWasOffered, NotGivenUpEarly
  <2>3. TypeOK'
    BY <1>2, <1>4, <1>7, <1>10, <2>1 DEF IInv, TypeOK
  <2>4. \A f \in Events :
          /\ retry'[f] <= failures'[f] /\ failures'[f] <= MaxRetry
          /\ status'[f] \in {"absent", "pending"} => retry'[f] < MaxRetry
    BY <1>1, <1>4, <2>1 DEF IInv, TypeOK, CountInv
  <2> QED
    BY <1>5, <1>6, <2>2, <2>3, <2>4 DEF IInv, CountInv
<1> QED
  BY <1>8, <1>9, <1>10 DEF Record

\* The backoff ends, the process dies, a merchant is switched off.
LEMMA EnvironmentInv ==
    ASSUME IInv,
           \/ \E e \in Events : BackoffEnds(e)
           \/ \E d \in Dispatchers : Crash(d)
           \/ \E m \in Merchants : SwitchMerchant(m)
           \/ UNCHANGED vars
    PROVE  IInv'
<1>1. CASE UNCHANGED vars \/ \E m \in Merchants : SwitchMerchant(m)
  <2>1. /\ UNCHANGED <<status, retry, due, pc, batch, row, at, failed, offered, failures>>
        /\ on' \in [Merchants -> BOOLEAN] /\ faults' \in Nat
    <3>1. CASE UNCHANGED vars
      BY <3>1 DEF IInv, TypeOK, vars, table, local, history
    <3>2. ASSUME NEW m \in Merchants, SwitchMerchant(m)
          PROVE  /\ UNCHANGED <<status, retry, due, pc, batch, row, at, failed, offered, failures>>
                 /\ on' \in [Merchants -> BOOLEAN] /\ faults' \in Nat
      BY <3>2 DEF IInv, TypeOK, SwitchMerchant, table, local, history
    <3> QED
      BY <1>1, <3>1, <3>2
  <2>2. TypeOK'
    BY <2>1 DEF IInv, TypeOK
  <2>3. RowInv' /\ ProgressInv' /\ CountInv' /\ SentWasOffered' /\ NotGivenUpEarly'
    BY <2>1 DEF IInv, RowInv, ProgressInv, CountInv, SentWasOffered, NotGivenUpEarly
  <2> QED
    BY <2>2, <2>3 DEF IInv
<1>2. ASSUME NEW e \in Events, BackoffEnds(e) PROVE IInv'
  <2>1. TypeOK'
    BY <1>2 DEF IInv, TypeOK, BackoffEnds, local, history
  <2>2. RowInv' /\ ProgressInv' /\ CountInv' /\ SentWasOffered' /\ NotGivenUpEarly'
    BY <1>2 DEF IInv, BackoffEnds, local, history, RowInv, ProgressInv, CountInv,
       SentWasOffered, NotGivenUpEarly
  <2> QED
    BY <2>1, <2>2 DEF IInv
<1>3. ASSUME NEW d \in Dispatchers, Crash(d) PROVE IInv'
  <2>1. Len(Publishers) \in Nat
    BY PublisherAssumption
  <2>2. TypeOK'
    BY <1>3, <2>1 DEF IInv, TypeOK, Crash, table, history
  <2>3. RowInv' /\ ProgressInv' /\ SentWasOffered' /\ NotGivenUpEarly'
    BY <1>3 DEF IInv, TypeOK, Crash, table, history, RowInv, ProgressInv,
       SentWasOffered, NotGivenUpEarly
  <2>4. CountInv'
    BY <1>3 DEF IInv, TypeOK, Crash, table, history, CountInv
  <2> QED
    BY <2>2, <2>3, <2>4 DEF IInv
<1> QED
  BY <1>1, <1>2, <1>3

\* Every step preserves the invariant.
LEMMA NextInv == IInv /\ [Next]_vars => IInv'
  BY EnqueueInv, DrainOnceInv, DeliverInv, PublishInv, RecordInv, EnvironmentInv DEF Next, Work

\* What dispatchers remember stays true in every reachable state.
THEOREM Invariance == Spec => []IInv
<1> QED
  BY InitInv, NextInv, PTL DEF Spec

\* An event marked sent was offered to the receiver behind every publisher.
THEOREM SentEventsWereOffered == Spec => []SentWasOffered
<1>1. IInv => SentWasOffered
  BY DEF IInv
<1> QED
  BY <1>1, Invariance, PTL

\* An event is dead lettered only after max_retry failed deliveries.
THEOREM DeadEventsFailedOften == Spec => []NotGivenUpEarly
<1>1. IInv => NotGivenUpEarly
  BY DEF IInv
<1> QED
  BY <1>1, Invariance, PTL

=============================================================================
