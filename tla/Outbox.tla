------------------------------- MODULE Outbox -------------------------------
(***************************************************************************)
(* Delivery of notify_outbox rows (internal/outbox).  Every api process    *)
(* runs a Dispatcher: it queries the due rows, offers each one to every    *)
(* publisher in turn, and then writes the row's new status by primary key  *)
(* alone.  Nothing keeps two dispatchers from working on the same row.     *)
(*                                                                         *)
(* One event is one row; event numbers are the ids the query sorts by.     *)
(* Payloads, signatures and the length of a backoff are abstracted away.   *)
(***************************************************************************)
EXTENDS Integers, FiniteSets, Sequences

CONSTANTS
    Events,       \* primary keys of the notify_outbox rows
    Dispatchers,  \* api processes
    Publishers,   \* the publishers, in the order main registers them
    Merchants,    \* merchants with a callback
    NoMerchant,   \* an empty merchant_id
    MerchantOf,   \* MerchantOf[e]: merchant_id of event e
    BatchSize,    \* notify.batch_size
    MaxRetry,     \* notify.max_retry
    MaxFaults     \* bound: crashes, failed updates and merchants switched

ASSUME EventAssumption == Events \subseteq Nat \ {0} /\ IsFiniteSet(Events)
ASSUME PublisherAssumption == Publishers \in Seq({"merchant", "rocketmq"})
ASSUME MerchantAssumption ==
    /\ NoMerchant \notin Merchants
    /\ MerchantOf \in [Events -> Merchants \cup {NoMerchant}]
ASSUME BoundAssumption ==
    BatchSize \in Nat \ {0} /\ MaxRetry \in Nat \ {0} /\ MaxFaults \in Nat

VARIABLES
    status,    \* status[e]: notify_outbox.status, "absent" before the insert
    retry,     \* retry[e]: notify_outbox.retry_count
    due,       \* due[e]: next_retry has passed
    on,        \* on[m]: merchant m is known, enabled and has a URL
    pc,        \* pc[d]: next step of dispatcher d
    batch,     \* batch[d]: rows of the last query d has not handled yet
    row,       \* row[d]: the row (a snapshot) d is delivering
    at,        \* at[d]: position in Publishers
    failed,    \* failed[d]: some publisher returned an error for the row
    faults,    \* faults spent, out of MaxFaults
    \* --- history, read by properties only
    offered,   \* <<e, i>>: the receiver behind publisher i got event e, or there
               \*   was none to send it to
    failures   \* failures[e]: failed deliveries of e, counted up to MaxRetry

table == <<status, retry, due>>
local == <<pc, batch, row, at, failed>>
history == <<offered, failures>>
vars == <<table, on, local, faults, history>>

Settled == {"sent", "dead"}
Row == [id : Events, retry : Nat]
NoRow == [id |-> 0, retry |-> 0]

Init ==
    /\ status = [e \in Events |-> "absent"]
    /\ retry = [e \in Events |-> 0]
    /\ due = [e \in Events |-> FALSE]
    /\ on \in [Merchants -> BOOLEAN]
    /\ pc = [d \in Dispatchers |-> "poll"]
    /\ batch = [d \in Dispatchers |-> {}]
    /\ row = [d \in Dispatchers |-> NoRow]
    /\ at = [d \in Dispatchers |-> 1]
    /\ failed = [d \in Dispatchers |-> FALSE]
    /\ faults = 0
    /\ offered = {}
    /\ failures = [e \in Events |-> 0]

-----------------------------------------------------------------------------
\* store.EnqueueOutbox: a known event id is left alone.
Enqueue(e) ==
    /\ status[e] = "absent"
    /\ status' = [status EXCEPT ![e] = "pending"]
    /\ due' = [due EXCEPT ![e] = TRUE]
    /\ UNCHANGED <<retry, on, local, faults, history>>

\* WHERE status = pending AND next_retry <= now ORDER BY id ASC LIMIT BatchSize
Due == {e \in Events : status[e] = "pending" /\ due[e]}
FirstDue == {e \in Due : Cardinality({f \in Due : f < e}) < BatchSize}

\* drainOnce queries the backlog.
DrainOnce(d) ==
    /\ pc[d] = "poll"
    /\ batch' = [batch EXCEPT ![d] = {[id |-> e, retry |-> retry[e]] : e \in FirstDue}]
    /\ pc' = [pc EXCEPT ![d] = "next"]
    /\ UNCHANGED <<table, on, row, at, failed, faults, history>>

\* The next row in id order; after the last one the backlog is queried again, at
\* once or, when the query found nothing, at the next tick.
Deliver(d) ==
    /\ pc[d] = "next"
    /\ \/ /\ batch[d] = {}
          /\ pc' = [pc EXCEPT ![d] = "poll"]
          /\ UNCHANGED <<batch, row, at, failed>>
       \/ \E r \in batch[d] :
          /\ \A q \in batch[d] : r.id <= q.id
          /\ batch' = [batch EXCEPT ![d] = @ \ {r}]
          /\ row' = [row EXCEPT ![d] = r]
          /\ at' = [at EXCEPT ![d] = 1]
          /\ failed' = [failed EXCEPT ![d] = FALSE]
          /\ pc' = [pc EXCEPT ![d] = "publish"]
    /\ UNCHANGED <<table, on, faults, history>>

\* What a publisher can do with event e: hand it over and learn that it did,
\* hand it over and lose the answer, or fail.  The merchant publisher skips an
\* event without a merchant, and one whose merchant it finds switched off.
Answers(p, e) ==
    IF p # "merchant" THEN {"ok", "lostAnswer", "error"}
    ELSE IF MerchantOf[e] = NoMerchant THEN {"skipped"}
    ELSE IF ~on[MerchantOf[e]] THEN {"skipped", "error"}
    ELSE {"ok", "lostAnswer", "error"}

\* Mutant: only the last publisher's error is kept.
NotedLast(d, answer) == answer \in {"lostAnswer", "error"}

\* The errors collected so far, joined.
Noted(d, answer) == failed[d] \/ answer \in {"lostAnswer", "error"}

\* One turn of the loop over the publishers.
Publish(d) ==
    /\ pc[d] = "publish"
    /\ at[d] <= Len(Publishers)
    /\ \E answer \in Answers(Publishers[at[d]], row[d].id) :
         /\ failed' = [failed EXCEPT ![d] = Noted(d, answer)]
         /\ offered' = IF answer = "error" THEN offered
                       ELSE offered \cup {<<row[d].id, at[d]>>}
    /\ at' = [at EXCEPT ![d] = @ + 1]
    /\ UNCHANGED <<table, on, pc, batch, row, faults, failures>>

\* Mutant: the attempt number is not advanced.
AttemptStuck(d) == row[d].retry

\* Mutant: counted from one too many.
AttemptEager(d) == row[d].retry + 2

\* retry := row.RetryCount + 1, from the snapshot.
Attempt(d) == row[d].retry + 1

\* The end of deliver: one UPDATE by primary key, whose error is ignored.
Record(d) ==
    /\ pc[d] = "publish"
    /\ at[d] > Len(Publishers)
    /\ LET e == row[d].id IN
         /\ \/ /\ ~failed[d]
               /\ status' = [status EXCEPT ![e] = "sent"]
               /\ UNCHANGED <<retry, due, faults>>
            \/ /\ failed[d]
               /\ status' = [status EXCEPT ![e] =
                               IF Attempt(d) >= MaxRetry THEN "dead" ELSE "pending"]
               /\ retry' = [retry EXCEPT ![e] = Attempt(d)]
               /\ due' = [due EXCEPT ![e] = FALSE]
               /\ UNCHANGED faults
            \/ /\ faults < MaxFaults
               /\ faults' = faults + 1
               /\ UNCHANGED table
         /\ failures' = [failures EXCEPT ![e] =
                           IF failed[d] /\ @ < MaxRetry THEN @ + 1 ELSE @]
    /\ row' = [row EXCEPT ![d] = NoRow]
    /\ at' = [at EXCEPT ![d] = 1]
    /\ failed' = [failed EXCEPT ![d] = FALSE]
    /\ pc' = [pc EXCEPT ![d] = "next"]
    /\ UNCHANGED <<on, batch, offered>>

-----------------------------------------------------------------------------
\* The backoff is over (at most ten minutes); only a pending row's is looked at.
BackoffEnds(e) ==
    /\ status[e] = "pending"
    /\ ~due[e]
    /\ due' = [due EXCEPT ![e] = TRUE]
    /\ UNCHANGED <<status, retry, on, local, faults, history>>

\* The api process dies and is restarted.
Crash(d) ==
    /\ pc[d] # "poll"
    /\ faults < MaxFaults
    /\ faults' = faults + 1
    /\ pc' = [pc EXCEPT ![d] = "poll"]
    /\ batch' = [batch EXCEPT ![d] = {}]
    /\ row' = [row EXCEPT ![d] = NoRow]
    /\ at' = [at EXCEPT ![d] = 1]
    /\ failed' = [failed EXCEPT ![d] = FALSE]
    /\ UNCHANGED <<table, on, history>>

\* upsertMerchant: an operator gives a merchant a callback, or takes it away.
SwitchMerchant(m) ==
    /\ faults < MaxFaults
    /\ faults' = faults + 1
    /\ on' = [on EXCEPT ![m] = ~@]
    /\ UNCHANGED <<table, local, history>>

Work(d) == DrainOnce(d) \/ Deliver(d) \/ Publish(d) \/ Record(d)

Next ==
    \/ \E e \in Events : Enqueue(e) \/ BackoffEnds(e)
    \/ \E d \in Dispatchers : Work(d) \/ Crash(d)
    \/ \E m \in Merchants : SwitchMerchant(m)

Spec == Init /\ [][Next]_vars

\* A live dispatcher keeps working and time passes.
Fairness ==
    /\ \A d \in Dispatchers : WF_vars(Work(d))
    /\ \A e \in Events : WF_vars(BackoffEnds(e))

FairSpec == Spec /\ Fairness

-----------------------------------------------------------------------------
(* Properties.                                                             *)

\* Every variable keeps its type.
TypeOK ==
    /\ status \in [Events -> {"absent", "pending", "sent", "dead"}]
    /\ retry \in [Events -> Nat]
    /\ due \in [Events -> BOOLEAN]
    /\ on \in [Merchants -> BOOLEAN]
    /\ pc \in [Dispatchers -> {"poll", "next", "publish"}]
    /\ batch \in [Dispatchers -> SUBSET Row]
    /\ row \in [Dispatchers -> Row \cup {NoRow}]
    /\ at \in [Dispatchers -> 1 .. Len(Publishers) + 1]
    /\ failed \in [Dispatchers -> BOOLEAN]
    /\ faults \in Nat
    /\ offered \subseteq Events \X (1 .. Len(Publishers))
    /\ failures \in [Events -> Nat]

\* "at-least-once delivery" (package comment): an event is marked sent only when
\* the receiver behind every publisher got it or had no use for it, whatever
\* crashes, retries and other dispatchers came in between.
SentWasOffered ==
    \A e \in Events : status[e] = "sent" =>
        \A i \in 1 .. Len(Publishers) : <<e, i>> \in offered

\* No event is dead lettered before notify.max_retry deliveries of it failed,
\* even though retry counts are written from stale snapshots.
NotGivenUpEarly ==
    \A e \in Events : status[e] = "dead" => failures[e] >= MaxRetry

\* Every event ends up sent or dead lettered for good: dispatchers may reopen an
\* event that another one has marked sent, but not for ever.
EventuallySettled ==
    \A e \in Events : status[e] = "pending" ~> [](status[e] \in Settled)

-----------------------------------------------------------------------------
(* The inductive invariant.                                                *)

\* A dispatcher in the middle of a delivery has a row.
RowInv == \A d \in Dispatchers : pc[d] = "publish" => row[d] \in Row

\* Every publisher before the current one got the event, skipped it or failed.
ProgressInv ==
    \A d \in Dispatchers : pc[d] = "publish" /\ ~failed[d] =>
        \A i \in 1 .. at[d] - 1 : <<row[d].id, i>> \in offered

\* A retry count never exceeds the failed deliveries, and a row that may still be
\* delivered has attempts left; the same holds of every snapshot.
CountInv ==
    /\ \A e \in Events :
          /\ retry[e] <= failures[e] /\ failures[e] <= MaxRetry
          /\ status[e] \in {"absent", "pending"} => retry[e] < MaxRetry
    /\ \A d \in Dispatchers :
          /\ \A r \in batch[d] : r.retry <= failures[r.id] /\ r.retry < MaxRetry
          /\ pc[d] = "publish" =>
                row[d].retry <= failures[row[d].id] /\ row[d].retry < MaxRetry

\* Everything a dispatcher carries from one step to the next is still true.
IInv ==
    /\ TypeOK /\ RowInv /\ ProgressInv /\ CountInv
    /\ SentWasOffered /\ NotGivenUpEarly

=============================================================================
