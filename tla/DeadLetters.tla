------------------------------ MODULE DeadLetters ------------------------------
(***************************************************************************)
(* What becomes of a queued message: the batches of the queue consumer     *)
(* (siliconbeest-queue-consumer/src/index.ts), the dead-letter queue       *)
(* behind the federation queue, the rows in which the consumer parks what  *)
(* still fails, and the administrator who replays or discards them         *)
(* (endpoints/api/v1/admin/federation.ts).                                 *)
(*                                                                         *)
(* A message stands for its body; a replayed copy has the body of the      *)
(* message it was parked from.  The queues themselves belong to the        *)
(* platform: they deliver a message again until its retries are used up.   *)
(***************************************************************************)
EXTENDS Integers, SequencesExt

CONSTANTS
  Consumers, Admins,
  FederationRetries, InternalRetries, DlqRetries,   \* max_retries of the queues
  MaxMessages,            \* bound: messages sent and replayed
  MaxRows,                \* bound: rows the database takes
  CrashesOnLastAttempt    \* may a consumer die in the last delivery of a message
                          \* that has no dead-letter queue behind it?

INTERNAL_MAX_ATTEMPTS == 4
DLQ_MAX_ATTEMPTS == 3

\* The consumer counts attempts to know the last one: it relies on the settings
\* of the queues in wrangler.jsonc.
ASSUME ConfigAssumption ==
  /\ {FederationRetries, InternalRetries, DlqRetries} \subseteq Nat
  /\ INTERNAL_MAX_ATTEMPTS = InternalRetries + 1
  /\ DLQ_MAX_ATTEMPTS = DlqRetries + 1

ASSUME BoundAssumption ==
  MaxMessages \in Nat /\ MaxRows \in Nat /\ CrashesOnLastAttempt \in BOOLEAN

VARIABLES
  messages,   \* in the order they were sent; attempts as msg.attempts counts
  batch,      \* per consumer: what it was handed and has decided so far
  rows,       \* federation_dlq_parked
  decision,   \* per administrator: the request that runs
  handled,    \* bodies that a consumer processed without an error
  dropped     \* bodies that a consumer gave up, saying so in its log

vars == <<messages, batch, rows, decision, handled, dropped>>

Ids == DOMAIN messages
Body(m) == messages[m].body

NoBatch == [queue |-> "none", todo |-> {}, acked |-> {}, retried |-> {}]
NoDecision == [phase |-> "none", rows |-> {}, status |-> "parked", bulk |-> FALSE]

Init ==
  /\ messages = <<>>
  /\ batch = [w \in Consumers |-> NoBatch]
  /\ rows = <<>>
  /\ decision = [a \in Admins |-> NoDecision]
  /\ handled = {}
  /\ dropped = {}

-----------------------------------------------------------------------------
(* The queues of the platform *)

\* A producer sends a message to one of the two work queues.
Send(q) ==
  /\ Len(messages) < MaxMessages
  /\ messages' = Append(messages, [place |-> q, attempts |-> 0, body |-> Len(messages) + 1])
  /\ UNCHANGED <<batch, rows, decision, handled, dropped>>

\* A consumer is handed some of the messages of a queue.
Receive(w, q, M) ==
  /\ batch[w] = NoBatch /\ M # {}
  /\ batch' = [batch EXCEPT ![w] = [NoBatch EXCEPT !.queue = q, !.todo = M]]
  /\ messages' = [m \in Ids |-> IF m \in M
                                THEN [messages[m] EXCEPT !.place = "batch", !.attempts = @ + 1]
                                ELSE messages[m]]
  /\ UNCHANGED <<rows, decision, handled, dropped>>

MaxRetries(q) == CASE q = "federation" -> FederationRetries
                   [] q = "internal"   -> InternalRetries
                   [] q = "dlq"        -> DlqRetries

\* Where a message goes that was not acknowledged.
Redelivered(m, q) ==
  IF m.attempts <= MaxRetries(q) THEN [m EXCEPT !.place = q]
  ELSE IF q = "federation" THEN [m EXCEPT !.place = "dlq", !.attempts = 0]
  ELSE [m EXCEPT !.place = "gone"]

\* The batch of consumer w is over: back goes what is not done.
Settle(w, back, done) ==
  /\ messages' = [m \in Ids |-> IF m \in back THEN Redelivered(messages[m], batch[w].queue)
                                ELSE IF m \in done THEN [messages[m] EXCEPT !.place = "gone"]
                                ELSE messages[m]]
  /\ batch' = [batch EXCEPT ![w] = NoBatch]
  /\ UNCHANGED <<rows, decision, handled, dropped>>

FinishBatch(w) ==
  /\ batch[w] # NoBatch /\ batch[w].todo = {}
  /\ Settle(w, batch[w].retried, batch[w].acked)

\* The consumer dies before it returns: what it acknowledged may be lost too.
Crash(w) ==
  /\ batch[w] # NoBatch
  /\ \E lost \in {{}, batch[w].acked} :
       LET back == batch[w].todo \cup batch[w].retried \cup lost IN
       /\ \A m \in back : \/ CrashesOnLastAttempt
                          \/ Redelivered(messages[m], batch[w].queue).place # "gone"
       /\ Settle(w, back, batch[w].acked \ lost)

-----------------------------------------------------------------------------
(* The consumer: one message of its batch *)

Take(w, m) == m \in batch[w].todo

Ack(w, m) == batch' = [batch EXCEPT ![w].todo = @ \ {m}, ![w].acked = @ \cup {m}]
Retry(w, m) == batch' = [batch EXCEPT ![w].todo = @ \ {m}, ![w].retried = @ \cup {m}]

\* Processed, skipped, or its targets are suspended: there is nothing left to do.
Process(w, m) ==
  /\ Take(w, m) /\ Ack(w, m)
  /\ handled' = handled \cup {Body(m)}
  /\ UNCHANGED <<messages, rows, decision, dropped>>

MayDeferAgain(w, m) ==   \* a mistake: the last attempt is deferred like the others
  batch[w].queue # "dlq" \/ messages[m].attempts <= DLQ_MAX_ATTEMPTS

\* Another consumer holds the ordering lock: no dead letter is parked for that
\* before its last attempt.
MayDefer(w, m) == batch[w].queue # "dlq" \/ messages[m].attempts < DLQ_MAX_ATTEMPTS

Defer(w, m) ==
  /\ Take(w, m) /\ batch[w].queue # "internal" /\ MayDefer(w, m) /\ Retry(w, m)
  /\ UNCHANGED <<messages, rows, decision, handled, dropped>>

\* It throws on the federation queue: the platform moves it on in the end.
FailFederation(w, m) ==
  /\ Take(w, m) /\ batch[w].queue = "federation" /\ Retry(w, m)
  /\ UNCHANGED <<messages, rows, decision, handled, dropped>>

LastInternalAttempt(m) == messages[m].attempts >= INTERNAL_MAX_ATTEMPTS

Drop(w, m) == Ack(w, m) /\ dropped' = dropped \cup {Body(m)}

FailInternal(w, m) ==
  /\ Take(w, m) /\ batch[w].queue = "internal"
  /\ IF LastInternalAttempt(m) THEN Drop(w, m) ELSE Retry(w, m) /\ UNCHANGED dropped
  /\ UNCHANGED <<messages, rows, decision, handled>>

ParkedWithoutBody(m) == [status |-> "parked", body |-> 0]   \* a mistake

ParkedRow(m) == [status |-> "parked", body |-> Body(m)]

InsertRow(m) == Len(rows) < MaxRows /\ rows' = Append(rows, ParkedRow(m))

\* The first attempt of a deferred message to park it stores the row and throws,
\* the second is made by the handler of the error.
InsertRowTwice(m) ==
  Len(rows) + 1 < MaxRows /\ rows' = rows \o <<ParkedRow(m), ParkedRow(m)>>

LastDlqAttempt(m) == messages[m].attempts >= DLQ_MAX_ATTEMPTS

\* A dead letter that throws, or is deferred for the last time, is parked.
Park(w, m) ==
  /\ Take(w, m) /\ batch[w].queue = "dlq" /\ Ack(w, m)
  /\ InsertRow(m) \/ (LastDlqAttempt(m) /\ InsertRowTwice(m))
  /\ UNCHANGED <<messages, decision, handled, dropped>>

\* Parking throws, though the row may have been stored.
ParkingFails(w, m) ==
  /\ Take(w, m) /\ batch[w].queue = "dlq"
  /\ InsertRow(m) \/ (LastDlqAttempt(m) /\ InsertRowTwice(m)) \/ UNCHANGED rows
  /\ IF LastDlqAttempt(m) THEN Drop(w, m) ELSE Retry(w, m) /\ UNCHANGED dropped
  /\ UNCHANGED <<messages, decision, handled>>

-----------------------------------------------------------------------------
(* The administrator *)

Parked == {r \in DOMAIN rows : rows[r].status = "parked"}

FirstPhaseMarks(status) == "mark"   \* a mistake: the row is marked before the copy is sent

FirstPhase(status) == IF status = "replayed" THEN "send" ELSE "mark"

Begin(a, R, status, bulk) ==
  /\ decision[a] = NoDecision /\ R # {}
  /\ decision' = [decision EXCEPT ![a] = [phase |-> FirstPhase(status), rows |-> R,
                                         status |-> status, bulk |-> bulk]]
  /\ UNCHANGED <<messages, batch, rows, handled, dropped>>

\* POST /dlq/:id/replay and DELETE /dlq/:id: answered 409 unless the row is parked.
DecideOne(a, r, status) == r \in Parked /\ Begin(a, {r}, status, FALSE)

\* POST /dlq/bulk, one round of its loop: selected rows or all of them.
DecideBulk(a, R, status) == R \subseteq Parked /\ Begin(a, R, status, TRUE)

\* Copies of the bodies of rows R, as QUEUE_FEDERATION gets them; in which order they
\* come is of no consequence, for a consumer may be handed any of them.
Copies(R) ==
  LET order == SetToSeq(R) IN
  [i \in DOMAIN order |-> [place |-> "federation", attempts |-> 0, body |-> rows[order[i]].body]]

SendCopies(a) ==
  /\ decision[a].phase = "send"
  /\ Len(messages) + Cardinality(decision[a].rows) <= MaxMessages
  /\ messages' = messages \o Copies(decision[a].rows)
  /\ decision' = [decision EXCEPT ![a].phase = "mark"]
  /\ UNCHANGED <<batch, rows, handled, dropped>>

\* markDlqParkedBulk compares the status again, markDlqParked does not.
Mark(a) ==
  LET d == decision[a] IN
  /\ d.phase = "mark"
  /\ rows' = [r \in DOMAIN rows |->
                IF r \in d.rows /\ (d.bulk => r \in Parked)
                THEN [rows[r] EXCEPT !.status = d.status] ELSE rows[r]]
  /\ decision' = [decision EXCEPT ![a] = NoDecision]
  /\ UNCHANGED <<messages, batch, handled, dropped>>

\* The queue or the database throws and the request ends.
Abandon(a) ==
  /\ decision[a] # NoDecision
  /\ decision' = [decision EXCEPT ![a] = NoDecision]
  /\ UNCHANGED <<messages, batch, rows, handled, dropped>>

-----------------------------------------------------------------------------
(* The specification *)

QueueStep ==
  \/ \E q \in {"federation", "internal"} : Send(q)
  \/ \E w \in Consumers, q \in {"federation", "internal", "dlq"} :
       \E M \in SUBSET {m \in Ids : messages[m].place = q} : Receive(w, q, M)
  \/ \E w \in Consumers : FinishBatch(w) \/ Crash(w)

ConsumerStep(w) ==
  \E m \in batch[w].todo :
    \/ Process(w, m) \/ Defer(w, m) \/ FailFederation(w, m) \/ FailInternal(w, m)
    \/ Park(w, m) \/ ParkingFails(w, m)

AdminStep(a) ==
  \/ \E status \in {"replayed", "discarded"} :
       \/ \E r \in Parked : DecideOne(a, r, status)
       \/ \E R \in SUBSET Parked : DecideBulk(a, R, status)
  \/ SendCopies(a) \/ Mark(a) \/ Abandon(a)

Next == QueueStep \/ (\E w \in Consumers : ConsumerStep(w)) \/ \E a \in Admins : AdminStep(a)

Spec == Init /\ [][Next]_vars

-----------------------------------------------------------------------------
(* Properties *)

\* Every variable has its type: no message is delivered more often than its queue
\* allows, and a row that is parked has the body it was parked for.
TypeOK ==
  /\ Len(messages) <= MaxMessages /\ Len(rows) <= MaxRows
  /\ \A m \in Ids : /\ messages[m].place \in {"federation", "internal", "dlq", "batch", "gone"}
                    /\ messages[m].attempts \in 0 .. Max({FederationRetries, InternalRetries, DlqRetries}) + 1
                    /\ Body(m) \in 1 .. m
  /\ batch \in [Consumers -> [queue : {"none", "federation", "internal", "dlq"},
                             todo : SUBSET Ids, acked : SUBSET Ids, retried : SUBSET Ids]]
  /\ \A r \in DOMAIN rows : /\ rows[r].status \in {"parked", "replayed", "discarded"}
                             /\ rows[r].body \in Ids
  /\ decision \in [Admins -> [phase : {"none", "send", "mark"}, rows : SUBSET DOMAIN rows,
                              status : {"parked", "replayed", "discarded"}, bulk : BOOLEAN]]
  /\ handled \subseteq Ids /\ dropped \subseteq Ids

Waiting(b) == \E m \in Ids : Body(m) = b /\ messages[m].place # "gone"
Kept(b) == \E r \in DOMAIN rows : rows[r].body = b /\ rows[r].status # "replayed"

\* No message disappears without a trace: it was processed, is still in a queue or
\* with a consumer, waits in (or was discarded from) the table, or was given up
\* with a line in the log.
NothingLost == \A m \in Ids : LET b == Body(m) IN
                 b \in handled \cup dropped \/ Waiting(b) \/ Kept(b)

\* A row that says replayed tells the truth: for each one a copy of its body was
\* sent, whatever failed between sending and marking.
ReplayedWereSent ==
  \A b \in Ids :
    Cardinality({r \in DOMAIN rows : rows[r] = [status |-> "replayed", body |-> b]})
      <= Cardinality({m \in Ids : m # b /\ Body(m) = b})
================================================================================
