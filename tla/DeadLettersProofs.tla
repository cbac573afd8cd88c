--------------------------- MODULE DeadLettersProofs ---------------------------
(***************************************************************************)
(* Proofs about DeadLetters, for any consumers, administrators, retries    *)
(* and bounds: no message is delivered more often than its queue allows,   *)
(* no row claims a replay that was not sent, and no message disappears     *)
(* without a trace.                                                        *)
(***************************************************************************)
EXTENDS DeadLetters, FiniteSetTheorems, SequenceTheorems, TLAPS

Queues == {"federation", "internal", "dlq"}

Message == [place : Queues \cup {"batch", "gone"}, attempts : Nat, body : Nat]
Row     == [status : {"parked", "replayed", "discarded"}, body : Nat]

Batches(I) == [queue : {"none"} \cup Queues, todo : SUBSET I, acked : SUBSET I, retried : SUBSET I]
Decisions(R) == [phase : {"none", "send", "mark"}, rows : SUBSET R,
                 status : {"parked", "replayed", "discarded"}, bulk : BOOLEAN]

Longest == Max({FederationRetries, InternalRetries, DlqRetries})

\* A message that waits may be delivered once more; the first with a body is its own.
Sound(m) ==
  /\ messages[m].attempts <= Longest + 1
  /\ messages[m].place \in Queues => messages[m].attempts <= MaxRetries(messages[m].place)
  /\ Body(m) \in 1 .. m
  /\ Body(Body(m)) = Body(m)

\* What consumer w holds it holds alone, and what it returns is delivered again.
Held(w) == batch[w].todo \cup batch[w].acked \cup batch[w].retried

Holding(w) ==
  /\ batch[w].queue = "none" => Held(w) = {}
  /\ \A m \in Held(w) : /\ messages[m].place = "batch"
                        /\ messages[m].attempts <= MaxRetries(batch[w].queue) + 1
  /\ batch[w].todo \cap (batch[w].acked \cup batch[w].retried) = {}
  /\ batch[w].acked \cap batch[w].retried = {}
  /\ batch[w].queue # "federation" =>
       \A m \in batch[w].retried : messages[m].attempts <= MaxRetries(batch[w].queue)

Apart == \A v, w \in Consumers : v # w => Held(v) \cap Held(w) = {}

Types ==
  /\ messages \in Seq(Message) /\ Len(messages) <= MaxMessages
  /\ rows \in Seq(Row) /\ Len(rows) <= MaxRows
  /\ batch \in [Consumers -> Batches(Ids)]
  /\ decision \in [Admins -> Decisions(DOMAIN rows)]
  /\ handled \subseteq Ids /\ dropped \subseteq Ids

MessagesOK == \A m \in Ids : Sound(m)
RowsOK == \A r \in DOMAIN rows : rows[r].body \in Ids /\ Body(rows[r].body) = rows[r].body
BatchesOK == Apart /\ \A w \in Consumers : Holding(w)

Inv == Types /\ MessagesOK /\ RowsOK /\ BatchesOK

-----------------------------------------------------------------------------
(* Helpers *)

LEMMA LongestIs ==
  /\ Longest \in Nat
  /\ \A q \in Queues : MaxRetries(q) \in Nat /\ MaxRetries(q) <= Longest
<1>1. /\ FederationRetries \in Nat /\ InternalRetries \in Nat /\ DlqRetries \in Nat
  BY ConfigAssumption
<1> DEFINE S == {FederationRetries, InternalRetries, DlqRetries}
<1>2. \E x \in S : \A y \in S : x >= y
  <2>1. CASE FederationRetries >= InternalRetries /\ FederationRetries >= DlqRetries
    BY <1>1, <2>1
  <2>2. CASE InternalRetries >= FederationRetries /\ InternalRetries >= DlqRetries
    BY <1>1, <2>2
  <2>3. CASE DlqRetries >= FederationRetries /\ DlqRetries >= InternalRetries
    BY <1>1, <2>3
  <2> QED
    BY <1>1, <2>1, <2>2, <2>3
<1>3. Longest \in S /\ \A y \in S : Longest >= y
  <2> HIDE DEF S
  <2>1. Max(S) \in S /\ \A y \in S : Max(S) >= y
    BY <1>2 DEF Max
  <2> QED
    BY <2>1 DEF S, Longest
<1> QED
  BY <1>1, <1>3 DEF MaxRetries, Queues

LEMMA TypesImply == Inv => TypeOK
<1> SUFFICES ASSUME Inv
             PROVE  TypeOK
  OBVIOUS
<1>1. \A m \in Ids : /\ messages[m].place \in {"federation", "internal", "dlq", "batch", "gone"}
                     /\ messages[m].attempts \in 0 .. Longest + 1
                     /\ Body(m) \in 1 .. m
  <2> TAKE m \in Ids
  <2>1. messages[m] \in Message
    BY DEF Inv, Types, Ids
  <2> QED
    BY <2>1, LongestIs DEF Inv, MessagesOK, Sound, Message, Queues
<1>2. \A r \in DOMAIN rows : /\ rows[r].status \in {"parked", "replayed", "discarded"}
                             /\ rows[r].body \in Ids
  <2> TAKE r \in DOMAIN rows
  <2>1. rows[r] \in Row
    BY DEF Inv, Types
  <2> QED
    BY <2>1 DEF Inv, RowsOK, Row
<1>3. /\ batch \in [Consumers -> [queue : {"none", "federation", "internal", "dlq"},
                                  todo : SUBSET Ids, acked : SUBSET Ids, retried : SUBSET Ids]]
      /\ decision \in [Admins -> [phase : {"none", "send", "mark"}, rows : SUBSET DOMAIN rows,
                                  status : {"parked", "replayed", "discarded"}, bulk : BOOLEAN]]
  <2>1. {"none"} \cup Queues = {"none", "federation", "internal", "dlq"}
    BY DEF Queues
  <2> QED
    BY <2>1 DEF Inv, Types, Batches, Decisions
<1>4. /\ Len(messages) <= MaxMessages /\ Len(rows) <= MaxRows
      /\ handled \subseteq Ids /\ dropped \subseteq Ids
  BY DEF Inv, Types
<1> QED
  BY <1>1, <1>2, <1>3, <1>4 DEF TypeOK, Longest

LEMMA InitInv == Init => Inv
<1> SUFFICES ASSUME Init
             PROVE  Inv
  OBVIOUS
<1>1. messages = <<>> /\ rows = <<>> /\ Ids = {} /\ DOMAIN rows = {}
  BY DEF Init, Ids
<1>2. Types
  BY <1>1, BoundAssumption DEF Init, Types, Batches, Decisions, NoBatch, NoDecision
<1>3. MessagesOK /\ RowsOK
  BY <1>1 DEF MessagesOK, RowsOK
<1>4. BatchesOK
  BY DEF Init, NoBatch, BatchesOK, Apart, Holding, Held
<1> QED
  BY <1>2, <1>3, <1>4 DEF Inv

-----------------------------------------------------------------------------
(* The queues *)

LEMMA Facts ==
  ASSUME Inv
  PROVE  /\ Ids = 1 .. Len(messages) /\ Len(messages) \in Nat
         /\ DOMAIN rows = 1 .. Len(rows) /\ Len(rows) \in Nat
         /\ \A m \in Ids : messages[m] \in Message
         /\ \A r \in DOMAIN rows : rows[r] \in Row
BY DEF Inv, Types, Ids

LEMMA HeldType ==
  ASSUME Inv, NEW w \in Consumers
  PROVE  /\ batch[w] \in Batches(Ids) /\ Held(w) \subseteq Ids
         /\ Holding(w) /\ (Held(w) # {} => batch[w].queue \in Queues)
<1>1. batch[w] \in Batches(Ids)
  BY DEF Inv, Types
<1>2. Holding(w)
  BY DEF Inv, BatchesOK
<1> QED
  BY <1>1, <1>2 DEF Batches, Held, Holding

\* Messages move, and keep their bodies.
LEMMA MovedInv ==
  ASSUME Inv, messages' \in [Ids -> Message],
         \A m \in Ids : /\ messages'[m].body = messages[m].body
                        /\ messages'[m].attempts <= Longest + 1
                        /\ messages'[m].place \in Queues =>
                             messages'[m].attempts <= MaxRetries(messages'[m].place),
         batch' \in [Consumers -> Batches(Ids)], BatchesOK',
         UNCHANGED <<rows, decision, handled, dropped>>
  PROVE  Inv'
<1>1. Len(messages) \in Nat /\ Ids = 1 .. Len(messages)
  BY Facts
<1>2. messages' \in Seq(Message) /\ Len(messages') = Len(messages) /\ Ids' = Ids
  BY <1>1 DEF Ids
<1>3. Types'
  BY <1>2 DEF Inv, Types
<1>4. \A m \in Ids : Body(m)' = Body(m)
  BY DEF Body
<1>5. MessagesOK'
  <2> SUFFICES ASSUME NEW m \in Ids
               PROVE  Sound(m)'
    BY <1>2 DEF MessagesOK
  <2>1. Body(m) \in 1 .. m /\ Body(Body(m)) = Body(m)
    BY DEF Inv, MessagesOK, Sound
  <2>2. Body(m) \in Ids
    BY <1>1, <2>1
  <2>3. /\ Body(m)' = Body(m) /\ Body(Body(m))' = Body(Body(m))
        /\ (Body(m) \in 1 .. m)' /\ (Body(Body(m)) = Body(m))'
    BY <1>4, <2>1, <2>2 DEF Body
  <2> QED
    BY <2>3 DEF Sound, MaxRetries, Longest
<1>6. RowsOK'
  BY <1>2, <1>4 DEF Inv, RowsOK
<1> QED
  BY <1>3, <1>5, <1>6 DEF Inv

LEMMA HandedOver ==
  ASSUME NEW x \in Message
  PROVE  /\ [x EXCEPT !.place = "batch", !.attempts = @ + 1] \in Message
         /\ [x EXCEPT !.place = "batch", !.attempts = @ + 1].place = "batch"
         /\ [x EXCEPT !.place = "batch", !.attempts = @ + 1].attempts = x.attempts + 1
         /\ [x EXCEPT !.place = "batch", !.attempts = @ + 1].body = x.body
<1>1. x.attempts + 1 \in Nat
  BY DEF Message
<1> QED
  BY <1>1 DEF Message

LEMMA ReceiveInv ==
  ASSUME Inv, NEW w \in Consumers, NEW q \in Queues,
         NEW M \in SUBSET {m \in Ids : messages[m].place = q}, Receive(w, q, M)
  PROVE  Inv'
<1>1. /\ batch[w] = NoBatch
      /\ batch' = [batch EXCEPT ![w] = [NoBatch EXCEPT !.queue = q, !.todo = M]]
      /\ messages' = [m \in Ids |-> IF m \in M
                                    THEN [messages[m] EXCEPT !.place = "batch", !.attempts = @ + 1]
                                    ELSE messages[m]]
      /\ UNCHANGED <<rows, decision, handled, dropped>>
  BY DEF Receive
<1>2. ASSUME NEW m \in Ids
      PROVE  /\ messages'[m] \in Message
             /\ messages'[m].body = messages[m].body
             /\ messages'[m].attempts <= Longest + 1
             /\ messages'[m].place \in Queues =>
                  messages'[m].attempts <= MaxRetries(messages'[m].place)
             /\ m \in M => /\ messages'[m].place = "batch"
                           /\ messages'[m].attempts <= MaxRetries(q) + 1
             /\ m \notin M => messages'[m] = messages[m]
  <2>1. messages[m] \in Message /\ Sound(m)
    BY Facts DEF Inv, MessagesOK
  <2>2. CASE m \in M
    <3>1. messages'[m] = [messages[m] EXCEPT !.place = "batch", !.attempts = @ + 1]
      BY <1>1, <2>2
    <3>2. /\ messages'[m].place = "batch" /\ messages'[m].attempts = messages[m].attempts + 1
          /\ messages'[m].body = messages[m].body /\ messages'[m] \in Message
      BY <2>1, <3>1, HandedOver
    <3>3. messages[m].attempts <= MaxRetries(q) /\ messages[m].attempts \in Nat
      BY <2>1, <2>2 DEF Sound, Message
    <3> QED
      BY <2>2, <3>2, <3>3, LongestIs DEF Queues
  <2>3. CASE m \notin M
    BY <1>1, <2>1, <2>3 DEF Sound
  <2> QED
    BY <2>2, <2>3
<1>3. messages' \in [Ids -> Message]
  BY <1>1, <1>2
<1>4. /\ batch' \in [Consumers -> Batches(Ids)]
      /\ \A v \in Consumers : v # w => batch'[v] = batch[v]
      /\ batch'[w].queue = q /\ batch'[w].todo = M
      /\ batch'[w].acked = {} /\ batch'[w].retried = {}
  <2> DEFINE x == [NoBatch EXCEPT !.queue = q, !.todo = M]
  <2>1. /\ x \in Batches(Ids) /\ x.queue = q /\ x.todo = M
        /\ x.acked = {} /\ x.retried = {}
    BY DEF NoBatch, Batches
  <2>2. batch' = [batch EXCEPT ![w] = x]
    BY <1>1
  <2> HIDE DEF x
  <2> QED
    BY <2>1, <2>2 DEF Inv, Types
<1>5. Held(w)' = M /\ \A v \in Consumers : v # w => Held(v)' = Held(v)
  BY <1>4 DEF Held
<1>6. ASSUME NEW v \in Consumers, v # w
      PROVE  Held(v) \cap M = {} /\ Holding(v)'
  <2>1. Held(v) \subseteq Ids /\ Holding(v)
    BY HeldType
  <2>2. Held(v) \cap M = {}
    BY <2>1 DEF Holding, Queues
  <2>3. \A m \in Held(v) : messages'[m] = messages[m]
    BY <1>2, <2>1, <2>2
  <2>4. batch'[v] = batch[v] /\ Held(v)' = Held(v)
    BY <1>4, <1>5, <1>6
  <2>5. batch[v].retried \subseteq Held(v)
    BY DEF Held
  <2> QED
    BY <2>1, <2>2, <2>3, <2>4, <2>5 DEF Holding, MaxRetries
<1>7. Holding(w)'
  BY <1>2, <1>4, <1>5 DEF Holding, Queues, MaxRetries
<1>8. BatchesOK'
  BY <1>5, <1>6, <1>7 DEF BatchesOK, Apart, Inv
<1> QED
  BY <1>1, <1>2, <1>3, <1>4, <1>8, MovedInv

\* A message that goes back is delivered again, unless its retries are used up.
LEMMA GoingBack ==
  ASSUME NEW x \in Message, NEW q \in Queues, x.attempts <= Longest + 1
  PROVE  /\ Redelivered(x, q) \in Message
         /\ Redelivered(x, q).body = x.body
         /\ Redelivered(x, q).attempts <= Longest + 1
         /\ Redelivered(x, q).place \in Queues =>
              Redelivered(x, q).attempts <= MaxRetries(Redelivered(x, q).place)
         /\ Redelivered(x, q).place # "batch"
         /\ q = "federation" \/ x.attempts <= MaxRetries(q) => Redelivered(x, q).place # "gone"
<1>1. /\ x.attempts \in Nat /\ MaxRetries(q) \in Nat /\ MaxRetries("dlq") \in Nat
      /\ Longest \in Nat
  BY LongestIs DEF Message, Queues
<1>2. CASE x.attempts <= MaxRetries(q)
  <2>1. Redelivered(x, q) = [x EXCEPT !.place = q]
    BY <1>2 DEF Redelivered
  <2>2. /\ [x EXCEPT !.place = q] \in Message
        /\ [x EXCEPT !.place = q].place = q /\ [x EXCEPT !.place = q].body = x.body
        /\ [x EXCEPT !.place = q].attempts = x.attempts
    BY DEF Message
  <2> QED
    BY <1>2, <2>1, <2>2 DEF Queues
<1>3. CASE ~(x.attempts <= MaxRetries(q)) /\ q = "federation"
  <2>1. Redelivered(x, q) = [x EXCEPT !.place = "dlq", !.attempts = 0]
    BY <1>3 DEF Redelivered
  <2>2. /\ [x EXCEPT !.place = "dlq", !.attempts = 0] \in Message
        /\ [x EXCEPT !.place = "dlq", !.attempts = 0].place = "dlq"
        /\ [x EXCEPT !.place = "dlq", !.attempts = 0].body = x.body
        /\ [x EXCEPT !.place = "dlq", !.attempts = 0].attempts = 0
    BY DEF Message, Queues
  <2> QED
    BY <1>1, <2>1, <2>2
<1>4. CASE ~(x.attempts <= MaxRetries(q)) /\ q # "federation"
  <2>1. Redelivered(x, q) = [x EXCEPT !.place = "gone"]
    BY <1>4 DEF Redelivered
  <2>2. /\ [x EXCEPT !.place = "gone"] \in Message
        /\ [x EXCEPT !.place = "gone"].place = "gone"
        /\ [x EXCEPT !.place = "gone"].body = x.body
        /\ [x EXCEPT !.place = "gone"].attempts = x.attempts
    BY DEF Message
  <2> QED
    BY <1>4, <2>1, <2>2 DEF Queues
<1> QED
  BY <1>2, <1>3, <1>4

LEMMA SettleInv ==
  ASSUME Inv, NEW w \in Consumers, batch[w] # NoBatch,
         NEW back \in SUBSET Held(w), NEW done, back \cup done = Held(w), Settle(w, back, done)
  PROVE  Inv'
<1>1. /\ messages' = [m \in Ids |-> IF m \in back THEN Redelivered(messages[m], batch[w].queue)
                                    ELSE IF m \in done THEN [messages[m] EXCEPT !.place = "gone"]
                                    ELSE messages[m]]
      /\ batch' = [batch EXCEPT ![w] = NoBatch]
      /\ UNCHANGED <<rows, decision, handled, dropped>>
  BY DEF Settle
<1>2. Held(w) \subseteq Ids /\ (Held(w) # {} => batch[w].queue \in Queues)
  BY HeldType
<1>3. ASSUME NEW m \in Ids
      PROVE  /\ messages'[m] \in Message
             /\ messages'[m].body = messages[m].body
             /\ messages'[m].attempts <= Longest + 1
             /\ messages'[m].place \in Queues =>
                  messages'[m].attempts <= MaxRetries(messages'[m].place)
             /\ m \notin Held(w) => messages'[m] = messages[m]
  <2>1. messages[m] \in Message /\ Sound(m)
    BY Facts DEF Inv, MessagesOK
  <2>2. CASE m \in back
    <3>1. messages'[m] = Redelivered(messages[m], batch[w].queue) /\ batch[w].queue \in Queues
      BY <1>1, <1>2, <2>2
    <3> QED
      BY <2>1, <2>2, <3>1, GoingBack DEF Sound
  <2>3. CASE m \notin back /\ m \in done
    <3>1. messages'[m] = [messages[m] EXCEPT !.place = "gone"]
      BY <1>1, <2>3
    <3>2. /\ messages'[m].place = "gone" /\ messages'[m].attempts = messages[m].attempts
          /\ messages'[m].body = messages[m].body /\ messages'[m] \in Message
      BY <2>1, <3>1 DEF Message
    <3> QED
      BY <2>1, <2>3, <3>2 DEF Sound, Queues
  <2>4. CASE m \notin back /\ m \notin done
    BY <1>1, <2>1, <2>4 DEF Sound
  <2> QED
    BY <2>2, <2>3, <2>4
<1>4. messages' \in [Ids -> Message]
  BY <1>1, <1>3
<1>5. /\ batch' \in [Consumers -> Batches(Ids)]
      /\ \A v \in Consumers : v # w => batch'[v] = batch[v]
      /\ batch'[w] = NoBatch
  BY <1>1 DEF Inv, Types, Batches, NoBatch
<1>6. Held(w)' = {} /\ \A v \in Consumers : v # w => Held(v)' = Held(v)
  BY <1>5 DEF Held, NoBatch
<1>7. ASSUME NEW v \in Consumers, v # w
      PROVE  Holding(v)'
  <2>1. Held(v) \subseteq Ids /\ Holding(v) /\ Held(v) \cap Held(w) = {}
    BY <1>7, HeldType DEF Inv, BatchesOK, Apart
  <2>3. \A m \in Held(v) : messages'[m] = messages[m]
    BY <1>3, <2>1
  <2>4. batch'[v] = batch[v] /\ Held(v)' = Held(v)
    BY <1>5, <1>6, <1>7
  <2>5. batch[v].retried \subseteq Held(v)
    BY DEF Held
  <2> QED
    BY <2>1, <2>3, <2>4, <2>5 DEF Holding, MaxRetries
<1>8. Holding(w)'
  BY <1>5, <1>6 DEF Holding, NoBatch
<1>9. BatchesOK'
  BY <1>6, <1>7, <1>8 DEF BatchesOK, Apart, Inv
<1> QED
  BY <1>1, <1>3, <1>4, <1>5, <1>9, MovedInv

LEMMA FinishBatchInv ==
  ASSUME Inv, NEW w \in Consumers, FinishBatch(w)
  PROVE  Inv'
<1>1. batch[w].retried \in SUBSET Held(w) /\ batch[w].retried \cup batch[w].acked = Held(w)
  BY DEF FinishBatch, Held
<1> QED
  BY <1>1, SettleInv DEF FinishBatch

LEMMA CrashInv ==
  ASSUME Inv, NEW w \in Consumers, Crash(w)
  PROVE  Inv'
<1>1. PICK lost \in {{}, batch[w].acked} :
        Settle(w, batch[w].todo \cup batch[w].retried \cup lost, batch[w].acked \ lost)
  BY DEF Crash
<1> DEFINE back == batch[w].todo \cup batch[w].retried \cup lost
<1>2. back \in SUBSET Held(w) /\ back \cup (batch[w].acked \ lost) = Held(w)
  BY DEF Held
<1> QED
  BY <1>1, <1>2, SettleInv DEF Crash

-----------------------------------------------------------------------------
(* The consumers *)

\* At most rows for message m are added.
Grown(m) ==
  /\ rows' \in Seq(Row) /\ Len(rows') <= MaxRows /\ DOMAIN rows \subseteq DOMAIN rows'
  /\ \A r \in DOMAIN rows : rows'[r] = rows[r]
  /\ \A r \in DOMAIN rows' \ DOMAIN rows : rows'[r] = ParkedRow(m)

LEMMA RowsGrow ==
  ASSUME Inv, NEW m \in Ids
  PROVE  /\ UNCHANGED rows => Grown(m)
         /\ InsertRow(m) \/ InsertRowTwice(m) =>
              Grown(m) /\ DOMAIN rows' \ DOMAIN rows # {}
<1>1. /\ rows \in Seq(Row) /\ Len(rows) \in Nat /\ Len(rows) <= MaxRows /\ MaxRows \in Nat
      /\ DOMAIN rows = 1 .. Len(rows)
  BY BoundAssumption DEF Inv, Types
<1>2. ParkedRow(m) \in Row
  <2>1. Body(m) \in Nat
    BY Facts DEF Body, Message
  <2> QED
    BY <2>1 DEF ParkedRow, Row
<1>3. UNCHANGED rows => Grown(m)
  BY <1>1 DEF Grown
<1>4. ASSUME InsertRow(m)
      PROVE  Grown(m) /\ DOMAIN rows' \ DOMAIN rows # {}
  <2>1. rows' = Append(rows, ParkedRow(m)) /\ Len(rows) + 1 <= MaxRows
    BY <1>1, <1>4 DEF InsertRow
  <2>2. /\ rows' \in Seq(Row) /\ Len(rows') = Len(rows) + 1
        /\ DOMAIN rows' = 1 .. Len(rows) + 1
        /\ \A r \in 1 .. Len(rows) : rows'[r] = rows[r]
        /\ rows'[Len(rows) + 1] = ParkedRow(m)
    BY <1>1, <1>2, <2>1
  <2> QED
    BY <1>1, <2>1, <2>2 DEF Grown
<1>5. ASSUME InsertRowTwice(m)
      PROVE  Grown(m) /\ DOMAIN rows' \ DOMAIN rows # {}
  <2> DEFINE two == <<ParkedRow(m), ParkedRow(m)>>
  <2>1. rows' = rows \o two /\ Len(rows) + 2 <= MaxRows
    BY <1>1, <1>5 DEF InsertRowTwice
  <2>2. two \in Seq(Row) /\ Len(two) = 2 /\ two[1] = ParkedRow(m) /\ two[2] = ParkedRow(m)
    BY <1>2
  <2> HIDE DEF two
  <2>3. /\ rows' \in Seq(Row) /\ Len(rows') = Len(rows) + 2
        /\ DOMAIN rows' = 1 .. Len(rows) + 2
        /\ \A r \in 1 .. Len(rows) : rows'[r] = rows[r]
        /\ rows'[Len(rows) + 1] = two[1] /\ rows'[Len(rows) + 2] = two[2]
    <3>1. /\ rows' \in Seq(Row) /\ Len(rows') = Len(rows) + Len(two)
          /\ \A i \in 1 .. Len(rows) + Len(two) :
               rows'[i] = IF i <= Len(rows) THEN rows[i] ELSE two[i - Len(rows)]
      BY <1>1, <2>1, <2>2, ConcatProperties
    <3>2. /\ \A r \in 1 .. Len(rows) : r \in 1 .. Len(rows) + 2 /\ r <= Len(rows)
          /\ Len(rows) + 1 \in 1 .. Len(rows) + 2 /\ Len(rows) + 2 \in 1 .. Len(rows) + 2
          /\ ~(Len(rows) + 1 <= Len(rows)) /\ ~(Len(rows) + 2 <= Len(rows))
          /\ Len(rows) + 1 - Len(rows) = 1 /\ Len(rows) + 2 - Len(rows) = 2
      BY <1>1
    <3> QED
      BY <2>2, <3>1, <3>2
  <2>4. \A r \in DOMAIN rows' \ DOMAIN rows : r = Len(rows) + 1 \/ r = Len(rows) + 2
    BY <1>1, <2>3
  <2>5. Len(rows) + 1 \in DOMAIN rows' \ DOMAIN rows
    BY <1>1, <2>3
  <2> QED
    BY <1>1, <2>1, <2>2, <2>3, <2>4, <2>5 DEF Grown
<1> QED
  BY <1>3, <1>4, <1>5

\* What every step of a consumer does with a message m of its batch: it acknowledges
\* it, and then it was processed, given up or parked, or it returns it early enough.
Decides(w, m) ==
  /\ m \in batch[w].todo
  /\ UNCHANGED <<messages, decision>>
  /\ Grown(m)
  /\ handled \subseteq handled' /\ handled' \subseteq handled \cup {Body(m)}
  /\ dropped \subseteq dropped' /\ dropped' \subseteq dropped \cup {Body(m)}
  /\ \/ /\ Ack(w, m)
        /\ Body(m) \in handled' \cup dropped' \/ DOMAIN rows' \ DOMAIN rows # {}
     \/ /\ Retry(w, m)
        /\ batch[w].queue # "federation" => messages[m].attempts <= MaxRetries(batch[w].queue)

LEMMA ConsumerDecides ==
  ASSUME Inv, NEW w \in Consumers, NEW m \in batch[w].todo,
         \/ Process(w, m) \/ Defer(w, m) \/ FailFederation(w, m) \/ FailInternal(w, m)
         \/ Park(w, m) \/ ParkingFails(w, m)
  PROVE  Decides(w, m)
<1>1. /\ m \in Held(w) /\ m \in Ids /\ batch[w].queue \in Queues
  BY HeldType DEF Held
<1>2. messages[m].attempts \in Nat
  BY <1>1, Facts DEF Message
<1>3. /\ INTERNAL_MAX_ATTEMPTS = InternalRetries + 1 /\ DLQ_MAX_ATTEMPTS = DlqRetries + 1
      /\ InternalRetries \in Nat /\ DlqRetries \in Nat
  BY ConfigAssumption
<1>4. UNCHANGED <<messages, decision>>
  BY DEF Process, Defer, FailFederation, FailInternal, Park, ParkingFails
<1>5. /\ UNCHANGED rows => Grown(m)
      /\ InsertRow(m) \/ InsertRowTwice(m) => Grown(m) /\ DOMAIN rows' \ DOMAIN rows # {}
  BY <1>1, RowsGrow
<1>6. CASE Process(w, m)
  BY <1>4, <1>5, <1>6 DEF Process, Decides
<1>7. CASE Defer(w, m)
  <2>1. batch[w].queue # "federation" => messages[m].attempts <= MaxRetries(batch[w].queue)
    BY <1>1, <1>2, <1>3, <1>7 DEF Defer, MayDefer, MaxRetries, Queues
  <2> QED
    BY <1>4, <1>5, <1>7, <2>1 DEF Defer, Decides
<1>8. CASE FailFederation(w, m)
  BY <1>4, <1>5, <1>8 DEF FailFederation, Decides
<1>9. CASE FailInternal(w, m)
  <2>1. CASE LastInternalAttempt(m)
    BY <1>4, <1>5, <1>9, <2>1 DEF FailInternal, Drop, Decides
  <2>2. CASE ~LastInternalAttempt(m)
    <3>1. messages[m].attempts <= MaxRetries(batch[w].queue)
      BY <1>2, <1>3, <1>9, <2>2 DEF FailInternal, LastInternalAttempt, MaxRetries
    <3> QED
      BY <1>4, <1>5, <1>9, <2>2, <3>1 DEF FailInternal, Decides
  <2> QED
    BY <2>1, <2>2
<1>10. CASE Park(w, m)
  BY <1>4, <1>5, <1>10 DEF Park, Decides
<1>11. CASE ParkingFails(w, m)
  <2>1. Grown(m)
    BY <1>5, <1>11 DEF ParkingFails
  <2>2. CASE LastDlqAttempt(m)
    BY <1>4, <1>11, <2>1, <2>2 DEF ParkingFails, Drop, Decides
  <2>3. CASE ~LastDlqAttempt(m)
    <3>1. messages[m].attempts <= MaxRetries(batch[w].queue)
      BY <1>2, <1>3, <1>11, <2>3 DEF ParkingFails, LastDlqAttempt, MaxRetries
    <3> QED
      BY <1>4, <1>11, <2>1, <2>3, <3>1 DEF ParkingFails, Decides
  <2> QED
    BY <2>2, <2>3
<1> QED
  BY <1>6, <1>7, <1>8, <1>9, <1>10, <1>11

LEMMA DecidesBatch ==
  ASSUME Inv, NEW w \in Consumers, NEW m, Decides(w, m)
  PROVE  /\ m \in Ids
         /\ batch' \in [Consumers -> Batches(Ids)]
         /\ \A v \in Consumers : v # w => batch'[v] = batch[v]
         /\ batch'[w].queue = batch[w].queue /\ batch'[w].todo = batch[w].todo \ {m}
         /\ \/ /\ batch'[w].acked = batch[w].acked \cup {m}
               /\ batch'[w].retried = batch[w].retried
               /\ Body(m) \in handled' \cup dropped' \/ DOMAIN rows' \ DOMAIN rows # {}
            \/ /\ batch'[w].acked = batch[w].acked
               /\ batch'[w].retried = batch[w].retried \cup {m}
               /\ batch[w].queue # "federation" =>
                    messages[m].attempts <= MaxRetries(batch[w].queue)
<1>1. batch[w] \in Batches(Ids) /\ m \in batch[w].todo /\ m \in Ids
  BY HeldType DEF Decides, Batches
<1>2. CASE /\ Ack(w, m)
           /\ Body(m) \in handled' \cup dropped' \/ DOMAIN rows' \ DOMAIN rows # {}
  <2> DEFINE x == [batch[w] EXCEPT !.todo = @ \ {m}, !.acked = @ \cup {m}]
  <2>1. /\ x \in Batches(Ids) /\ x.queue = batch[w].queue /\ x.todo = batch[w].todo \ {m}
        /\ x.acked = batch[w].acked \cup {m} /\ x.retried = batch[w].retried
    BY <1>1 DEF Batches
  <2>2. batch' = [batch EXCEPT ![w] = x]
    BY <1>2 DEF Ack
  <2> HIDE DEF x
  <2>3. /\ batch' \in [Consumers -> Batches(Ids)] /\ batch'[w] = x
        /\ \A v \in Consumers : v # w => batch'[v] = batch[v]
    BY <2>1, <2>2 DEF Inv, Types
  <2> QED
    BY <1>1, <1>2, <2>1, <2>3
<1>3. CASE /\ Retry(w, m)
           /\ batch[w].queue # "federation" => messages[m].attempts <= MaxRetries(batch[w].queue)
  <2> DEFINE x == [batch[w] EXCEPT !.todo = @ \ {m}, !.retried = @ \cup {m}]
  <2>1. /\ x \in Batches(Ids) /\ x.queue = batch[w].queue /\ x.todo = batch[w].todo \ {m}
        /\ x.acked = batch[w].acked /\ x.retried = batch[w].retried \cup {m}
    BY <1>1 DEF Batches
  <2>2. batch' = [batch EXCEPT ![w] = x]
    BY <1>3 DEF Retry
  <2> HIDE DEF x
  <2>3. /\ batch' \in [Consumers -> Batches(Ids)] /\ batch'[w] = x
        /\ \A v \in Consumers : v # w => batch'[v] = batch[v]
    BY <2>1, <2>2 DEF Inv, Types
  <2> QED
    BY <1>1, <1>3, <2>1, <2>3
<1> QED
  BY <1>2, <1>3 DEF Decides

LEMMA DecidesInv ==
  ASSUME Inv, NEW w \in Consumers, NEW m, Decides(w, m)
  PROVE  Inv'
<1>1. /\ m \in Ids /\ m \in batch[w].todo
      /\ batch' \in [Consumers -> Batches(Ids)]
      /\ \A v \in Consumers : v # w => batch'[v] = batch[v]
      /\ batch'[w].queue = batch[w].queue /\ batch'[w].todo = batch[w].todo \ {m}
      /\ \/ /\ batch'[w].acked = batch[w].acked \cup {m}
            /\ batch'[w].retried = batch[w].retried
         \/ /\ batch'[w].acked = batch[w].acked
            /\ batch'[w].retried = batch[w].retried \cup {m}
            /\ batch[w].queue # "federation" =>
                 messages[m].attempts <= MaxRetries(batch[w].queue)
  BY DecidesBatch DEF Decides
<1>2. messages' = messages /\ decision' = decision /\ Grown(m)
  BY DEF Decides
<1>3. Ids' = Ids /\ \A i \in Ids : Body(i)' = Body(i)
  BY <1>2 DEF Ids, Body
<1>4. Body(m) \in Ids /\ Body(Body(m)) = Body(m)
  <2>1. Sound(m) /\ Ids = 1 .. Len(messages) /\ Len(messages) \in Nat
    BY <1>1, Facts DEF Inv, MessagesOK
  <2> QED
    BY <1>1, <2>1 DEF Sound
<1>5. Types'
  <2>1. handled' \subseteq Ids /\ dropped' \subseteq Ids
    BY <1>4 DEF Decides, Inv, Types
  <2>2. decision' \in [Admins -> Decisions(DOMAIN rows')]
    <3>1. Decisions(DOMAIN rows) \subseteq Decisions(DOMAIN rows')
      BY <1>2 DEF Grown, Decisions
    <3> QED
      BY <1>2, <3>1 DEF Inv, Types
  <2>3. rows' \in Seq(Row) /\ Len(rows') <= MaxRows
    BY <1>2 DEF Grown
  <2> QED
    BY <1>1, <1>2, <1>3, <2>1, <2>2, <2>3 DEF Inv, Types
<1>6. MessagesOK'
  BY <1>2, <1>3 DEF Inv, MessagesOK, Sound, MaxRetries, Longest, Body
<1>7. RowsOK'
  <2> SUFFICES ASSUME NEW r \in DOMAIN rows'
               PROVE  rows'[r].body \in Ids /\ Body(rows'[r].body) = rows'[r].body
    BY <1>2, <1>3 DEF RowsOK
  <2>1. CASE r \in DOMAIN rows
    BY <1>2, <2>1 DEF Grown, Inv, RowsOK
  <2>2. CASE r \notin DOMAIN rows
    <3>1. rows'[r] = ParkedRow(m)
      BY <1>2, <2>2 DEF Grown
    <3> QED
      BY <1>4, <3>1 DEF ParkedRow
  <2> QED
    BY <2>1, <2>2
<1>8. Held(w)' = Held(w) /\ \A v \in Consumers : v # w => Held(v)' = Held(v)
  BY <1>1 DEF Held
<1>9. Holding(w)
  BY HeldType
<1>10. Holding(w)'
  BY <1>1, <1>2, <1>8, <1>9 DEF Holding, MaxRetries, Held
<1>11. \A v \in Consumers : v # w => Holding(v)'
  BY <1>1, <1>2, <1>8, HeldType DEF Holding, MaxRetries
<1>12. BatchesOK'
  BY <1>8, <1>10, <1>11 DEF BatchesOK, Apart, Inv
<1> QED
  BY <1>5, <1>6, <1>7, <1>12 DEF Inv

-----------------------------------------------------------------------------
(* What is sent, and what an administrator decides *)

\* The messages of s come after those that are there.
Sent(s) == messages' = messages \o s /\ Len(messages) + Len(s) <= MaxMessages

LEMMA SentInv ==
  ASSUME Inv, NEW s \in Seq(Message), Sent(s),
         \A i \in 1 .. Len(s) :
           /\ s[i].place \in Queues /\ s[i].attempts = 0
           /\ \/ s[i].body = Len(messages) + i
              \/ s[i].body \in Ids /\ Body(s[i].body) = s[i].body,
         UNCHANGED <<batch, rows, handled, dropped>>,
         decision' \in [Admins -> Decisions(DOMAIN rows)]
  PROVE  /\ Inv'
         /\ Ids' = 1 .. Len(messages) + Len(s) /\ Ids \subseteq Ids'
         /\ \A m \in Ids : messages'[m] = messages[m]
         /\ \A i \in 1 .. Len(s) : messages'[Len(messages) + i] = s[i]
<1> DEFINE n == Len(messages)
<1>1. /\ messages \in Seq(Message) /\ n \in Nat /\ Ids = 1 .. n /\ Len(s) \in Nat
      /\ rows \in Seq(Row) /\ batch \in [Consumers -> Batches(Ids)]
  BY Facts DEF Inv, Types
<1>2. /\ messages' \in Seq(Message) /\ Len(messages') = n + Len(s)
      /\ \A m \in 1 .. n + Len(s) :
           messages'[m] = IF m <= n THEN messages[m] ELSE s[m - n]
  BY <1>1, ConcatProperties DEF Sent
<1>3. Ids' = 1 .. n + Len(s)
  BY <1>2 DEF Ids
<1>4. Ids \subseteq Ids' /\ \A m \in Ids : messages'[m] = messages[m]
  BY <1>1, <1>2, <1>3
<1>5. \A i \in 1 .. Len(s) : messages'[n + i] = s[i]
  <2> TAKE i \in 1 .. Len(s)
  <2>1. n + i \in 1 .. n + Len(s) /\ ~(n + i <= n) /\ n + i - n = i
    BY <1>1
  <2> QED
    BY <1>2, <2>1
<1> HIDE DEF n
<1>6. \A m \in Ids : Body(m)' = Body(m)
  BY <1>4 DEF Body
<1>7. Types'
  <2>1. Batches(Ids) \subseteq Batches(Ids')
    BY <1>4 DEF Batches
  <2>2. batch' \in [Consumers -> Batches(Ids')]
    BY <1>1, <2>1
  <2>3. handled' \subseteq Ids' /\ dropped' \subseteq Ids'
    BY <1>4 DEF Inv, Types
  <2>4. Len(messages') <= MaxMessages
    BY <1>2 DEF Sent, n
  <2> QED
    BY <1>2, <2>2, <2>3, <2>4 DEF Inv, Types
<1>8. MessagesOK'
  <2> SUFFICES ASSUME NEW m \in Ids'
               PROVE  Sound(m)'
    BY DEF MessagesOK
  <2>1. CASE m \in Ids
    <3>1. Sound(m) /\ Body(m) \in Ids
      BY <1>1, <2>1 DEF Inv, MessagesOK, Sound
    <3>2. Body(m)' = Body(m) /\ Body(Body(m))' = Body(Body(m))
      BY <1>4, <1>6, <2>1, <3>1 DEF Body
    <3> QED
      BY <1>4, <2>1, <3>1, <3>2 DEF Sound, MaxRetries, Longest
  <2>2. CASE m \notin Ids
    <3>1. m \in Nat /\ m - n \in 1 .. Len(s) /\ m = n + (m - n) /\ m > n
      BY <1>1, <1>3, <2>2
    <3>2. PICK i \in 1 .. Len(s) : m = n + i
      BY <3>1
    <3>3. messages'[m] = s[i]
      BY <1>5, <3>2
    <3>4. /\ messages'[m].attempts <= Longest + 1
          /\ messages'[m].place \in Queues =>
               messages'[m].attempts <= MaxRetries(messages'[m].place)
      <4>1. messages'[m].attempts = 0
        BY <3>3
      <4> QED
        BY <4>1, LongestIs
    <3>5. CASE s[i].body = n + i
      <4>1. Body(m)' = m
        BY <3>2, <3>3, <3>5 DEF Body
      <4>2. m \in 1 .. m
        BY <1>1, <3>1
      <4>3. Body(Body(m))' = m
        BY <4>1 DEF Body
      <4> QED
        BY <3>4, <4>1, <4>2, <4>3 DEF Sound, MaxRetries, Longest
    <3>6. CASE s[i].body \in Ids /\ Body(s[i].body) = s[i].body
      <4>1. Body(m)' = s[i].body
        BY <3>3 DEF Body
      <4>2. Body(Body(m))' = s[i].body
        BY <1>6, <3>6, <4>1 DEF Body
      <4>3. s[i].body \in 1 .. m
        BY <1>1, <3>1, <3>6
      <4> QED
        BY <3>4, <4>1, <4>2, <4>3 DEF Sound, MaxRetries, Longest
    <3> QED
      BY <3>5, <3>6 DEF n
  <2> QED
    BY <2>1, <2>2
<1>9. RowsOK'
  BY <1>4, <1>6 DEF Inv, RowsOK
<1>10. BatchesOK'
  <2>1. \A v \in Consumers : Held(v)' = Held(v) /\ batch'[v] = batch[v]
    BY DEF Held
  <2>2. \A v \in Consumers : Holding(v)'
    <3> TAKE v \in Consumers
    <3>1. Held(v) \subseteq Ids /\ Holding(v) /\ batch[v].retried \subseteq Held(v)
      BY HeldType DEF Held
    <3>2. \A m \in Held(v) : messages'[m] = messages[m]
      BY <1>4, <3>1
    <3> QED
      BY <2>1, <3>1, <3>2 DEF Holding, MaxRetries
  <2> QED
    BY <2>1, <2>2 DEF Inv, BatchesOK, Apart
<1>11. Inv'
  BY <1>7, <1>8, <1>9, <1>10 DEF Inv
<1> QED
  BY <1>3, <1>4, <1>5, <1>11 DEF n

LEMMA SendInv ==
  ASSUME Inv, NEW q \in {"federation", "internal"}, Send(q)
  PROVE  Inv'
<1> DEFINE x == [place |-> q, attempts |-> 0, body |-> Len(messages) + 1]
           s == <<x>>
<1>1. Len(messages) \in Nat /\ messages \in Seq(Message)
  BY Facts DEF Inv, Types
<1>2. x \in Message /\ x.place \in Queues /\ x.attempts = 0 /\ x.body = Len(messages) + 1
  BY <1>1 DEF Message, Queues
<1>3. /\ messages' = Append(messages, x) /\ Len(messages) < MaxMessages
      /\ UNCHANGED <<batch, rows, decision, handled, dropped>>
  BY DEF Send
<1> HIDE DEF x
<1>4. s \in Seq(Message) /\ Len(s) = 1 /\ s[1] = x
  BY <1>2
<1>5. messages' = messages \o s
  BY <1>1, <1>2, <1>3, AppendIsConcat
<1>6. Len(messages) + 1 <= MaxMessages
  BY <1>1, <1>3, BoundAssumption
<1> HIDE DEF s
<1>7. Sent(s)
  BY <1>4, <1>5, <1>6 DEF Sent
<1>8. \A i \in 1 .. Len(s) :
        /\ s[i].place \in Queues /\ s[i].attempts = 0
        /\ s[i].body = Len(messages) + i
  BY <1>2, <1>4
<1>9. decision' \in [Admins -> Decisions(DOMAIN rows)]
  BY <1>3 DEF Inv, Types
<1> QED
  BY <1>3, <1>4, <1>7, <1>8, <1>9, SentInv

\* SetToSeq lists a set, each element once.
LEMMA OrderIs ==
  ASSUME NEW R, IsFiniteSet(R)
  PROVE  /\ Cardinality(R) \in Nat
         /\ SetToSeq(R) \in [1 .. Cardinality(R) -> R]
         /\ IsInjective(SetToSeq(R))
         /\ \A r \in R : \E i \in 1 .. Cardinality(R) : SetToSeq(R)[i] = r
<1> DEFINE n == Cardinality(R)
<1>1. n \in Nat /\ \E f \in [1 .. n -> R] : IsInjective(f)
  BY FS_CardinalityType DEF ExistsBijection, Bijection, Injection
<1>2. SetToSeq(R) \in [1 .. n -> R] /\ IsInjective(SetToSeq(R))
  BY <1>1 DEF SetToSeq
<1>3. SetToSeq(R) \in Injection(1 .. n, R)
  BY <1>2 DEF Injection
<1>4. Cardinality(1 .. n) = n
  BY <1>1, FS_Interval
<1>5. SetToSeq(R) \in Surjection(1 .. n, R)
  BY <1>3, <1>4, FS_Injection
<1> QED
  BY <1>1, <1>2, <1>5 DEF Surjection

LEMMA DueFinite ==
  ASSUME Inv, NEW R \in SUBSET DOMAIN rows
  PROVE  IsFiniteSet(R)
<1>1. DOMAIN rows = 1 .. Len(rows) /\ Len(rows) \in Int
  BY Facts
<1>2. IsFiniteSet(DOMAIN rows)
  BY <1>1, FS_Interval
<1> QED
  BY <1>2, FS_Subset

LEMMA CopiesAre ==
  ASSUME Inv, NEW R \in SUBSET DOMAIN rows
  PROVE  /\ Copies(R) \in Seq(Message) /\ Len(Copies(R)) = Cardinality(R)
         /\ Cardinality(R) \in Nat
         /\ \A i \in 1 .. Cardinality(R) :
              /\ Copies(R)[i].place = "federation" /\ Copies(R)[i].attempts = 0
              /\ SetToSeq(R)[i] \in R
              /\ Copies(R)[i].body = rows[SetToSeq(R)[i]].body
<1> DEFINE order == SetToSeq(R)
           n == Cardinality(R)
<1>1. n \in Nat /\ order \in [1 .. n -> R]
  BY DueFinite, OrderIs
<1> HIDE DEF order, n
<1>2. Copies(R) = [i \in 1 .. n |->
                    [place |-> "federation", attempts |-> 0, body |-> rows[order[i]].body]]
  <2>1. DOMAIN order = 1 .. n
    BY <1>1
  <2> QED
    BY <2>1 DEF Copies, order
<1>3. ASSUME NEW i \in 1 .. n
      PROVE  /\ order[i] \in R
             /\ Copies(R)[i] \in Message
             /\ Copies(R)[i].place = "federation" /\ Copies(R)[i].attempts = 0
             /\ Copies(R)[i].body = rows[order[i]].body
  <2>1. order[i] \in R /\ order[i] \in DOMAIN rows
    BY <1>1
  <2>2. rows[order[i]].body \in Nat
    BY <2>1, Facts DEF Row
  <2>3. Copies(R)[i] = [place |-> "federation", attempts |-> 0, body |-> rows[order[i]].body]
    BY <1>2
  <2> QED
    BY <2>1, <2>2, <2>3 DEF Message, Queues
<1>4. Copies(R) \in [1 .. n -> Message]
  BY <1>2, <1>3
<1>5. Copies(R) \in Seq(Message) /\ Len(Copies(R)) = n
  BY <1>1, <1>4
<1> QED
  BY <1>1, <1>3, <1>5 DEF order, n

LEMMA SendCopiesInv ==
  ASSUME Inv, NEW a \in Admins, SendCopies(a)
  PROVE  /\ Inv'
         /\ decision[a].rows \in SUBSET DOMAIN rows
         /\ Ids' = 1 .. Len(messages) + Cardinality(decision[a].rows) /\ Ids \subseteq Ids'
         /\ \A m \in Ids : messages'[m] = messages[m]
         /\ \A i \in 1 .. Cardinality(decision[a].rows) :
              messages'[Len(messages) + i] = Copies(decision[a].rows)[i]
<1> DEFINE R == decision[a].rows
<1>1. R \in SUBSET DOMAIN rows /\ decision[a] \in Decisions(DOMAIN rows)
  BY DEF Inv, Types, Decisions
<1>2. /\ Len(messages) + Cardinality(R) <= MaxMessages
      /\ messages' = messages \o Copies(R)
      /\ decision' = [decision EXCEPT ![a].phase = "mark"]
      /\ UNCHANGED <<batch, rows, handled, dropped>>
  BY DEF SendCopies
<1>3. decision' \in [Admins -> Decisions(DOMAIN rows)]
  <2> DEFINE x == [decision[a] EXCEPT !.phase = "mark"]
  <2>1. x \in Decisions(DOMAIN rows)
    BY <1>1 DEF Decisions
  <2>2. decision' = [decision EXCEPT ![a] = x]
    BY <1>2
  <2> HIDE DEF x
  <2> QED
    BY <2>1, <2>2 DEF Inv, Types
<1> HIDE DEF R
<1>4. /\ Copies(R) \in Seq(Message) /\ Len(Copies(R)) = Cardinality(R)
      /\ \A i \in 1 .. Cardinality(R) :
           /\ Copies(R)[i].place = "federation" /\ Copies(R)[i].attempts = 0
           /\ SetToSeq(R)[i] \in R
           /\ Copies(R)[i].body = rows[SetToSeq(R)[i]].body
  BY <1>1, CopiesAre
<1>5. Sent(Copies(R))
  BY <1>2, <1>4 DEF Sent
<1>6. \A i \in 1 .. Len(Copies(R)) :
        /\ Copies(R)[i].place \in Queues /\ Copies(R)[i].attempts = 0
        /\ Copies(R)[i].body \in Ids /\ Body(Copies(R)[i].body) = Copies(R)[i].body
  <2> TAKE i \in 1 .. Len(Copies(R))
  <2>1. /\ Copies(R)[i].place = "federation" /\ Copies(R)[i].attempts = 0
        /\ SetToSeq(R)[i] \in DOMAIN rows
        /\ Copies(R)[i].body = rows[SetToSeq(R)[i]].body
    BY <1>1, <1>4
  <2> QED
    BY <2>1 DEF Queues, Inv, RowsOK
<1>7. /\ Inv'
      /\ Ids' = 1 .. Len(messages) + Len(Copies(R)) /\ Ids \subseteq Ids'
      /\ \A m \in Ids : messages'[m] = messages[m]
      /\ \A i \in 1 .. Len(Copies(R)) : messages'[Len(messages) + i] = Copies(R)[i]
  BY <1>2, <1>3, <1>4, <1>5, <1>6, SentInv
<1> QED
  BY <1>1, <1>4, <1>7 DEF R

\* An administrator changes no more than the status of rows.
Decided ==
  /\ UNCHANGED <<messages, batch, handled, dropped>>
  /\ rows' \in [DOMAIN rows -> Row]
  /\ \A r \in DOMAIN rows : rows'[r].body = rows[r].body
  /\ decision' \in [Admins -> Decisions(DOMAIN rows)]

LEMMA DecidedInv ==
  ASSUME Inv, Decided
  PROVE  Inv'
<1>1. rows' \in Seq(Row) /\ Len(rows') = Len(rows) /\ DOMAIN rows' = DOMAIN rows
  BY Facts DEF Decided
<1>2. Types'
  BY <1>1 DEF Decided, Inv, Types, Ids
<1>3. MessagesOK'
  BY DEF Decided, Inv, MessagesOK, Sound, MaxRetries, Longest, Body, Ids
<1>4. RowsOK'
  BY <1>1 DEF Decided, Inv, RowsOK, Body, Ids
<1>5. BatchesOK'
  BY DEF Decided, Inv, BatchesOK, Apart, Held, Holding, MaxRetries
<1> QED
  BY <1>2, <1>3, <1>4, <1>5 DEF Inv

Begun(a, R, status) ==
  /\ Decided /\ rows' = rows
  /\ \A c \in Admins : c # a => decision'[c] = decision[c]
  /\ decision'[a].phase = FirstPhase(status) /\ decision'[a].status = status
  /\ decision'[a].rows = R

LEMMA BeginIs ==
  ASSUME Inv, NEW a \in Admins, NEW R \in SUBSET Parked, NEW status \in {"replayed", "discarded"},
         NEW bulk \in BOOLEAN, Begin(a, R, status, bulk)
  PROVE  Begun(a, R, status)
<1> DEFINE x == [phase |-> FirstPhase(status), rows |-> R, status |-> status, bulk |-> bulk]
<1>1. /\ x \in Decisions(DOMAIN rows) /\ x.phase = FirstPhase(status) /\ x.status = status
      /\ x.rows = R
  BY DEF Decisions, FirstPhase, Parked
<1>2. /\ decision' = [decision EXCEPT ![a] = x]
      /\ UNCHANGED <<messages, batch, rows, handled, dropped>>
  BY DEF Begin
<1> HIDE DEF x
<1>3. /\ decision' \in [Admins -> Decisions(DOMAIN rows)]
      /\ \A c \in Admins : c # a => decision'[c] = decision[c]
      /\ decision'[a] = x
  BY <1>1, <1>2 DEF Inv, Types
<1>4. rows \in [DOMAIN rows -> Row]
  BY Facts DEF Inv, Types
<1> QED
  BY <1>1, <1>2, <1>3, <1>4 DEF Decided, Begun

LEMMA EndIs ==
  ASSUME Inv, NEW a \in Admins, decision' = [decision EXCEPT ![a] = NoDecision]
  PROVE  /\ decision' \in [Admins -> Decisions(DOMAIN rows)]
         /\ \A c \in Admins : c # a => decision'[c] = decision[c]
         /\ decision'[a].phase = "none"
<1>1. NoDecision \in Decisions(DOMAIN rows) /\ NoDecision.phase = "none"
  BY DEF NoDecision, Decisions
<1> HIDE DEF NoDecision
<1> QED
  BY <1>1 DEF Inv, Types

LEMMA AbandonIs ==
  ASSUME Inv, NEW a \in Admins, Abandon(a)
  PROVE  Decided /\ rows' = rows
<1>1. rows \in [DOMAIN rows -> Row]
  BY Facts DEF Inv, Types
<1> QED
  BY <1>1, EndIs DEF Abandon, Decided

LEMMA MarkIs ==
  ASSUME Inv, NEW a \in Admins, Mark(a)
  PROVE  /\ Decided
         /\ \A r \in DOMAIN rows :
              \/ rows'[r] = rows[r]
              \/ r \in decision[a].rows /\ rows'[r].status = decision[a].status
         /\ decision[a].phase = "mark"
<1> DEFINE d == decision[a]
<1>1. /\ rows' = [r \in DOMAIN rows |->
                    IF r \in d.rows /\ (d.bulk => r \in Parked)
                    THEN [rows[r] EXCEPT !.status = d.status] ELSE rows[r]]
      /\ decision' = [decision EXCEPT ![a] = NoDecision] /\ d.phase = "mark"
      /\ UNCHANGED <<messages, batch, handled, dropped>>
  BY DEF Mark
<1>2. d.status \in {"parked", "replayed", "discarded"}
  BY DEF Inv, Types, Decisions
<1>3. ASSUME NEW r \in DOMAIN rows
      PROVE  /\ rows'[r] \in Row /\ rows'[r].body = rows[r].body
             /\ \/ rows'[r] = rows[r]
                \/ r \in d.rows /\ rows'[r].status = d.status
  <2>1. rows[r] \in Row
    BY Facts
  <2>2. CASE r \in d.rows /\ (d.bulk => r \in Parked)
    <3>1. rows'[r] = [rows[r] EXCEPT !.status = d.status]
      BY <1>1, <2>2
    <3>2. rows'[r] \in Row /\ rows'[r].body = rows[r].body /\ rows'[r].status = d.status
      BY <1>2, <2>1, <3>1 DEF Row
    <3> QED
      BY <2>2, <3>2
  <2>3. CASE ~(r \in d.rows /\ (d.bulk => r \in Parked))
    <3>1. rows'[r] = rows[r]
      BY <1>1, <2>3
    <3> QED
      BY <2>1, <3>1
  <2> QED
    BY <2>2, <2>3
<1>4. rows' \in [DOMAIN rows -> Row]
  BY <1>1, <1>3
<1>5. decision' \in [Admins -> Decisions(DOMAIN rows)]
  BY <1>1, EndIs
<1> QED
  BY <1>1, <1>3, <1>4, <1>5 DEF Decided

-----------------------------------------------------------------------------
(* Every step *)

LEMMA StepInv == Inv /\ [Next]_vars => Inv'
<1> SUFFICES ASSUME Inv, [Next]_vars
             PROVE  Inv'
  OBVIOUS
<1>1. CASE UNCHANGED vars
  <2>1. /\ Types' /\ MessagesOK' /\ RowsOK'
    BY <1>1 DEF vars, Inv, Types, Ids, MessagesOK, RowsOK, Sound, Body, MaxRetries, Longest
  <2>2. BatchesOK'
    BY <1>1 DEF vars, Inv, BatchesOK, Apart, Held, Holding, MaxRetries
  <2> QED
    BY <2>1, <2>2 DEF Inv
<1>2. CASE QueueStep
  BY <1>2, SendInv, ReceiveInv, FinishBatchInv, CrashInv DEF QueueStep, Queues
<1>3. ASSUME NEW w \in Consumers, ConsumerStep(w)
      PROVE  Inv'
  <2>1. PICK m \in batch[w].todo :
          \/ Process(w, m) \/ Defer(w, m) \/ FailFederation(w, m) \/ FailInternal(w, m)
          \/ Park(w, m) \/ ParkingFails(w, m)
    BY <1>3 DEF ConsumerStep
  <2> QED
    BY <2>1, ConsumerDecides, DecidesInv
<1>4. ASSUME NEW a \in Admins, AdminStep(a)
      PROVE  Inv'
  <2>1. ASSUME NEW status \in {"replayed", "discarded"}, NEW r \in Parked, DecideOne(a, r, status)
        PROVE  Inv'
    BY <2>1, BeginIs, DecidedInv DEF DecideOne, Begun
  <2>2. ASSUME NEW status \in {"replayed", "discarded"}, NEW R \in SUBSET Parked,
               DecideBulk(a, R, status)
        PROVE  Inv'
    BY <2>2, BeginIs, DecidedInv DEF DecideBulk, Begun
  <2>3. CASE SendCopies(a)
    BY <2>3, SendCopiesInv
  <2>4. CASE Mark(a)
    BY <2>4, MarkIs, DecidedInv
  <2>5. CASE Abandon(a)
    BY <2>5, AbandonIs, DecidedInv
  <2> QED
    BY <1>4, <2>1, <2>2, <2>3, <2>4, <2>5 DEF AdminStep
<1> QED
  BY <1>1, <1>2, <1>3, <1>4 DEF Next

\* Every variable keeps its type, and no message is delivered more often than its
\* queue allows: what comes back has attempts left, or moves to a queue where it has.
THEOREM DeadLettersTyped == Spec => []TypeOK
<1>1. Spec => []Inv
  BY InitInv, StepInv, PTL DEF Spec
<1>2. QED
  BY <1>1, TypesImply, PTL

-----------------------------------------------------------------------------
(* Counting copies and rows *)

\* Messages that need not be delivered again.
Done(m) == messages[m].place = "gone" \/ \E w \in Consumers : m \in batch[w].acked

DoneWith(b) == {m \in Ids : Body(m) = b /\ Done(m)}
CopiesOf(b) == {m \in Ids : m # b /\ Body(m) = b}
RowsOf(b)   == {r \in DOMAIN rows : rows[r].body = b}

\* Rows that say replayed, or are about to.
Due == {r \in DOMAIN rows :
          \/ rows[r].status = "replayed"
          \/ \E a \in Admins : /\ decision[a].phase = "mark"
                               /\ decision[a].status = "replayed"
                               /\ r \in decision[a].rows}

\* A message that was neither processed nor given up is done with by a row of its own.
Parking == \A b \in Ids :
  b \notin handled \cup dropped => Cardinality(DoneWith(b)) <= Cardinality(RowsOf(b))

\* A row is marked by those who sent a copy for it.
Replaying == \A b \in Ids : Cardinality(RowsOf(b) \cap Due) <= Cardinality(CopiesOf(b))

\* What is counted is finite.
Finite(b) ==
  /\ IsFiniteSet(CopiesOf(b)) /\ Cardinality(CopiesOf(b)) \in Nat
  /\ IsFiniteSet(DoneWith(b)) /\ Cardinality(DoneWith(b)) \in Nat
  /\ IsFiniteSet(RowsOf(b)) /\ Cardinality(RowsOf(b)) \in Nat
  /\ IsFiniteSet(RowsOf(b) \cap Due) /\ Cardinality(RowsOf(b) \cap Due) \in Nat

AllFinite == \A b : Finite(b)

LEMMA Countable == Inv => AllFinite
<1> SUFFICES ASSUME Inv, NEW b
             PROVE  Finite(b)
  BY DEF AllFinite
<1>1. /\ Ids = 1 .. Len(messages) /\ Len(messages) \in Int
      /\ DOMAIN rows = 1 .. Len(rows) /\ Len(rows) \in Int
  BY Facts
<1>2. IsFiniteSet(Ids) /\ IsFiniteSet(DOMAIN rows)
  BY <1>1, FS_Interval
<1>3. /\ CopiesOf(b) \in SUBSET Ids /\ DoneWith(b) \in SUBSET Ids
      /\ RowsOf(b) \in SUBSET DOMAIN rows /\ RowsOf(b) \cap Due \in SUBSET DOMAIN rows
  BY DEF CopiesOf, DoneWith, RowsOf
<1>4. /\ IsFiniteSet(CopiesOf(b)) /\ IsFiniteSet(DoneWith(b))
      /\ IsFiniteSet(RowsOf(b)) /\ IsFiniteSet(RowsOf(b) \cap Due)
  BY <1>2, <1>3, FS_Subset
<1> QED
  BY <1>4, FS_CardinalityType DEF Finite

LEMMA CountableNext == Inv' => AllFinite'
BY Countable, PTL

-----------------------------------------------------------------------------
(* Replaying *)

\* Messages are added, none is changed in its body.
Extended == Ids \subseteq Ids' /\ \A m \in Ids : messages'[m].body = messages[m].body

LEMMA CopiesStay ==
  ASSUME Extended, NEW b
  PROVE  CopiesOf(b) \subseteq CopiesOf(b)'
BY DEF Extended, CopiesOf, Body

\* No row is of a body that was not sent yet.
LEMMA RowsOfOld ==
  ASSUME Inv, NEW b, b \notin Ids
  PROVE  RowsOf(b) = {}
BY DEF Inv, RowsOK, RowsOf

\* It is kept by a step after which no more rows of a body are due.
LEMMA ReplayingKept ==
  ASSUME Inv, Inv', Replaying, Extended,
         \A b \in Ids' : (RowsOf(b) \cap Due)' \subseteq RowsOf(b) \cap Due
  PROVE  Replaying'
<1> SUFFICES ASSUME NEW b \in Ids'
             PROVE  Cardinality(RowsOf(b) \cap Due)' <= Cardinality(CopiesOf(b))'
  BY DEF Replaying
<1>1. /\ IsFiniteSet(RowsOf(b) \cap Due) /\ Cardinality(RowsOf(b) \cap Due) \in Nat
      /\ IsFiniteSet(CopiesOf(b)) /\ Cardinality(CopiesOf(b)) \in Nat
  BY Countable DEF AllFinite, Finite
<1>2. /\ Cardinality(RowsOf(b) \cap Due)' \in Nat
      /\ IsFiniteSet(CopiesOf(b)') /\ Cardinality(CopiesOf(b))' \in Nat
  BY CountableNext DEF AllFinite, Finite
<1>3. Cardinality(RowsOf(b) \cap Due)' <= Cardinality(RowsOf(b) \cap Due)
  BY <1>1, FS_Subset
<1>4. Cardinality(CopiesOf(b)) <= Cardinality(CopiesOf(b))'
  BY <1>2, CopiesStay, FS_Subset
<1>5. Cardinality(RowsOf(b) \cap Due) <= Cardinality(CopiesOf(b))
  <2>1. CASE b \in Ids
    BY <2>1 DEF Replaying
  <2>2. CASE b \notin Ids
    <3>1. RowsOf(b) \cap Due = {}
      BY <2>2, RowsOfOld
    <3>2. Cardinality(RowsOf(b) \cap Due) = 0
      BY <3>1, FS_EmptySet
    <3> QED
      BY <1>1, <3>2
  <2> QED
    BY <2>1, <2>2
<1> QED
  BY <1>1, <1>2, <1>3, <1>4, <1>5

\* The rows of R that have body b, and the copies sent for them.
LEMMA CopiesFor ==
  ASSUME Inv, NEW a \in Admins, SendCopies(a), NEW b \in Ids
  PROVE  Cardinality({r \in decision[a].rows : rows[r].body = b}) + Cardinality(CopiesOf(b))
           <= Cardinality(CopiesOf(b)')
<1> DEFINE R == decision[a].rows
           n == Cardinality(R)
           order == SetToSeq(R)
           S == {r \in R : rows[r].body = b}
           N == {i \in 1 .. n : rows[order[i]].body = b}
           T == {Len(messages) + i : i \in N}
<1>1. /\ Inv' /\ R \in SUBSET DOMAIN rows /\ Ids' = 1 .. Len(messages) + n
      /\ Ids \subseteq Ids' /\ \A m \in Ids : messages'[m] = messages[m]
      /\ \A i \in 1 .. n : messages'[Len(messages) + i] = Copies(R)[i]
  BY SendCopiesInv
<1>2. Len(messages) \in Nat /\ Ids = 1 .. Len(messages)
  BY Facts
<1>3. /\ n \in Nat /\ order \in [1 .. n -> R] /\ IsInjective(order)
      /\ \A r \in R : \E i \in 1 .. n : order[i] = r
  BY <1>1, DueFinite, OrderIs
<1>4. \A i \in 1 .. n : Copies(R)[i].body = rows[order[i]].body
  BY <1>1, CopiesAre
<1> HIDE DEF R, n, order
<1>5. IsFiniteSet(S) /\ Cardinality(S) \in Nat
  BY <1>1, DueFinite, FS_CardinalityType
<1>6. IsFiniteSet(CopiesOf(b)') /\ Cardinality(CopiesOf(b)') \in Nat
  BY <1>1, CountableNext DEF AllFinite, Finite
<1>7. T \subseteq CopiesOf(b)'
  <2> SUFFICES ASSUME NEW m \in T
               PROVE  m \in CopiesOf(b)'
    OBVIOUS
  <2>1. PICK i \in N : m = Len(messages) + i
    OBVIOUS
  <2>2. m \in Ids' /\ m # b /\ i \in 1 .. n
    BY <1>1, <1>2, <1>3, <2>1
  <2>3. messages'[m].body = b
    BY <1>1, <1>4, <2>1, <2>2
  <2> QED
    BY <2>2, <2>3 DEF CopiesOf, Body
<1>8. CopiesOf(b) \subseteq CopiesOf(b)'
  BY <1>1 DEF CopiesOf, Body
<1>9. T \cap CopiesOf(b) = {}
  <2> SUFFICES ASSUME NEW i \in N
               PROVE  Len(messages) + i \notin CopiesOf(b)
    OBVIOUS
  <2>1. Len(messages) + i \notin Ids
    BY <1>2, <1>3
  <2> QED
    BY <2>1 DEF CopiesOf
<1>10. IsFiniteSet(T) /\ Cardinality(T) \in Nat
  BY <1>6, <1>7, FS_Subset, FS_CardinalityType
<1>11. Cardinality(S) <= Cardinality(T)
  <2> DEFINE g == [m \in T |-> order[m - Len(messages)]]
  <2>1. ASSUME NEW i \in N
        PROVE  g[Len(messages) + i] = order[i] /\ order[i] \in S
    <3>1. Len(messages) + i - Len(messages) = i /\ i \in 1 .. n
      BY <1>2, <1>3
    <3> QED
      BY <1>3, <3>1
  <2>2. g \in [T -> S]
    BY <2>1
  <2>3. \A r \in S : \E m \in T : g[m] = r
    <3> TAKE r \in S
    <3>1. PICK i \in 1 .. n : order[i] = r
      BY <1>3
    <3>2. i \in N
      BY <3>1
    <3> QED
      BY <2>1, <3>1, <3>2
  <2> HIDE DEF g, S, T
  <2>4. g \in Surjection(T, S)
    BY <2>2, <2>3 DEF Surjection
  <2> QED
    BY <1>10, <2>4, FS_Surjection
<1> HIDE DEF S, T, N
<1>12. IsFiniteSet(CopiesOf(b)) /\ Cardinality(CopiesOf(b)) \in Nat
  BY Countable DEF AllFinite, Finite
<1>13. Cardinality(T \cup CopiesOf(b)) = Cardinality(T) + Cardinality(CopiesOf(b))
  BY <1>9, <1>10, <1>12, FS_Union, FS_EmptySet
<1>14. Cardinality(T \cup CopiesOf(b)) <= Cardinality(CopiesOf(b)')
  BY <1>6, <1>7, <1>8, FS_Subset
<1>15. Cardinality(S) + Cardinality(CopiesOf(b)) <= Cardinality(CopiesOf(b)')
  BY <1>5, <1>6, <1>10, <1>11, <1>12, <1>13, <1>14
<1> QED
  BY <1>15 DEF S, R

LEMMA SendCopiesReplaying ==
  ASSUME Inv, Replaying, NEW a \in Admins, SendCopies(a)
  PROVE  Replaying'
<1>1. /\ Inv' /\ decision[a].rows \in SUBSET DOMAIN rows /\ rows' = rows
      /\ decision' = [decision EXCEPT ![a].phase = "mark"]
  BY SendCopiesInv DEF SendCopies
<1> SUFFICES ASSUME NEW b \in Ids'
             PROVE  Cardinality(RowsOf(b) \cap Due)' <= Cardinality(CopiesOf(b))'
  BY DEF Replaying
<1>2. RowsOf(b)' = RowsOf(b)
  BY <1>1 DEF RowsOf
<1>3. CASE b \notin Ids
  <2>1. (RowsOf(b) \cap Due)' = {}
    BY <1>2, <1>3, RowsOfOld
  <2>2. Cardinality(RowsOf(b) \cap Due)' = 0
    BY <2>1, FS_EmptySet
  <2>3. Cardinality(CopiesOf(b))' \in Nat
    BY <1>1, CountableNext DEF AllFinite, Finite
  <2> QED
    BY <2>2, <2>3
<1>4. CASE b \in Ids
  <2> DEFINE S == {r \in decision[a].rows : rows[r].body = b}
             D == RowsOf(b) \cap Due
  <2>1. \A c \in Admins : c # a => decision'[c] = decision[c]
    BY <1>1
  <2>2. (RowsOf(b) \cap Due)' \subseteq D \cup S
    <3> SUFFICES ASSUME NEW r \in RowsOf(b), r \in Due'
                 PROVE  r \in D \cup S
      BY <1>2
    <3>1. r \in DOMAIN rows /\ rows[r].body = b
      BY DEF RowsOf
    <3>2. CASE rows[r].status = "replayed"
      BY <3>1, <3>2 DEF Due
    <3>3. ASSUME NEW c \in Admins, decision'[c].phase = "mark",
                 decision'[c].status = "replayed", r \in decision'[c].rows
          PROVE  r \in D \cup S
      <4>1. CASE c = a
        <5>1. decision'[a].rows = decision[a].rows
          BY <1>1 DEF Inv, Types, Decisions
        <5> QED
          BY <3>1, <3>3, <4>1, <5>1
      <4>2. CASE c # a
        BY <2>1, <3>1, <3>3, <4>2 DEF Due
      <4> QED
        BY <4>1, <4>2
    <3> QED
      BY <1>1, <3>2, <3>3 DEF Due
  <2>3. IsFiniteSet(S) /\ IsFiniteSet(D) /\ Cardinality(S) \in Nat /\ Cardinality(D) \in Nat
    <3>1. S \in SUBSET DOMAIN rows
      BY <1>1
    <3>2. IsFiniteSet(D)
      BY Countable DEF AllFinite, Finite
    <3> QED
      BY <3>1, <3>2, DueFinite, FS_CardinalityType
  <2>4. Cardinality(S) + Cardinality(CopiesOf(b)) <= Cardinality(CopiesOf(b)')
    BY <1>4, CopiesFor
  <2>5. Cardinality(D) <= Cardinality(CopiesOf(b))
    BY <1>4 DEF Replaying
  <2> HIDE DEF S, D
  <2>6. /\ IsFiniteSet(D \cup S) /\ Cardinality(D \cup S) <= Cardinality(D) + Cardinality(S)
        /\ Cardinality(D \cup S) \in Nat
    <3>1. IsFiniteSet(D \cup S) /\ IsFiniteSet(D \cap S)
          /\ Cardinality(D \cup S) = Cardinality(D) + Cardinality(S) - Cardinality(D \cap S)
      BY <2>3, FS_Union, FS_Intersection
    <3>2. Cardinality(D \cup S) \in Nat /\ Cardinality(D \cap S) \in Nat
      BY <3>1, FS_CardinalityType
    <3> QED
      BY <2>3, <3>1, <3>2
  <2>7. Cardinality(RowsOf(b) \cap Due)' <= Cardinality(D \cup S)
    BY <2>2, <2>6, FS_Subset
  <2>8. /\ Cardinality(RowsOf(b) \cap Due)' \in Nat /\ Cardinality(CopiesOf(b))' \in Nat
        /\ Cardinality(CopiesOf(b)) \in Nat
    BY <1>1, Countable, CountableNext DEF AllFinite, Finite
  <2> QED
    BY <2>3, <2>4, <2>5, <2>6, <2>7, <2>8
<1> QED
  BY <1>3, <1>4

\* Steps of the queues and the consumers leave bodies alone.
LEMMA SettleBodies ==
  ASSUME Inv, NEW w \in Consumers, NEW back \in SUBSET Held(w), NEW done,
         Settle(w, back, done)
  PROVE  Ids' = Ids /\ \A m \in Ids : messages'[m].body = messages[m].body
<1>1. messages' = [m \in Ids |-> IF m \in back THEN Redelivered(messages[m], batch[w].queue)
                                 ELSE IF m \in done THEN [messages[m] EXCEPT !.place = "gone"]
                                 ELSE messages[m]]
  BY DEF Settle
<1>2. Ids' = Ids
  BY <1>1 DEF Ids
<1>3. ASSUME NEW m \in Ids
      PROVE  messages'[m].body = messages[m].body
  <2>1. messages[m] \in Message /\ Sound(m)
    BY Facts DEF Inv, MessagesOK
  <2>2. CASE m \in back
    <3>1. messages'[m] = Redelivered(messages[m], batch[w].queue) /\ batch[w].queue \in Queues
      BY <1>1, <2>2, HeldType
    <3> QED
      BY <2>1, <3>1, GoingBack DEF Sound
  <2>3. CASE m \notin back /\ m \in done
    <3>1. messages'[m] = [messages[m] EXCEPT !.place = "gone"]
      BY <1>1, <2>3
    <3> QED
      BY <2>1, <3>1 DEF Message
  <2>4. CASE m \notin back /\ m \notin done
    BY <1>1, <2>4
  <2> QED
    BY <2>2, <2>3, <2>4
<1> QED
  BY <1>2, <1>3

LEMMA CrashSettles ==
  ASSUME Inv, NEW w \in Consumers, Crash(w)
  PROVE  \E back \in SUBSET Held(w), done \in SUBSET batch[w].acked :
           /\ back \cup done = Held(w) /\ Settle(w, back, done)
           /\ \A m \in back : CrashesOnLastAttempt
                              \/ Redelivered(messages[m], batch[w].queue).place # "gone"
<1>1. PICK lost \in {{}, batch[w].acked} :
        /\ \A m \in batch[w].todo \cup batch[w].retried \cup lost :
             CrashesOnLastAttempt \/ Redelivered(messages[m], batch[w].queue).place # "gone"
        /\ Settle(w, batch[w].todo \cup batch[w].retried \cup lost, batch[w].acked \ lost)
  BY DEF Crash
<1> DEFINE back == batch[w].todo \cup batch[w].retried \cup lost
           done == batch[w].acked \ lost
<1>2. back \in SUBSET Held(w) /\ done \in SUBSET batch[w].acked /\ back \cup done = Held(w)
  BY DEF Held
<1> QED
  BY <1>1, <1>2

LEMMA QueueBodies ==
  ASSUME Inv, QueueStep
  PROVE  Extended /\ UNCHANGED <<rows, decision, handled, dropped>>
<1>1. ASSUME NEW q \in {"federation", "internal"}, Send(q)
      PROVE  Extended /\ UNCHANGED <<rows, decision, handled, dropped>>
  <2>1. messages \in Seq(Message) /\ Ids = 1 .. Len(messages) /\ Len(messages) \in Nat
    BY Facts DEF Inv, Types
  <2>2. messages' = Append(messages, [place |-> q, attempts |-> 0, body |-> Len(messages) + 1])
    BY <1>1 DEF Send
  <2>3. Ids' = 1 .. Len(messages) + 1 /\ \A m \in Ids : messages'[m] = messages[m]
    BY <2>1, <2>2 DEF Ids
  <2> QED
    BY <1>1, <2>1, <2>3 DEF Extended, Send
<1>2. ASSUME NEW w \in Consumers, NEW q \in Queues,
             NEW M \in SUBSET {m \in Ids : messages[m].place = q}, Receive(w, q, M)
      PROVE  Extended /\ UNCHANGED <<rows, decision, handled, dropped>>
  <2>1. messages' = [m \in Ids |-> IF m \in M
                                   THEN [messages[m] EXCEPT !.place = "batch", !.attempts = @ + 1]
                                   ELSE messages[m]]
    BY <1>2 DEF Receive
  <2>2. Ids' = Ids
    BY <2>1 DEF Ids
  <2>3. \A m \in Ids : messages'[m].body = messages[m].body
    BY <2>1, HandedOver, Facts
  <2> QED
    BY <1>2, <2>2, <2>3 DEF Extended, Receive
<1>3. ASSUME NEW w \in Consumers, FinishBatch(w)
      PROVE  Extended /\ UNCHANGED <<rows, decision, handled, dropped>>
  <2>1. batch[w].retried \in SUBSET Held(w) /\ Settle(w, batch[w].retried, batch[w].acked)
    BY <1>3 DEF Held, FinishBatch
  <2> QED
    BY <2>1, SettleBodies DEF Extended, Settle
<1>4. ASSUME NEW w \in Consumers, Crash(w)
      PROVE  Extended /\ UNCHANGED <<rows, decision, handled, dropped>>
  <2>1. PICK back \in SUBSET Held(w), done \in SUBSET batch[w].acked : Settle(w, back, done)
    BY <1>4, CrashSettles
  <2> QED
    BY <2>1, SettleBodies DEF Extended, Settle
<1> QED
  BY <1>1, <1>2, <1>3, <1>4 DEF QueueStep, Queues

LEMMA DecidesReplaying ==
  ASSUME Inv, Replaying, NEW w \in Consumers, NEW m, Decides(w, m)
  PROVE  Replaying'
<1>1. Inv'
  BY DecidesInv
<1>2. messages' = messages /\ decision' = decision /\ Grown(m)
  BY DEF Decides
<1>3. Extended
  BY <1>2 DEF Extended, Ids
<1>4. ASSUME NEW b, NEW r \in RowsOf(b)', r \in Due'
      PROVE  r \in RowsOf(b) /\ r \in Due
  <2>1. r \in DOMAIN rows' /\ rows'[r].body = b
    BY <1>4 DEF RowsOf
  <2>2. CASE r \in DOMAIN rows
    BY <1>2, <1>4, <2>1, <2>2 DEF Grown, RowsOf, Due
  <2>3. CASE r \notin DOMAIN rows
    <3>1. rows'[r].status = "parked"
      BY <1>2, <2>1, <2>3 DEF Grown, ParkedRow
    <3>2. \A c \in Admins : r \notin decision[c].rows
      BY <2>3 DEF Inv, Types, Decisions
    <3> QED
      BY <1>2, <1>4, <3>1, <3>2 DEF Due
  <2> QED
    BY <2>2, <2>3
<1>5. \A b \in Ids' : (RowsOf(b) \cap Due)' \subseteq RowsOf(b) \cap Due
  BY <1>4
<1> QED
  BY <1>1, <1>3, <1>5, ReplayingKept

LEMMA DecidedReplaying ==
  ASSUME Inv, Replaying, Decided, Due' \subseteq Due
  PROVE  Replaying'
<1>1. Inv' /\ Extended
  BY DecidedInv DEF Decided, Extended, Ids
<1>2. \A b : RowsOf(b)' = RowsOf(b)
  BY DEF Decided, RowsOf
<1>3. \A b \in Ids' : (RowsOf(b) \cap Due)' \subseteq RowsOf(b) \cap Due
  BY <1>2
<1> QED
  BY <1>1, <1>3, ReplayingKept

LEMMA BeginReplaying ==
  ASSUME Inv, Replaying, NEW a \in Admins, NEW R, NEW status, Begun(a, R, status)
  PROVE  Replaying'
<1>1. ~(decision'[a].phase = "mark" /\ decision'[a].status = "replayed")
  BY DEF Begun, FirstPhase
<1>2. Due' \subseteq Due
  BY <1>1 DEF Begun, Due
<1> QED
  BY <1>2, DecidedReplaying DEF Begun

LEMMA MarkReplaying ==
  ASSUME Inv, Replaying, NEW a \in Admins, Mark(a) \/ Abandon(a)
  PROVE  Replaying'
<1>1. /\ \A c \in Admins : c # a => decision'[c] = decision[c]
      /\ decision'[a].phase = "none"
  BY EndIs DEF Mark, Abandon
<1>2. /\ Decided
      /\ \A r \in DOMAIN rows :
           \/ rows'[r] = rows[r]
           \/ /\ r \in decision[a].rows /\ rows'[r].status = decision[a].status
              /\ decision[a].phase = "mark"
  BY MarkIs, AbandonIs
<1>3. DOMAIN rows' = DOMAIN rows
  BY <1>2 DEF Decided
<1>4. Due' \subseteq Due
  <2> SUFFICES ASSUME NEW r \in Due'
               PROVE  r \in Due
    OBVIOUS
  <2>1. r \in DOMAIN rows
    BY <1>3 DEF Due
  <2>2. CASE rows'[r].status = "replayed"
    BY <1>2, <2>1, <2>2 DEF Due
  <2>3. ASSUME NEW c \in Admins, decision'[c].phase = "mark",
               decision'[c].status = "replayed", r \in decision'[c].rows
        PROVE  r \in Due
    BY <1>1, <2>1, <2>3 DEF Due
  <2> QED
    BY <2>2, <2>3 DEF Due
<1> QED
  BY <1>2, <1>4, DecidedReplaying

LEMMA ReplayingStep == Inv /\ Replaying /\ [Next]_vars => Replaying'
<1> SUFFICES ASSUME Inv, Replaying, [Next]_vars
             PROVE  Replaying'
  OBVIOUS
<1>0. Inv'
  BY StepInv
<1>1. CASE UNCHANGED vars
  BY <1>1 DEF vars, Replaying, RowsOf, Due, CopiesOf, Ids, Body
<1>2. CASE QueueStep
  <2>1. Extended /\ rows' = rows /\ decision' = decision
    BY <1>2, QueueBodies
  <2>2. \A b \in Ids' : (RowsOf(b) \cap Due)' \subseteq RowsOf(b) \cap Due
    BY <2>1 DEF RowsOf, Due
  <2> QED
    BY <1>0, <2>1, <2>2, ReplayingKept
<1>3. ASSUME NEW w \in Consumers, ConsumerStep(w)
      PROVE  Replaying'
  <2>1. PICK m \in batch[w].todo :
          \/ Process(w, m) \/ Defer(w, m) \/ FailFederation(w, m) \/ FailInternal(w, m)
          \/ Park(w, m) \/ ParkingFails(w, m)
    BY <1>3 DEF ConsumerStep
  <2> QED
    BY <2>1, ConsumerDecides, DecidesReplaying
<1>4. ASSUME NEW a \in Admins, AdminStep(a)
      PROVE  Replaying'
  <2>1. ASSUME NEW status \in {"replayed", "discarded"}, NEW r \in Parked, DecideOne(a, r, status)
        PROVE  Replaying'
    BY <2>1, BeginIs, BeginReplaying DEF DecideOne
  <2>2. ASSUME NEW status \in {"replayed", "discarded"}, NEW R \in SUBSET Parked,
               DecideBulk(a, R, status)
        PROVE  Replaying'
    BY <2>2, BeginIs, BeginReplaying DEF DecideBulk
  <2>3. CASE SendCopies(a)
    BY <2>3, SendCopiesReplaying
  <2>4. CASE Mark(a) \/ Abandon(a)
    BY <2>4, MarkReplaying
  <2> QED
    BY <1>4, <2>1, <2>2, <2>3, <2>4 DEF AdminStep
<1> QED
  BY <1>1, <1>2, <1>3, <1>4 DEF Next

LEMMA ReplayingInit == Init => Replaying
BY DEF Init, Replaying, Ids

LEMMA ReplayingTells == Inv /\ Replaying => ReplayedWereSent
<1> SUFFICES ASSUME Inv, Replaying, NEW b \in Ids
             PROVE  Cardinality({r \in DOMAIN rows : rows[r] = [status |-> "replayed", body |-> b]})
                      <= Cardinality(CopiesOf(b))
  BY DEF ReplayedWereSent, CopiesOf
<1> DEFINE S == {r \in DOMAIN rows : rows[r] = [status |-> "replayed", body |-> b]}
<1>1. S \subseteq RowsOf(b) \cap Due
  BY DEF RowsOf, Due
<1>2. /\ IsFiniteSet(RowsOf(b) \cap Due) /\ Cardinality(RowsOf(b) \cap Due) \in Nat
      /\ Cardinality(CopiesOf(b)) \in Nat
  BY Countable DEF AllFinite, Finite
<1>3. Cardinality(RowsOf(b) \cap Due) <= Cardinality(CopiesOf(b))
  BY DEF Replaying
<1> HIDE DEF S
<1>4. IsFiniteSet(S) /\ Cardinality(S) <= Cardinality(RowsOf(b) \cap Due)
  BY <1>1, <1>2, FS_Subset
<1>5. Cardinality(S) \in Nat
  BY <1>4, FS_CardinalityType
<1>6. Cardinality(S) <= Cardinality(CopiesOf(b))
  BY <1>2, <1>3, <1>4, <1>5
<1> QED
  BY <1>6 DEF S

\* For every row that says replayed a copy of its body was sent, whoever decides at
\* the same time and wherever a request ends.
THEOREM ReplaysAreSent == Spec => []ReplayedWereSent
<1>1. Spec => [](Inv /\ Replaying)
  BY InitInv, StepInv, ReplayingInit, ReplayingStep, PTL DEF Spec
<1>2. QED
  BY <1>1, ReplayingTells, PTL

-----------------------------------------------------------------------------
(* Parking *)

\* Only a message that was sent is done with.
LEMMA DoneOfOld ==
  ASSUME Inv, NEW b, b \notin Ids
  PROVE  DoneWith(b) = {}
<1>1. \A m \in Ids : Body(m) \in Ids
  <2> TAKE m \in Ids
  <2>1. Sound(m) /\ Ids = 1 .. Len(messages) /\ Len(messages) \in Nat
    BY Facts DEF Inv, MessagesOK
  <2> QED
    BY <2>1 DEF Sound
<1> QED
  BY <1>1 DEF DoneWith

\* It is kept by a step after which no more messages of a body are done with, or
\* after which the body is processed or given up.
LEMMA ParkingKept ==
  ASSUME Inv, Inv', Parking,
         handled \subseteq handled', dropped \subseteq dropped',
         \A b \in Ids' : \/ b \in handled' \cup dropped'
                         \/ RowsOf(b) \subseteq RowsOf(b)' /\ DoneWith(b)' \subseteq DoneWith(b)
  PROVE  Parking'
<1> SUFFICES ASSUME NEW b \in Ids', b \notin handled' \cup dropped'
             PROVE  Cardinality(DoneWith(b))' <= Cardinality(RowsOf(b))'
  BY DEF Parking
<1>1. /\ IsFiniteSet(DoneWith(b)) /\ Cardinality(DoneWith(b)) \in Nat
      /\ Cardinality(RowsOf(b)) \in Nat
  BY Countable DEF AllFinite, Finite
<1>2. /\ Cardinality(DoneWith(b))' \in Nat
      /\ IsFiniteSet(RowsOf(b)') /\ Cardinality(RowsOf(b))' \in Nat
  BY CountableNext DEF AllFinite, Finite
<1>3. Cardinality(DoneWith(b))' <= Cardinality(DoneWith(b))
  BY <1>1, FS_Subset
<1>4. Cardinality(RowsOf(b)) <= Cardinality(RowsOf(b))'
  BY <1>2, FS_Subset
<1>5. Cardinality(DoneWith(b)) <= Cardinality(RowsOf(b))
  <2>1. CASE b \in Ids
    BY <2>1 DEF Parking
  <2>2. CASE b \notin Ids
    <3>1. Cardinality(DoneWith(b)) = 0
      BY <2>2, DoneOfOld, FS_EmptySet
    <3> QED
      BY <1>1, <3>1
  <2> QED
    BY <2>1, <2>2
<1> QED
  BY <1>1, <1>2, <1>3, <1>4, <1>5

\* Sending, and what administrators do, finishes nothing.
LEMMA SentParking ==
  ASSUME Inv, Inv', Parking, Ids \subseteq Ids',
         \A m \in Ids : messages'[m] = messages[m],
         \A m \in Ids' \ Ids : messages'[m].place # "gone",
         UNCHANGED <<batch, handled, dropped>>,
         \A b : RowsOf(b)' = RowsOf(b)
  PROVE  Parking'
<1>1. ASSUME NEW b, NEW m \in DoneWith(b)'
      PROVE  m \in DoneWith(b)
  <2>1. m \in Ids' /\ Body(m)' = b /\ Done(m)'
    BY <1>1 DEF DoneWith
  <2>2. m \in Ids
    <3> SUFFICES ASSUME m \notin Ids
                 PROVE  FALSE
      OBVIOUS
    <3>1. PICK w \in Consumers : m \in batch[w].acked
      BY <2>1 DEF Done
    <3> QED
      BY <3>1, HeldType DEF Held
  <2> QED
    BY <2>1, <2>2 DEF DoneWith, Done, Body
<1> QED
  BY <1>1, ParkingKept

\* What a consumer returns is delivered again.
LEMMA SettleParking ==
  ASSUME Inv, Inv', Parking, NEW w \in Consumers, NEW back \in SUBSET Held(w),
         NEW done \in SUBSET batch[w].acked, Settle(w, back, done),
         \A m \in back : Redelivered(messages[m], batch[w].queue).place # "gone"
  PROVE  Parking'
<1>1. /\ messages' = [m \in Ids |-> IF m \in back THEN Redelivered(messages[m], batch[w].queue)
                                    ELSE IF m \in done THEN [messages[m] EXCEPT !.place = "gone"]
                                    ELSE messages[m]]
      /\ batch' = [batch EXCEPT ![w] = NoBatch]
      /\ UNCHANGED <<rows, decision, handled, dropped>>
  BY DEF Settle
<1>2. Ids' = Ids /\ \A m \in Ids : messages'[m].body = messages[m].body
  BY SettleBodies
<1>3. \A v \in Consumers : batch'[v].acked \subseteq batch[v].acked
  BY <1>1 DEF Inv, Types, NoBatch
<1>4. ASSUME NEW m \in Ids, Done(m)'
      PROVE  Done(m)
  <2>1. ASSUME messages'[m].place = "gone"
        PROVE  Done(m)
    <3>1. m \notin back
      BY <1>1, <2>1
    <3>2. CASE m \in done
      BY <3>2 DEF Done
    <3>3. CASE m \notin done
      BY <1>1, <2>1, <3>1, <3>3 DEF Done
    <3> QED
      BY <3>2, <3>3
  <2> QED
    BY <1>3, <1>4, <2>1 DEF Done
<1>5. \A b : RowsOf(b)' = RowsOf(b) /\ DoneWith(b)' \subseteq DoneWith(b)
  BY <1>1, <1>2, <1>4 DEF RowsOf, DoneWith, Body
<1> QED
  BY <1>1, <1>5, ParkingKept

LEMMA QueueParking ==
  ASSUME ~CrashesOnLastAttempt, Inv, Inv', Parking, QueueStep
  PROVE  Parking'
<1>1. ASSUME NEW q \in {"federation", "internal"}, Send(q)
      PROVE  Parking'
  <2> DEFINE x == [place |-> q, attempts |-> 0, body |-> Len(messages) + 1]
  <2>1. messages \in Seq(Message) /\ Ids = 1 .. Len(messages) /\ Len(messages) \in Nat
    BY Facts DEF Inv, Types
  <2>2. /\ messages' = Append(messages, x) /\ x.place # "gone"
        /\ UNCHANGED <<batch, rows, decision, handled, dropped>>
    BY <1>1 DEF Send
  <2> HIDE DEF x
  <2>3. /\ Ids' = 1 .. Len(messages) + 1 /\ \A m \in Ids : messages'[m] = messages[m]
        /\ messages'[Len(messages) + 1] = x
    BY <2>1, <2>2 DEF Ids
  <2>4. \A m \in Ids' \ Ids : messages'[m].place # "gone"
    <3>1. \A m \in Ids' \ Ids : m = Len(messages) + 1
      BY <2>1, <2>3
    <3> QED
      BY <2>2, <2>3, <3>1
  <2>5. Ids \subseteq Ids' /\ \A b : RowsOf(b)' = RowsOf(b)
    BY <2>1, <2>2, <2>3 DEF RowsOf
  <2> QED
    BY <2>2, <2>3, <2>4, <2>5, SentParking
<1>2. ASSUME NEW w \in Consumers, NEW q \in Queues,
             NEW M \in SUBSET {m \in Ids : messages[m].place = q}, Receive(w, q, M)
      PROVE  Parking'
  <2>1. /\ messages' = [m \in Ids |-> IF m \in M
                                      THEN [messages[m] EXCEPT !.place = "batch", !.attempts = @ + 1]
                                      ELSE messages[m]]
        /\ batch' = [batch EXCEPT ![w] = [NoBatch EXCEPT !.queue = q, !.todo = M]]
        /\ UNCHANGED <<rows, decision, handled, dropped>>
    BY <1>2 DEF Receive
  <2>2. Ids' = Ids
    BY <2>1 DEF Ids
  <2>3. ASSUME NEW m \in Ids
        PROVE  /\ messages'[m].body = messages[m].body
               /\ messages'[m].place = "gone" => messages[m].place = "gone"
    <3>1. CASE m \in M
      <4>1. messages'[m] = [messages[m] EXCEPT !.place = "batch", !.attempts = @ + 1]
        BY <2>1, <3>1
      <4> QED
        BY <4>1, HandedOver, Facts
    <3>2. CASE m \notin M
      BY <2>1, <3>2
    <3> QED
      BY <3>1, <3>2
  <2>4. \A v \in Consumers : batch'[v].acked \subseteq batch[v].acked
    <3>1. batch'[w].acked = {}
      BY <2>1 DEF Inv, Types, NoBatch
    <3> QED
      BY <2>1, <3>1 DEF Inv, Types
  <2>5. \A b : RowsOf(b)' = RowsOf(b) /\ DoneWith(b)' \subseteq DoneWith(b)
    BY <2>1, <2>2, <2>3, <2>4 DEF RowsOf, DoneWith, Done, Body
  <2> QED
    BY <2>1, <2>5, ParkingKept
<1>3. ASSUME NEW w \in Consumers, FinishBatch(w)
      PROVE  Parking'
  <2>1. /\ batch[w].retried \in SUBSET Held(w) /\ batch[w].acked \in SUBSET batch[w].acked
        /\ Settle(w, batch[w].retried, batch[w].acked)
    BY <1>3 DEF Held, FinishBatch
  <2>2. \A m \in batch[w].retried : Redelivered(messages[m], batch[w].queue).place # "gone"
    <3> TAKE m \in batch[w].retried
    <3>1. m \in Held(w) /\ m \in Ids /\ batch[w].queue \in Queues /\ Holding(w)
      BY <2>1, HeldType
    <3>2. messages[m] \in Message /\ messages[m].attempts <= Longest + 1
      BY <3>1, Facts DEF Inv, MessagesOK, Sound
    <3>3. batch[w].queue = "federation" \/ messages[m].attempts <= MaxRetries(batch[w].queue)
      BY <3>1 DEF Holding
    <3> QED
      BY <3>1, <3>2, <3>3, GoingBack
  <2> QED
    BY <2>1, <2>2, SettleParking
<1>4. ASSUME NEW w \in Consumers, Crash(w)
      PROVE  Parking'
  <2>1. PICK back \in SUBSET Held(w), done \in SUBSET batch[w].acked :
          /\ Settle(w, back, done)
          /\ \A m \in back : CrashesOnLastAttempt
                             \/ Redelivered(messages[m], batch[w].queue).place # "gone"
    BY <1>4, CrashSettles
  <2> QED
    BY <2>1, SettleParking
<1> QED
  BY <1>1, <1>2, <1>3, <1>4 DEF QueueStep, Queues

\* A consumer finishes a message that was processed or given up, or parks it.
LEMMA DecidesParking ==
  ASSUME Inv, Parking, NEW w \in Consumers, NEW m, Decides(w, m)
  PROVE  Parking'
<1>1. /\ m \in Ids
      /\ \A v \in Consumers : v # w => batch'[v] = batch[v]
      /\ \/ /\ batch'[w].acked = batch[w].acked \cup {m}
            /\ Body(m) \in handled' \cup dropped' \/ DOMAIN rows' \ DOMAIN rows # {}
         \/ batch'[w].acked = batch[w].acked
  BY DecidesBatch
<1>2. /\ messages' = messages /\ decision' = decision /\ Grown(m)
      /\ handled \subseteq handled' /\ dropped \subseteq dropped'
  BY DEF Decides
<1>3. Ids' = Ids /\ Inv'
  BY <1>2, DecidesInv DEF Ids
<1>4. \A i \in Ids : Body(i)' = Body(i)
  BY <1>2 DEF Body
<1>5. \A b : RowsOf(b) \subseteq RowsOf(b)'
  BY <1>2 DEF Grown, RowsOf
<1>6. \A i \in Ids : Done(i)' => Done(i) \/ i = m
  BY <1>1, <1>2 DEF Done
<1>7. \A b : DoneWith(b)' \subseteq DoneWith(b) \cup {m}
  BY <1>3, <1>4, <1>6 DEF DoneWith
<1>8. \A b : b # Body(m) => DoneWith(b)' \subseteq DoneWith(b)
  BY <1>1, <1>3, <1>4, <1>6 DEF DoneWith
<1>9. CASE batch'[w].acked = batch[w].acked
  <2>1. \A i \in Ids : Done(i)' => Done(i)
    BY <1>1, <1>2, <1>9 DEF Done
  <2>2. \A b : DoneWith(b)' \subseteq DoneWith(b)
    BY <1>3, <1>4, <2>1 DEF DoneWith
  <2> QED
    BY <1>2, <1>3, <1>5, <2>2, ParkingKept
<1>10. CASE Body(m) \in handled' \cup dropped'
  <2>1. \A b \in Ids' : \/ b \in handled' \cup dropped'
                        \/ RowsOf(b) \subseteq RowsOf(b)' /\ DoneWith(b)' \subseteq DoneWith(b)
    BY <1>5, <1>8, <1>10
  <2> QED
    BY <1>2, <1>3, <2>1, ParkingKept
<1>11. CASE DOMAIN rows' \ DOMAIN rows # {}
  <2> SUFFICES ASSUME NEW b \in Ids', b \notin handled' \cup dropped'
               PROVE  Cardinality(DoneWith(b))' <= Cardinality(RowsOf(b))'
    BY DEF Parking
  <2>1. Cardinality(DoneWith(b)) <= Cardinality(RowsOf(b))
    BY <1>2, <1>3 DEF Parking
  <2>2. /\ IsFiniteSet(DoneWith(b)) /\ Cardinality(DoneWith(b)) \in Nat
        /\ IsFiniteSet(RowsOf(b)) /\ Cardinality(RowsOf(b)) \in Nat
    BY Countable DEF AllFinite, Finite
  <2>3. /\ IsFiniteSet(DoneWith(b)') /\ Cardinality(DoneWith(b)') \in Nat
        /\ IsFiniteSet(RowsOf(b)') /\ Cardinality(RowsOf(b)') \in Nat
    BY <1>3, CountableNext DEF AllFinite, Finite
  <2>4. CASE b # Body(m)
    <3>1. Cardinality(DoneWith(b)') <= Cardinality(DoneWith(b))
      BY <1>8, <2>2, <2>4, FS_Subset
    <3>2. Cardinality(RowsOf(b)) <= Cardinality(RowsOf(b)')
      BY <1>5, <2>3, FS_Subset
    <3> QED
      BY <2>1, <2>2, <2>3, <3>1, <3>2
  <2>5. CASE b = Body(m)
    <3>1. PICK r \in DOMAIN rows' : r \notin DOMAIN rows
      BY <1>11
    <3>2. r \in RowsOf(b)' /\ r \notin RowsOf(b)
      <4>1. rows'[r].body = b
        BY <1>2, <2>5, <3>1 DEF Grown, ParkedRow
      <4> QED
        BY <3>1, <4>1 DEF RowsOf
    <3>3. Cardinality(RowsOf(b) \cup {r}) = Cardinality(RowsOf(b)) + 1
      BY <2>2, <3>2, FS_AddElement
    <3>4. Cardinality(RowsOf(b) \cup {r}) <= Cardinality(RowsOf(b)')
      BY <1>5, <2>3, <3>2, FS_Subset
    <3>5. /\ IsFiniteSet(DoneWith(b) \cup {m})
          /\ Cardinality(DoneWith(b) \cup {m}) <= Cardinality(DoneWith(b)) + 1
          /\ Cardinality(DoneWith(b) \cup {m}) \in Nat
      <4>1. /\ IsFiniteSet(DoneWith(b) \cup {m})
            /\ Cardinality(DoneWith(b) \cup {m}) =
                 IF m \in DoneWith(b) THEN Cardinality(DoneWith(b)) ELSE Cardinality(DoneWith(b)) + 1
        BY <2>2, FS_AddElement
      <4> QED
        BY <2>2, <4>1
    <3>6. Cardinality(DoneWith(b)') <= Cardinality(DoneWith(b) \cup {m})
      BY <1>7, <3>5, FS_Subset
    <3> QED
      BY <2>1, <2>2, <2>3, <3>3, <3>4, <3>5, <3>6
  <2> QED
    BY <2>4, <2>5
<1> QED
  BY <1>1, <1>9, <1>10, <1>11

LEMMA ParkingStep ==
  ASSUME ~CrashesOnLastAttempt
  PROVE  Inv /\ Parking /\ [Next]_vars => Parking'
<1> SUFFICES ASSUME Inv, Parking, [Next]_vars
             PROVE  Parking'
  OBVIOUS
<1>0. Inv'
  BY StepInv
<1>1. CASE UNCHANGED vars
  BY <1>1 DEF vars, Parking, RowsOf, DoneWith, Done, Ids, Body
<1>2. CASE QueueStep
  BY <1>0, <1>2, QueueParking
<1>3. ASSUME NEW w \in Consumers, ConsumerStep(w)
      PROVE  Parking'
  <2>1. PICK m \in batch[w].todo :
          \/ Process(w, m) \/ Defer(w, m) \/ FailFederation(w, m) \/ FailInternal(w, m)
          \/ Park(w, m) \/ ParkingFails(w, m)
    BY <1>3 DEF ConsumerStep
  <2> QED
    BY <2>1, ConsumerDecides, DecidesParking
<1>4. ASSUME Decided
      PROVE  Parking'
  <2>1. Ids' = Ids /\ \A b : RowsOf(b)' = RowsOf(b)
    BY <1>4 DEF Decided, Ids, RowsOf
  <2> QED
    BY <1>0, <1>4, <2>1, SentParking DEF Decided
<1>5. ASSUME NEW a \in Admins, SendCopies(a)
      PROVE  Parking'
  <2> DEFINE R == decision[a].rows
             n == Cardinality(R)
  <2>1. /\ R \in SUBSET DOMAIN rows /\ Ids' = 1 .. Len(messages) + n /\ Ids \subseteq Ids'
        /\ \A m \in Ids : messages'[m] = messages[m]
        /\ \A i \in 1 .. n : messages'[Len(messages) + i] = Copies(R)[i]
    BY <1>5, SendCopiesInv
  <2>2. /\ n \in Nat /\ Ids = 1 .. Len(messages) /\ Len(messages) \in Nat
        /\ \A i \in 1 .. n : Copies(R)[i].place = "federation"
    BY <2>1, CopiesAre, Facts
  <2>3. /\ UNCHANGED <<batch, handled, dropped>> /\ \A b : RowsOf(b)' = RowsOf(b)
    BY <1>5 DEF SendCopies, RowsOf
  <2> HIDE DEF R, n
  <2>4. \A m \in Ids' \ Ids : messages'[m].place # "gone"
    <3> TAKE m \in Ids' \ Ids
    <3>1. m - Len(messages) \in 1 .. n /\ m = Len(messages) + (m - Len(messages))
      BY <2>1, <2>2
    <3>2. PICK i \in 1 .. n : m = Len(messages) + i
      BY <3>1
    <3>3. messages'[m] = Copies(R)[i] /\ Copies(R)[i].place = "federation"
      BY <2>1, <2>2, <3>2
    <3> QED
      BY <3>3
  <2> QED
    BY <1>0, <2>1, <2>3, <2>4, SentParking
<1>6. ASSUME NEW a \in Admins, AdminStep(a)
      PROVE  Parking'
  <2>1. ASSUME NEW status \in {"replayed", "discarded"}, NEW r \in Parked, DecideOne(a, r, status)
        PROVE  Decided
    BY <2>1, BeginIs DEF DecideOne, Begun
  <2>2. ASSUME NEW status \in {"replayed", "discarded"}, NEW R \in SUBSET Parked,
               DecideBulk(a, R, status)
        PROVE  Decided
    BY <2>2, BeginIs DEF DecideBulk, Begun
  <2>3. CASE SendCopies(a)
    BY <1>5, <2>3
  <2>4. CASE Mark(a) \/ Abandon(a)
    BY <1>4, <2>4, MarkIs, AbandonIs
  <2> QED
    BY <1>4, <1>6, <2>1, <2>2, <2>3, <2>4 DEF AdminStep
<1> QED
  BY <1>1, <1>2, <1>3, <1>6 DEF Next

LEMMA ParkingInit == Init => Parking
BY DEF Init, Parking, Ids

\* If every message with a body is gone, they are one more than its copies; were all
\* its rows replayed, they could be no more than its copies.
LEMMA NothingIsLost == Inv /\ Parking /\ Replaying => NothingLost
<1> SUFFICES ASSUME Inv, Parking, Replaying, NEW i \in Ids,
                    Body(i) \notin handled \cup dropped, ~Waiting(Body(i)), ~Kept(Body(i))
             PROVE  FALSE
  BY DEF NothingLost
<1> DEFINE b == Body(i)
<1>1. b \in Ids /\ Body(b) = b
  <2>1. Sound(i) /\ Ids = 1 .. Len(messages) /\ Len(messages) \in Nat
    BY Facts DEF Inv, MessagesOK
  <2> QED
    BY <2>1 DEF Sound
<1>2. /\ b \notin handled \cup dropped
      /\ \A m \in Ids : Body(m) = b => messages[m].place = "gone"
      /\ \A r \in DOMAIN rows : rows[r].body = b => rows[r].status = "replayed"
  BY DEF Waiting, Kept
<1> HIDE DEF b
<1>3. CopiesOf(b) \cup {b} \subseteq DoneWith(b) /\ b \notin CopiesOf(b)
  BY <1>1, <1>2 DEF CopiesOf, DoneWith, Done
<1>4. RowsOf(b) \cap Due = RowsOf(b)
  BY <1>2 DEF RowsOf, Due
<1>5. /\ IsFiniteSet(CopiesOf(b)) /\ Cardinality(CopiesOf(b)) \in Nat
      /\ IsFiniteSet(DoneWith(b)) /\ Cardinality(DoneWith(b)) \in Nat
      /\ Cardinality(RowsOf(b)) \in Nat
  BY Countable DEF AllFinite, Finite
<1>6. Cardinality(CopiesOf(b) \cup {b}) = Cardinality(CopiesOf(b)) + 1
  BY <1>3, <1>5, FS_AddElement
<1>7. Cardinality(CopiesOf(b) \cup {b}) <= Cardinality(DoneWith(b))
  BY <1>3, <1>5, FS_Subset
<1>8. Cardinality(DoneWith(b)) <= Cardinality(RowsOf(b))
  BY <1>1, <1>2 DEF Parking
<1>9. Cardinality(RowsOf(b)) <= Cardinality(CopiesOf(b))
  BY <1>1, <1>4 DEF Replaying
<1> QED
  BY <1>5, <1>6, <1>7, <1>8, <1>9

\* No message disappears without a trace, as long as no consumer dies in the last
\* delivery of a message that has no dead-letter queue behind it.
THEOREM MessagesLeaveATrace ==
  ASSUME ~CrashesOnLastAttempt
  PROVE  Spec => []NothingLost
<1>1. Spec => [](Inv /\ Parking /\ Replaying)
  BY InitInv, StepInv, ParkingInit, ParkingStep, ReplayingInit, ReplayingStep, PTL DEF Spec
<1>2. QED
  BY <1>1, NothingIsLost, PTL

================================================================================
